---------------------------- MODULE WorkerProofs ----------------------------
(***************************************************************************)
(* Proofs about the worker's loop and its transport, for every set of      *)
(* requests, every crowd and every cap on connections.                     *)
(***************************************************************************)
EXTENDS Worker, TLAPS

(***************************************************************************)
(* The inductive invariant.  The three records kept of one request, the    *)
(* client's, the connection's and the admission's, never get out of step:  *)
(* they are written by different callbacks, and what makes an answer true  *)
(* is that the later ones can no longer happen.                            *)
(***************************************************************************)
\* Nothing of a request is on the worker's side before its client has connected.
BeforeContact(c) ==
  /\ client[c].at = "new" => conn[c].state = None
  /\ conn[c].state \in {None, "backlog"} => adm[c].state = None /\ conn[c].out = None
  /\ conn[c].state = None => ~conn[c].frame

\* A frame is dispatched once: while one can be read there is no admission yet.
DispatchedOnce(c) == conn[c].frame => adm[c].state = None /\ conn[c].out = None

\* Effects are an admitted request's, and none follows its answer.
EffectsAdmitted(c) ==
  /\ c \in Ordinary /\ acted[c] => adm[c].state # None
  /\ adm[c].state = "finishing" => c \in Ordinary /\ adm[c].result # None
  /\ c \in Ordinary /\ adm[c].result = "not_started" => ~acted[c]
  /\ adm[c].state # "finishing" => adm[c].result = None

\* A reply, in the connection's buffer or on its way, belongs to an admission that is
\* over or never was, and says of the effects what is so.
ReplyFinal(c) ==
  /\ conn[c].out # None => adm[c].state \in {None, "final"}
  /\ conn[c].out = "not_started" /\ c \in Ordinary => ~acted[c]
  /\ conn[c].out = "success" /\ c \in Stops => stage = "done"

\* What the client reports of a request is what it was answered, or what it knows by
\* not having sent it.
ReportedFinal(c) ==
  /\ client[c].answer = "not_started" => ~conn[c].frame /\ adm[c].state \in {None, "final"}
  /\ client[c].answer = "success" /\ c \in Stops => stage = "done"
  /\ client[c].answer # None => client[c].at = "done"
  /\ client[c].at = "cancelling" => c \in Ordinary

\* Records are queued by the completion of an admission, and a reply that still may
\* leave is the one they hold.
RecordedAsSent(c) ==
  /\ adm[c].state # "final" => adm[c].tickets = None
  /\ conn[c].state = "open" /\ conn[c].out # None /\ adm[c].tickets # None =>
       adm[c].record = conn[c].out

Sound(c) ==
  /\ BeforeContact(c) /\ DispatchedOnce(c) /\ EffectsAdmitted(c)
  /\ ReplyFinal(c) /\ ReportedFinal(c) /\ RecordedAsSent(c)

IInv == TypeOK /\ NotStartedIsTrue /\ \A c \in Requests : Sound(c)

(***************************************************************************)
(* Proof.                                                                  *)
(***************************************************************************)
LEMMA InitSound == Init => IInv
PROOF
<1> SUFFICES ASSUME Init PROVE IInv
  OBVIOUS
<1>1. TypeOK
  <2>1. /\ client \in [Requests -> ClientType]
        /\ conn \in [Requests -> ConnType]
        /\ adm \in [Requests -> AdmType]
    BY DEF Init, TransportInit, None, Outcome, ClientType, ConnType, AdmType
  <2> QED
    BY <2>1 DEF Init, TransportInit, TypeOK, Cause, Stage
<1>2. ASSUME NEW c \in Requests PROVE Sound(c)
  BY <1>1 DEF Init, TransportInit, Sound, BeforeContact, DispatchedOnce,
       EffectsAdmitted, ReplyFinal, ReportedFinal, RecordedAsSent, Requests, None, Outcome, Done
<1>3. NotStartedIsTrue
  BY <1>1 DEF Init, NotStartedIsTrue
<1> QED
  BY <1>1, <1>2, <1>3 DEF IInv

\* Where acted and the answers are as they were, or the three records agree, what was
\* reported as not started stays so.
LEMMA ReportedTrue ==
  ASSUME TypeOK', \A c \in Requests : Sound(c)', NotStartedIsTrue,
         \A c \in Ordinary : client'[c].answer = "not_started" /\ acted'[c] =>
           client[c].answer = "not_started" /\ acted[c]
  PROVE  IInv'
BY DEF IInv, NotStartedIsTrue

(***************************************************************************)
(* The clients.                                                            *)
(***************************************************************************)
LEMMA ConnectSound == ASSUME IInv, NEW r \in Requests, Connect(r), UNCHANGED owner PROVE IInv'
PROOF
<1>1. TypeOK'
  <2>1. client' \in [Requests -> ClientType]
    BY DEF IInv, TypeOK, Connect, ClientType
  <2>2. PICK whole \in BOOLEAN :
          conn' = [conn EXCEPT ![r].state = "backlog", ![r].frame = whole]
    BY DEF Connect
  <2>3. conn' \in [Requests -> ConnType]
    BY ZenonT(60), <2>2 DEF IInv, TypeOK, ConnType
  <2> QED
    BY <2>1, <2>3 DEF IInv, TypeOK, Connect, owner
<1>2. ASSUME NEW c \in Requests PROVE Sound(c)'
  BY DEF IInv, TypeOK, Connect, owner, ClientType, ConnType, None, Sound, BeforeContact,
       DispatchedOnce, EffectsAdmitted, ReplyFinal, ReportedFinal, RecordedAsSent
<1>3. \A c \in Requests : client'[c].answer = client[c].answer
  BY DEF IInv, TypeOK, Connect, ClientType
<1> QED
  BY <1>1, <1>2, <1>3, ReportedTrue DEF IInv, owner, Requests

\* The four steps that end an exchange, or interrupt it, change only what the client knows.
LEMMA ClientSound ==
  ASSUME IInv, NEW r \in Requests, UNCHANGED owner,
         Fail(r) \/ Receive(r) \/ Interrupt(r) \/ SendCancel(r)
  PROVE  IInv'
PROOF
<1>1. TypeOK'
  <2>1. client' \in [Requests -> ClientType]
    BY DEF IInv, TypeOK, Fail, Receive, Interrupt, SendCancel, Done, ClientType,
         ConnType, Outcome
  <2>2. control' \subseteq Ordinary
    BY DEF IInv, TypeOK, Fail, Receive, Interrupt, SendCancel, ClientOnly, Sound,
         ReportedFinal
  <2> QED
    BY <2>1, <2>2 DEF IInv, TypeOK, Fail, Receive, Interrupt, SendCancel, ClientOnly, owner
<1>2. UNCHANGED <<conn, adm, acted, stage>>
  BY DEF Fail, Receive, Interrupt, SendCancel, ClientOnly, owner
<1>3. ASSUME NEW c \in Requests PROVE Sound(c)'
  <2>1. /\ client'[c].at = "new" => client[c].at = "new"
        /\ client'[c].answer # None => client'[c].at = "done"
        /\ client'[c].at = "cancelling" => c \in Ordinary
    BY DEF IInv, TypeOK, Fail, Receive, Interrupt, SendCancel, Done, ClientType,
         ConnType, None,
         Sound, ReportedFinal
  <2>2. CASE Receive(r)
    BY <1>2, <2>1, <2>2 DEF IInv, TypeOK, Receive, Done, ClientType, ConnType, None,
         Sound, BeforeContact, DispatchedOnce, EffectsAdmitted, ReplyFinal,
         ReportedFinal, RecordedAsSent
  <2>3. CASE ~Receive(r)
    <3>1. \/ client'[c].answer = client[c].answer
          \/ client'[c].answer = "unknown"
          \/ client'[c].answer = "not_started" /\ client[c].at = "new"
      BY <2>3 DEF IInv, TypeOK, Fail, Interrupt, SendCancel, Done, ClientType
    <3> QED
      BY <1>2, <2>1, <3>1 DEF IInv, None, Sound, BeforeContact, DispatchedOnce,
           EffectsAdmitted, ReplyFinal, ReportedFinal, RecordedAsSent
  <2> QED
    BY <2>2, <2>3
<1>4. ASSUME NEW c \in Ordinary, client'[c].answer = "not_started" PROVE ~acted[c]
  BY <1>4 DEF IInv, TypeOK, NotStartedIsTrue, Fail, Receive, Interrupt, SendCancel, Done,
       ClientType, ConnType, None, Outcome, Requests, Sound, BeforeContact, DispatchedOnce, EffectsAdmitted, ReplyFinal, ReportedFinal, RecordedAsSent
<1> QED
  BY <1>1, <1>2, <1>3, <1>4, ReportedTrue DEF IInv

(***************************************************************************)
(* The server.                                                             *)
(***************************************************************************)
LEMMA CloseAllType ==
  ASSUME TypeOK, NEW S, CloseAll(S)
  PROVE  conn' \in [Requests -> ConnType] /\ adm' \in [Requests -> AdmType]
PROOF
<1>1. ASSUME NEW a \in AdmType, NEW c PROVE Cancelled(c, a) \in AdmType /\ Unrecorded(a) \in AdmType
  BY DEF Cancelled, Unrecorded, AdmType
<1>2. conn' \in [Requests -> ConnType]
  BY ZenonT(60) DEF TypeOK, CloseAll, ConnType
<1>3. adm' \in [Requests -> AdmType]
  BY <1>1 DEF TypeOK, CloseAll
<1> QED
  BY <1>2, <1>3

\* A connection may close at any point: its admission is told, and nothing leaves.
LEMMA CloseAllSound ==
  ASSUME IInv, NEW S, \A c \in S : conn[c].state # None, CloseAll(S),
         UNCHANGED <<client, acted, stage>>
  PROVE  \A c \in Requests : Sound(c)'
PROOF
<1> SUFFICES ASSUME NEW c \in Requests PROVE Sound(c)'
  OBVIOUS
<1>1. CASE c \in S
  <2>3. conn[c].state # None
    BY <1>1
  <2>1. /\ conn'[c].state = "closed" /\ conn'[c].out = None
        /\ conn'[c].frame = conn[c].frame
    BY <1>1 DEF IInv, TypeOK, CloseAll, ConnType
  <2>2. /\ adm'[c].state = adm[c].state /\ adm'[c].result = adm[c].result
        /\ adm'[c].tickets = adm[c].tickets
    BY <1>1 DEF IInv, TypeOK, CloseAll, Cancelled, Unrecorded, AdmType
  <2> QED
    BY <2>1, <2>2, <2>3 DEF IInv, None, Sound, BeforeContact, DispatchedOnce,
         EffectsAdmitted, ReplyFinal, ReportedFinal, RecordedAsSent
<1>2. CASE c \notin S
  BY <1>2 DEF IInv, TypeOK, CloseAll, Sound, BeforeContact, DispatchedOnce,
       EffectsAdmitted, ReplyFinal, ReportedFinal, RecordedAsSent
<1> QED
  BY <1>1, <1>2

LEMMA AcceptSound ==
  ASSUME IInv, Accept(Free) \/ AcceptPriority(Free), UNCHANGED owner PROVE IInv'
PROOF
<1>1. UNCHANGED <<client, adm, control, serving, acted, cause, retained, root, stage, overdue, watch, final>>
  BY DEF Accept, AcceptPriority, owner
<1>2. /\ conn' \in [Requests -> ConnType]
      /\ \A c \in Requests :
           /\ conn'[c].out = conn[c].out /\ conn'[c].frame = conn[c].frame
           /\ conn'[c].state # conn[c].state => conn[c].state = "backlog"
           /\ conn'[c].state = None => conn[c].state = None
  <2>1. CASE UNCHANGED conn
    <3>1. conn' = conn
      BY <2>1
    <3>2. conn' \in [Requests -> ConnType]
      BY <3>1 DEF IInv, TypeOK
    <3> QED
      BY <3>1, <3>2
  <2>2. CASE AcceptPriority(Free)
    BY <2>2 DEF IInv, TypeOK, ConnType, None, AcceptPriority, Waiting
  <2>3. CASE Accept(Free) /\ conn' # conn
    <3>1. PICK S \in SUBSET Waiting(Ordinary) :
            conn' = [c \in Requests |->
                       IF c \in S THEN [conn[c] EXCEPT !.state = "open"]
                       ELSE IF c \in Waiting(Ordinary) THEN [conn[c] EXCEPT !.state = "closed"]
                       ELSE conn[c]]
      BY <2>3 DEF Accept
    <3>2. \A c \in S : conn[c].state = "backlog"
      BY DEF Waiting
    <3> QED
      BY <3>1, <3>2 DEF IInv, TypeOK, ConnType, None, Waiting
  <2> QED
    BY <2>1, <2>2, <2>3
<1>3. TypeOK'
  <2>2. pause' \in {"off", "on", "over"}
    BY DEF IInv, TypeOK, Accept, AcceptPriority
  <2> QED
    BY <1>1, <1>2, <2>2 DEF IInv, TypeOK
<1>4. ASSUME NEW c \in Requests PROVE Sound(c)'
  BY <1>1, <1>2 DEF IInv, TypeOK, ConnType, None, Sound, BeforeContact, DispatchedOnce,
       EffectsAdmitted, ReplyFinal, ReportedFinal, RecordedAsSent
<1> QED
  BY <1>1, <1>3, <1>4, ReportedTrue DEF IInv

LEMMA ServeCancelSound ==
  ASSUME IInv, NEW r \in Requests, ServeCancel(r, Free), UNCHANGED owner PROVE IInv'
PROOF
<1>1. UNCHANGED <<client, conn, pause, serving, acted, cause, retained, root, stage, overdue, watch, final>>
  BY DEF ServeCancel, owner
<1>2. /\ adm' \in [Requests -> AdmType]
      /\ \A c \in Requests :
           /\ adm'[c].state = adm[c].state /\ adm'[c].result = adm[c].result
           /\ adm'[c].tickets = adm[c].tickets /\ adm'[c].record = adm[c].record
  <2>1. CASE UNCHANGED adm
    <3>1. adm' = adm
      BY <2>1
    <3>2. adm' \in [Requests -> AdmType]
      BY <3>1 DEF IInv, TypeOK
    <3> QED
      BY <3>1, <3>2
  <2>2. CASE adm' = [adm EXCEPT ![r] = Cancelled(r, @)]
    BY <2>2 DEF IInv, TypeOK, Cancelled, AdmType
  <2> QED
    BY <2>1, <2>2 DEF ServeCancel
<1>3. TypeOK'
  BY <1>1, <1>2 DEF IInv, TypeOK, ServeCancel
<1>4. ASSUME NEW c \in Requests PROVE Sound(c)'
  BY <1>1, <1>2 DEF IInv, Sound, BeforeContact, DispatchedOnce, EffectsAdmitted,
       ReplyFinal, ReportedFinal, RecordedAsSent
<1> QED
  BY <1>1, <1>3, <1>4, ReportedTrue DEF IInv

\* A connection that is given up: nobody reads it, its hold is over, or its time is.
LEMMA GiveUpSound ==
  ASSUME IInv, NEW r \in Requests, UNCHANGED owner,
         ReadEof(r, Free) \/ HoldOver(r, Free) \/ Expire(r, Free)
  PROVE  IInv'
PROOF
<1>1. /\ CloseAll({r}) /\ conn[r].state # None
      /\ UNCHANGED <<client, control, pause, serving, acted, cause, retained, root, stage, overdue, watch, final>>
  BY DEF ReadEof, HoldOver, Expire, Open, None, owner
<1>2. TypeOK'
  BY <1>1, CloseAllType DEF IInv, TypeOK
<1>3. \A c \in Requests : Sound(c)'
  BY <1>1, CloseAllSound
<1> QED
  BY <1>1, <1>2, <1>3, ReportedTrue DEF IInv

LEMMA HoldSound ==
  ASSUME IInv, NEW r \in Requests, UNCHANGED owner, Hold(r, Free) \/ Release(r, Free)
  PROVE  IInv'
PROOF
<1>1. UNCHANGED <<client, adm, control, pause, serving, acted, cause, retained, root, stage, overdue, watch, final>>
  BY DEF Hold, Release, owner
<1>2. /\ conn' \in [Requests -> ConnType]
      /\ \A c \in Requests :
           /\ conn'[c].out = conn[c].out /\ conn'[c].frame = conn[c].frame
           /\ conn'[c].state = conn[c].state
  <2>1. PICK over \in BOOLEAN : conn' = [conn EXCEPT ![r].held = over]
    BY DEF Hold, Release
  <2> QED
    BY <2>1 DEF IInv, TypeOK, ConnType
<1>3. TypeOK'
  BY <1>1, <1>2 DEF IInv, TypeOK
<1>4. ASSUME NEW c \in Requests PROVE Sound(c)'
  BY <1>1, <1>2 DEF IInv, Sound, BeforeContact, DispatchedOnce, EffectsAdmitted,
       ReplyFinal, ReportedFinal, RecordedAsSent
<1> QED
  BY <1>1, <1>3, <1>4, ReportedTrue DEF IInv

LEMMA TransmitSound ==
  ASSUME IInv, NEW r \in Requests, UNCHANGED owner, Transmit(r, Free) PROVE IInv'
PROOF
<1>1. UNCHANGED <<client, control, pause, serving, acted, cause, retained, root, stage, overdue, watch, final>>
  BY DEF Transmit, owner
<1>2. /\ conn' \in [Requests -> ConnType]
      /\ \A c \in Requests : conn'[c].out = conn[c].out /\ conn'[c].frame = conn[c].frame
      /\ \A c \in Requests \ {r} : conn'[c] = conn[c]
      /\ conn'[r].state \in {"closed", "answered"}
  BY DEF IInv, TypeOK, ConnType, Transmit
<1>3. /\ adm' \in [Requests -> AdmType]
      /\ \A c \in Requests :
           /\ adm'[c].state = adm[c].state /\ adm'[c].result = adm[c].result
           /\ adm'[c].tickets = adm[c].tickets
      /\ \A c \in Requests \ {r} : adm'[c] = adm[c]
  BY DEF IInv, TypeOK, AdmType, Transmit, Unrecorded
<1>4. TypeOK'
  BY <1>1, <1>2, <1>3 DEF IInv, TypeOK
<1>5. ASSUME NEW c \in Requests PROVE Sound(c)'
  BY <1>1, <1>2, <1>3 DEF IInv, Transmit, Open, None, Sound, BeforeContact,
       DispatchedOnce, EffectsAdmitted, ReplyFinal, ReportedFinal, RecordedAsSent
<1> QED
  BY <1>1, <1>4, <1>5, ReportedTrue DEF IInv

(***************************************************************************)
(* The dispatch of a frame.                                                *)
(***************************************************************************)
\* What begin_shutdown tells an admission, it takes as its cancel.
LEMMA StopBegunKeeps ==
  ASSUME NEW c, NEW a \in AdmType
  PROVE  /\ StopBegun(c, a) \in AdmType
         /\ StopBegun(c, a).state = a.state /\ StopBegun(c, a).result = a.result
         /\ StopBegun(c, a).record = a.record /\ StopBegun(c, a).tickets = a.tickets
BY DEF StopBegun, AdmType

LEMMA CompletedType ==
  ASSUME TypeOK, NEW c \in Requests, NEW result \in Outcome, NEW slips \in BOOLEAN
  PROVE  /\ Completed(c, result, slips) \in AdmType
         /\ Completed(c, result, slips).state = "final"
         /\ Completed(c, result, slips).result = None
         /\ Completed(c, result, slips).tickets = "queued"
         /\ Completed(c, result, slips).record =
              (IF Open(c) THEN FinalOf(result, slips) ELSE None)
BY DEF TypeOK, Completed, FinalOf, AdmType, Outcome, None

LEMMA RefusedType == ASSUME NEW n \in ConnType PROVE Refused(n) \in ConnType
BY DEF Refused, ConnType, Outcome

LEMMA RefusedRecord ==
  ASSUME TypeOK, NEW c \in Requests, Open(c)
  PROVE  /\ Completed(c, "not_started", FALSE).state = "final"
         /\ Completed(c, "not_started", FALSE).result = None
         /\ Completed(c, "not_started", FALSE).record = "not_started"
BY DEF TypeOK, Completed, FinalOf, AdmType

LEMMA FailingType ==
  ASSUME TypeOK, Failing
  PROVE  /\ cause' \in Cause /\ retained' \in Cause /\ root' \in BOOLEAN /\ stage' \in Stage
         /\ UNCHANGED <<overdue, final>> /\ (stage = "done" => stage' = "done")
BY DEF TypeOK, Failing, RecordFailure, BeginStop, Cause, Stage, None

\* The step that refuses a frame, or takes it, with what the others are told.
LEMMA DispatchSound ==
  ASSUME IInv, NEW r \in Requests, Readable(r),
         UNCHANGED <<client, acted>>, stage = "done" => stage' = "done",
         adm' \in [Requests -> AdmType],
         \A d \in Requests \ {r} :
           /\ adm'[d].state = adm[d].state /\ adm'[d].result = adm[d].result
           /\ adm'[d].record = adm[d].record /\ adm'[d].tickets = adm[d].tickets,
         \/ /\ conn' = [conn EXCEPT ![r] = Refused(@)]
            /\ \/ adm'[r] = Completed(r, "not_started", FALSE)
               \/ adm'[r] = [adm[r] EXCEPT !.state = "final"]
               \/ adm'[r] = adm[r]
         \/ conn' = [conn EXCEPT ![r] = Taken(@)] /\ adm'[r] = [adm[r] EXCEPT !.state = "live"]
  PROVE  conn' \in [Requests -> ConnType] /\ \A c \in Requests : Sound(c)'
PROOF
<1>1. adm[r].state = None /\ adm[r].result = None /\ adm[r].tickets = None
  BY DEF IInv, Readable, Sound, DispatchedOnce, EffectsAdmitted, RecordedAsSent, None
<1>2. r \in Ordinary => ~acted[r]
  BY <1>1 DEF IInv, Sound, EffectsAdmitted
<1>3. client[r].at # "new"
  BY DEF IInv, Readable, Open, Sound, BeforeContact, None
<1>4. ASSUME conn' \in [Requests -> ConnType],
             \A c \in Requests \ {r} : conn'[c] = conn[c],
             Sound(r)'
      PROVE  conn' \in [Requests -> ConnType] /\ \A c \in Requests : Sound(c)'
  <2>1. ASSUME NEW c \in Requests \ {r} PROVE Sound(c)'
    BY <1>4, <2>1 DEF IInv, Sound, BeforeContact, DispatchedOnce, EffectsAdmitted,
         ReplyFinal, ReportedFinal, RecordedAsSent
  <2> QED
    BY <1>4, <2>1
<1>5. CASE /\ conn' = [conn EXCEPT ![r] = Refused(@)]
           /\ \/ adm'[r] = Completed(r, "not_started", FALSE)
              \/ adm'[r] = [adm[r] EXCEPT !.state = "final"]
              \/ adm'[r] = adm[r]
  <2>1. /\ conn' \in [Requests -> ConnType]
        /\ \A c \in Requests \ {r} : conn'[c] = conn[c]
    BY <1>5, RefusedType DEF IInv, TypeOK
  <2>2. conn'[r].state = "open" /\ ~conn'[r].frame /\ conn'[r].out = "not_started"
    BY <1>5 DEF IInv, TypeOK, ConnType, Refused, Readable, Open
  <2>3. /\ adm'[r].state \in {None, "final"}
        /\ adm'[r].result = None
        /\ adm'[r].state # "final" => adm'[r].tickets = None
        /\ adm'[r].tickets # None => adm'[r].record = "not_started"
    <3>1. CASE adm'[r] = Completed(r, "not_started", FALSE)
      BY ZenonT(60), <3>1, RefusedRecord DEF IInv, Readable, None
    <3>2. CASE adm'[r] = [adm[r] EXCEPT !.state = "final"]
      BY <1>1, <3>2 DEF IInv, TypeOK, AdmType
    <3>3. CASE adm'[r] = adm[r]
      BY <1>1, <3>3
    <3> QED
      BY <1>5, <3>1, <3>2, <3>3
  <2>4. Sound(r)'
    BY <1>2, <1>3, <2>2, <2>3, TransportAssumption DEF IInv, None, Sound, BeforeContact,
         DispatchedOnce, EffectsAdmitted, ReplyFinal, ReportedFinal, RecordedAsSent
  <2> QED
    BY <1>4, <2>1, <2>4
<1>6. CASE conn' = [conn EXCEPT ![r] = Taken(@)] /\ adm'[r] = [adm[r] EXCEPT !.state = "live"]
  <2>1. /\ conn' \in [Requests -> ConnType]
        /\ \A c \in Requests \ {r} : conn'[c] = conn[c]
    BY ZenonT(60), <1>6 DEF IInv, TypeOK, ConnType, Taken
  <2>2. conn'[r].state = "open" /\ ~conn'[r].frame /\ conn'[r].out = None
    BY <1>6 DEF IInv, TypeOK, ConnType, Taken, Readable, Open
  <2>3. adm'[r].state = "live" /\ adm'[r].result = None /\ adm'[r].tickets = None
    BY <1>1, <1>6 DEF IInv, TypeOK, AdmType
  <2>4. Sound(r)'
    BY <1>2, <1>3, <2>2, <2>3 DEF IInv, None, Readable, Sound, BeforeContact,
         DispatchedOnce, EffectsAdmitted, ReplyFinal, ReportedFinal, RecordedAsSent
  <2> QED
    BY <1>4, <2>1, <2>4
<1> QED
  BY <1>5, <1>6
LEMMA DispatchLateSound == ASSUME IInv, NEW r \in Requests, DispatchLate(r) PROVE IInv'
PROOF
<1>1. /\ UNCHANGED <<client, adm, control, pause, serving, owner>>
      /\ Readable(r) /\ conn' = [conn EXCEPT ![r] = Refused(@)]
  BY DEF DispatchLate
<1>2. adm' \in [Requests -> AdmType] /\ adm' = adm
  BY <1>1 DEF IInv, TypeOK
<1>3. conn' \in [Requests -> ConnType] /\ \A c \in Requests : Sound(c)'
  BY <1>1, <1>2, DispatchSound DEF owner
<1>4. TypeOK'
  BY <1>1, <1>2, <1>3 DEF IInv, TypeOK, owner
<1> QED
  BY <1>1, <1>3, <1>4, ReportedTrue DEF IInv, owner

\* What a refusal leaves in the admissions: the refused one is over, the others may be
\* told to stop.
LEMMA RejectedAdm ==
  ASSUME TypeOK, NEW r \in Requests, NEW attached \in BOOLEAN, Rejected(r, attached)
  PROVE  /\ adm' \in [Requests -> AdmType]
         /\ \A d \in Requests \ {r} :
              /\ adm'[d].state = adm[d].state /\ adm'[d].result = adm[d].result
              /\ adm'[d].record = adm[d].record /\ adm'[d].tickets = adm[d].tickets
         /\ \/ adm'[r] = Completed(r, "not_started", FALSE)
            \/ adm'[r] = [adm[r] EXCEPT !.state = "final"]
         /\ conn' = [conn EXCEPT ![r] = Refused(@)]
PROOF
<1>1. adm' = [d \in Requests |->
                IF d # r THEN StopBegun(d, adm[d])
                ELSE IF attached THEN Completed(r, "not_started", FALSE)
                ELSE [adm[r] EXCEPT !.state = "final"]]
  BY DEF Rejected
<1>2. Completed(r, "not_started", FALSE) \in AdmType /\ [adm[r] EXCEPT !.state = "final"] \in AdmType
  BY DEF TypeOK, Completed, FinalOf, AdmType, Outcome, None
<1>3. \A d \in Requests : adm[d] \in AdmType
  BY DEF TypeOK
<1>4. adm' \in [Requests -> AdmType]
  BY <1>1, <1>2, <1>3, StopBegunKeeps
<1>5. \A d \in Requests \ {r} :
        /\ adm'[d].state = adm[d].state /\ adm'[d].result = adm[d].result
        /\ adm'[d].record = adm[d].record /\ adm'[d].tickets = adm[d].tickets
  BY <1>1, <1>3, StopBegunKeeps
<1>6. \/ adm'[r] = Completed(r, "not_started", FALSE)
      \/ adm'[r] = [adm[r] EXCEPT !.state = "final"]
  BY <1>1
<1> QED
  BY <1>4, <1>5, <1>6 DEF Rejected

LEMMA DispatchOrdinarySound ==
  ASSUME IInv, NEW r \in Requests, DispatchOrdinary(r) PROVE IInv'
PROOF
<1>1. UNCHANGED <<client, control, pause, serving, acted>> /\ Readable(r)
  BY DEF DispatchOrdinary, Rest
<1>2. /\ cause' \in Cause /\ retained' \in Cause /\ root' \in BOOLEAN /\ stage' \in Stage
      /\ overdue' \in BOOLEAN /\ watch' \in {"queued", "ok", "bad", "failed"}
      /\ final' \in {None, "quitting", "stopped", "failed"}
      /\ stage = "done" => stage' = "done"
  <2>1. CASE UNCHANGED <<cause, retained, root, stage, overdue, watch, final>>
    BY <2>1 DEF IInv, TypeOK
  <2>2. CASE watch' = WatchDrained /\ Failing
    BY <2>2, FailingType DEF IInv, TypeOK, WatchDrained, HandedBack
  <2> QED
    BY <2>1, <2>2 DEF DispatchOrdinary
<1>3. conn' \in [Requests -> ConnType] /\ adm' \in [Requests -> AdmType] /\ \A c \in Requests : Sound(c)'
  <2>1. CASE Rejected(r, FALSE)
    BY <1>1, <1>2, <2>1, RejectedAdm, DispatchSound DEF IInv
  <2>2. CASE Rejected(r, TRUE)
    BY <1>1, <1>2, <2>2, RejectedAdm, DispatchSound DEF IInv
  <2>3. CASE conn' = [conn EXCEPT ![r] = Taken(@)] /\ adm' = [adm EXCEPT ![r].state = "live"]
    <3>1. /\ adm' \in [Requests -> AdmType]
          /\ adm'[r] = [adm[r] EXCEPT !.state = "live"]
          /\ \A d \in Requests \ {r} : adm'[d] = adm[d]
      BY <2>3 DEF IInv, TypeOK, AdmType
    <3> QED
      BY <1>1, <1>2, <2>3, <3>1, DispatchSound
  <2> QED
    BY <2>1, <2>2, <2>3 DEF DispatchOrdinary
<1>4. TypeOK'
  BY <1>1, <1>2, <1>3 DEF IInv, TypeOK
<1> QED
  BY <1>1, <1>3, <1>4, ReportedTrue DEF IInv

LEMMA DispatchStopSound ==
  ASSUME IInv, NEW r \in Requests, DispatchStop(r) PROVE IInv'
PROOF
<1>1. /\ UNCHANGED <<client, control, pause, serving, acted, cause, retained, root, watch, overdue, final>>
      /\ Readable(r)
  BY DEF DispatchStop, Rest, BeginStop
<1>2. stage' \in Stage /\ (stage = "done" => stage' = "done")
  BY DEF IInv, TypeOK, DispatchStop, BeginStop, Stage, None
<1>3. conn' \in [Requests -> ConnType] /\ adm' \in [Requests -> AdmType] /\ \A c \in Requests : Sound(c)'
  <2>1. CASE Rejected(r, FALSE)
    BY <1>1, <1>2, <2>1, RejectedAdm, DispatchSound DEF IInv
  <2>3. CASE /\ conn' = [conn EXCEPT ![r] = Taken(@)]
             /\ adm' = [d \in Requests |-> IF d = r THEN [adm[r] EXCEPT !.state = "live"]
                                           ELSE StopBegun(d, adm[d])]
    <3>1. \A d \in Requests : adm[d] \in AdmType
      BY DEF IInv, TypeOK
    <3>2. [adm[r] EXCEPT !.state = "live"] \in AdmType
      BY <3>1 DEF AdmType
    <3>3. /\ adm' \in [Requests -> AdmType]
          /\ adm'[r] = [adm[r] EXCEPT !.state = "live"]
          /\ \A d \in Requests \ {r} :
               /\ adm'[d].state = adm[d].state /\ adm'[d].result = adm[d].result
               /\ adm'[d].record = adm[d].record /\ adm'[d].tickets = adm[d].tickets
      BY <2>3, <3>1, <3>2, StopBegunKeeps
    <3> QED
      BY <1>1, <1>2, <2>3, <3>3, DispatchSound
  <2> QED
    BY <2>1, <2>3 DEF DispatchStop
<1>4. TypeOK'
  BY <1>1, <1>2, <1>3 DEF IInv, TypeOK
<1> QED
  BY <1>1, <1>3, <1>4, ReportedTrue DEF IInv

(***************************************************************************)
(* The scheduler's steps and the writer's.                                 *)
(***************************************************************************)
LEMMA WriteRecordsSound == ASSUME IInv, NEW r \in Requests, WriteRecords(r) PROVE IInv'
PROOF
<1>1. UNCHANGED <<client, conn, control, pause, serving, owner>> /\ adm[r].tickets = "queued"
  BY DEF WriteRecords
<1>2. /\ adm' \in [Requests -> AdmType]
      /\ \A c \in Requests :
           /\ adm'[c].state = adm[c].state /\ adm'[c].result = adm[c].result
           /\ adm'[c].record = adm[c].record
           /\ adm'[c].tickets = None <=> adm[c].tickets = None
  BY DEF IInv, TypeOK, WriteRecords, AdmType, None
<1>3. TypeOK'
  BY <1>1, <1>2 DEF IInv, TypeOK, owner
<1>4. ASSUME NEW c \in Requests PROVE Sound(c)'
  BY <1>1, <1>2 DEF IInv, owner, Sound, BeforeContact, DispatchedOnce, EffectsAdmitted,
       ReplyFinal, ReportedFinal, RecordedAsSent
<1> QED
  BY <1>1, <1>3, <1>4, ReportedTrue DEF IInv, owner

\* An effect comes from a request that lives: it has not been answered, nor is it about to be.
LEMMA ActSound == ASSUME IInv, NEW r \in Requests, Act(r) PROVE IInv'
PROOF
<1>1. /\ UNCHANGED <<client, conn, adm, control, pause, serving, cause, retained, root, stage, overdue, watch, final>>
      /\ r \in Ordinary /\ adm[r].state = "live" /\ acted' = [acted EXCEPT ![r] = TRUE]
  BY DEF Act, Live, transport
<1>2. TypeOK'
  BY <1>1 DEF IInv, TypeOK
<1>3. conn[r].out = None /\ adm[r].result = None
  BY <1>1 DEF IInv, None, Sound, BeforeContact, DispatchedOnce, EffectsAdmitted,
       ReplyFinal, ReportedFinal, RecordedAsSent
<1>4. ASSUME NEW c \in Requests PROVE Sound(c)'
  <2>1. CASE c = r
    BY <1>1, <1>3, <2>1 DEF IInv, None, Sound, BeforeContact, DispatchedOnce,
         EffectsAdmitted, ReplyFinal, ReportedFinal, RecordedAsSent
  <2>2. CASE c # r
    BY <1>1, <2>2 DEF IInv, TypeOK, None, Sound, BeforeContact, DispatchedOnce,
         EffectsAdmitted, ReplyFinal, ReportedFinal, RecordedAsSent
  <2> QED
    BY <2>1, <2>2
<1>5. client[r].answer # "not_started"
  BY <1>1 DEF IInv, None, Sound, BeforeContact, DispatchedOnce, EffectsAdmitted,
       ReplyFinal, ReportedFinal, RecordedAsSent
<1>6. \A c \in Ordinary : client'[c].answer = "not_started" /\ acted'[c] =>
        client[c].answer = "not_started" /\ acted[c]
  BY <1>1, <1>5 DEF IInv, TypeOK
<1> QED
  BY <1>2, <1>4, <1>6, ReportedTrue DEF IInv

LEMMA DecideSound == ASSUME IInv, NEW r \in Requests, Decide(r) PROVE IInv'
PROOF
<1>1. /\ UNCHANGED <<client, conn, control, pause, serving, owner>>
      /\ r \in Ordinary /\ adm[r].state = "live"
  BY DEF Decide, Live
<1>2. PICK result \in Outcome :
        /\ result = "not_started" => ~acted[r]
        /\ adm' = [adm EXCEPT ![r].state = "finishing", ![r].cancel = FALSE, ![r].result = result]
  BY DEF Decide
<1>3. adm' \in [Requests -> AdmType]
  <2> DEFINE a == [adm[r] EXCEPT !.state = "finishing", !.cancel = FALSE, !.result = result]
  <2>1. a \in AdmType
    BY ZenonT(60) DEF IInv, TypeOK, AdmType
  <2>2. adm' = [adm EXCEPT ![r] = a]
    BY <1>2 DEF IInv, TypeOK
  <2> QED
    BY <2>1, <2>2 DEF IInv, TypeOK
<1>4. /\ \A c \in Requests \ {r} : adm'[c] = adm[c]
      /\ adm'[r].state = "finishing" /\ adm'[r].result = result /\ result # None
      /\ adm'[r].tickets = adm[r].tickets
  BY <1>2 DEF IInv, TypeOK, AdmType, Outcome, None
<1>5. TypeOK'
  BY <1>1, <1>3 DEF IInv, TypeOK, owner
<1>6. ASSUME NEW c \in Requests PROVE Sound(c)'
  <2>1. CASE c = r
    BY <1>1, <1>2, <1>4, <2>1 DEF IInv, owner, None, Sound, BeforeContact,
         DispatchedOnce, EffectsAdmitted, ReplyFinal, ReportedFinal, RecordedAsSent
  <2>2. CASE c # r
    BY <1>1, <1>4, <2>2 DEF IInv, owner, Sound, BeforeContact, DispatchedOnce,
         EffectsAdmitted, ReplyFinal, ReportedFinal, RecordedAsSent
  <2> QED
    BY <2>1, <2>2
<1> QED
  BY <1>1, <1>5, <1>6, ReportedTrue DEF IInv, owner

LEMMA AnswerSound == ASSUME IInv, NEW r \in Requests, Answer(r) PROVE IInv'
PROOF
<1>1. UNCHANGED <<client, control, pause, serving, owner>> /\ adm[r].state = "finishing"
  BY DEF Answer
<1>2. PICK slips \in BOOLEAN :
        /\ adm' = [adm EXCEPT ![r] = Completed(r, @.result, slips)]
        /\ conn' = [conn EXCEPT ![r].out = IF Open(r) THEN FinalOf(adm[r].result, slips) ELSE None]
  BY DEF Answer
<1>3. /\ r \in Ordinary /\ adm[r].result \in Outcome
      /\ adm[r].result = "not_started" => ~acted[r]
      /\ conn[r].state \notin {None, "backlog"} /\ ~conn[r].frame
      /\ client[r].answer # "not_started" /\ r \notin Stops
  BY <1>1, TransportAssumption DEF IInv, TypeOK, AdmType, None, Sound, BeforeContact,
       DispatchedOnce, EffectsAdmitted, ReplyFinal, ReportedFinal, RecordedAsSent
<1> DEFINE left == IF Open(r) THEN FinalOf(adm[r].result, slips) ELSE None
<1>4. left \in Outcome \cup {None} /\ (left = "not_started" => ~acted[r])
  BY <1>3 DEF FinalOf, Outcome, None
<1>5. /\ adm' \in [Requests -> AdmType]
      /\ \A c \in Requests \ {r} : adm'[c] = adm[c]
      /\ adm'[r] = Completed(r, adm[r].result, slips)
  BY <1>2, <1>3, CompletedType DEF IInv, TypeOK
<1>6. /\ adm'[r].state = "final" /\ adm'[r].result = None /\ adm'[r].tickets = "queued"
      /\ adm'[r].record = left
  BY <1>3, <1>5, CompletedType DEF IInv
<1>7. conn' \in [Requests -> ConnType]
  BY <1>2, <1>4 DEF IInv, TypeOK, ConnType
<1>8. /\ \A c \in Requests \ {r} : conn'[c] = conn[c]
      /\ conn'[r].out = left /\ conn'[r].state = conn[r].state /\ conn'[r].frame = conn[r].frame
  BY <1>2 DEF IInv, TypeOK, ConnType
<1>9. TypeOK'
  BY <1>1, <1>5, <1>7 DEF IInv, TypeOK, owner
<1>10. ASSUME NEW c \in Requests PROVE Sound(c)'
  <2> HIDE DEF left
  <2>1. CASE c = r
    BY <1>1, <1>3, <1>4, <1>6, <1>8, <2>1 DEF IInv, owner, None, Sound, BeforeContact,
         DispatchedOnce, EffectsAdmitted, ReplyFinal, ReportedFinal, RecordedAsSent
  <2>2. CASE c # r
    BY <1>1, <1>5, <1>8, <2>2 DEF IInv, owner, Sound, BeforeContact, DispatchedOnce,
         EffectsAdmitted, ReplyFinal, ReportedFinal, RecordedAsSent
  <2> QED
    BY <2>1, <2>2
<1> QED
  BY <1>1, <1>9, <1>10, ReportedTrue DEF IInv, owner

(***************************************************************************)
(* The owner's turns.                                                      *)
(***************************************************************************)
\* The beginning of a shutdown changes nothing an answer depends on.
LEMMA TellSound ==
  ASSUME IInv, UNCHANGED <<client, conn, acted>>, stage = "done" => stage' = "done",
         adm' = [c \in Requests |-> StopBegun(c, adm[c])]
  PROVE  adm' \in [Requests -> AdmType] /\ \A c \in Requests : Sound(c)'
PROOF
<1>1. \A c \in Requests : adm[c] \in AdmType
  BY DEF IInv, TypeOK
<1>2. /\ adm' \in [Requests -> AdmType]
      /\ \A d \in Requests :
           /\ adm'[d].state = adm[d].state /\ adm'[d].result = adm[d].result
           /\ adm'[d].record = adm[d].record /\ adm'[d].tickets = adm[d].tickets
  BY <1>1, StopBegunKeeps
<1>3. ASSUME NEW c \in Requests PROVE Sound(c)'
  BY <1>2 DEF IInv, Sound, BeforeContact, DispatchedOnce, EffectsAdmitted, ReplyFinal,
       ReportedFinal, RecordedAsSent
<1> QED
  BY <1>2, <1>3

LEMMA StopTurnSound == ASSUME IInv, Escalate \/ FailingTurn \/ Signal PROVE IInv'
PROOF
<1>1. /\ UNCHANGED <<client, conn, control, pause, serving, acted, overdue, final>>
      /\ adm' = [c \in Requests |-> StopBegun(c, adm[c])]
  BY DEF Escalate, FailingTurn, Failing, Signal, BeginStop
<1>2. /\ cause' \in Cause /\ retained' \in Cause /\ root' \in BOOLEAN /\ stage' \in Stage
      /\ watch' \in {"queued", "ok", "bad", "failed"}
      /\ stage = "done" => stage' = "done"
  <2>1. CASE Escalate \/ Signal
    BY <2>1 DEF IInv, TypeOK, Escalate, Signal, BeginStop, Stage, Cause, None
  <2>2. CASE FailingTurn
    BY <2>2, FailingType DEF IInv, TypeOK, FailingTurn, WatchDrained, HandedBack
  <2> QED
    BY <2>1, <2>2
<1>3. adm' \in [Requests -> AdmType] /\ \A c \in Requests : Sound(c)'
  BY <1>1, <1>2, TellSound
<1>4. TypeOK'
  BY <1>1, <1>2, <1>3 DEF IInv, TypeOK
<1> QED
  BY <1>1, <1>3, <1>4, ReportedTrue DEF IInv

\* Steps that touch neither a request nor its connection.
LEMMA AsideSound ==
  ASSUME IInv,
         \/ WriteWatched \/ Turn \/ RootElapses \/ DrainElapses
         \/ PauseElapses /\ UNCHANGED owner
         \/ UNCHANGED vars
  PROVE  IInv'
PROOF
<1>1. UNCHANGED <<client, conn, adm, control, serving, acted, cause, retained, stage, final>>
  BY DEF WriteWatched, Turn, RootElapses, DrainElapses, PauseElapses, vars, owner, transport
<1>2. /\ pause' \in {"off", "on", "over"} /\ root' \in BOOLEAN /\ overdue' \in BOOLEAN
      /\ watch' \in {"queued", "ok", "bad", "failed"}
  BY DEF IInv, TypeOK, WriteWatched, Turn, RootElapses, DrainElapses, PauseElapses, vars,
       owner, transport
<1>3. TypeOK'
  BY <1>1, <1>2 DEF IInv, TypeOK
<1>4. ASSUME NEW c \in Requests PROVE Sound(c)'
  BY <1>1 DEF IInv, Sound, BeforeContact, DispatchedOnce, EffectsAdmitted, ReplyFinal,
       ReportedFinal, RecordedAsSent
<1> QED
  BY <1>1, <1>3, <1>4, ReportedTrue DEF IInv

LEMMA LateCauseType ==
  ASSUME TypeOK, LateCause PROVE cause' \in Cause /\ retained' \in Cause /\ root' \in BOOLEAN
BY DEF TypeOK, LateCause, RecordFailure, Cause, None

\* A stop is answered with success in the turn that ends the shutdown, and not before.
LEMMA ShutdownTurnSound == ASSUME IInv, ShutdownTurn PROVE IInv'
PROOF
<1>1. UNCHANGED <<client, control, pause, serving, acted, overdue>> /\ LateCause
  BY DEF ShutdownTurn
<1>2. stage' \in Stage /\ (stage = "done" => stage' = "done")
  BY DEF IInv, TypeOK, ShutdownTurn, NextStages, Stage, None
<1>3. final' \in {None, "quitting", "stopped", "failed"}
  BY DEF IInv, TypeOK, ShutdownTurn
<1>4. watch' \in {"queued", "ok", "bad", "failed"}
  BY DEF IInv, TypeOK, ShutdownTurn, WatchDrained, HandedBack
<1>5. PICK slips \in BOOLEAN :
        /\ adm' = [c \in Requests |-> Stopped(c, slips)]
        /\ conn' = [c \in Requests |->
                      IF Open(c) /\ adm'[c].state = "final" /\ adm[c].state = "live"
                      THEN [conn[c] EXCEPT !.out = FinalOf("success", slips)] ELSE conn[c]]
  BY DEF ShutdownTurn
<1>6. FinalOf("success", slips) \in Outcome /\ FinalOf("success", slips) # "not_started"
  BY DEF FinalOf, Outcome
<1>7. \A c \in Requests : adm[c] \in AdmType /\ Stopped(c, slips) \in AdmType
  BY CompletedType DEF IInv, TypeOK, Stopped, Outcome
<1>8. adm' \in [Requests -> AdmType]
  BY <1>5, <1>7
<1>9. conn' \in [Requests -> ConnType]
  BY <1>5, <1>6 DEF IInv, TypeOK, ConnType
<1>10. TypeOK'
  BY <1>1, <1>2, <1>3, <1>4, <1>8, <1>9, LateCauseType DEF IInv, TypeOK
<1>11. ASSUME NEW c \in Requests PROVE Sound(c)'
  <2>1. CASE stage' = "done" /\ c \in Stops /\ adm[c].state = "live"
    <3>1. /\ adm'[c].state = "final" /\ adm'[c].result = None /\ adm'[c].tickets = "queued"
          /\ adm'[c].record = IF Open(c) THEN FinalOf("success", slips) ELSE None
      BY <1>5, <2>1, CompletedType DEF IInv, Stopped, Outcome
    <3>2. c \notin Ordinary
      BY <2>1, TransportAssumption
    <3>3. ~conn[c].frame /\ conn[c].out = None /\ conn[c].state \notin {None, "backlog"}
      BY <2>1 DEF IInv, None, Sound, BeforeContact, DispatchedOnce, EffectsAdmitted,
           ReplyFinal, ReportedFinal, RecordedAsSent
    <3>4. CASE Open(c)
      <4>1. /\ conn'[c].out = FinalOf("success", slips)
            /\ conn'[c].state = conn[c].state /\ conn'[c].frame = conn[c].frame
        BY <1>5, <2>1, <3>1, <3>4 DEF IInv, TypeOK, ConnType
      <4> QED
        BY <1>1, <1>6, <2>1, <3>1, <3>2, <3>3, <3>4, <4>1 DEF IInv, None, Sound,
             BeforeContact, DispatchedOnce, EffectsAdmitted, ReplyFinal, ReportedFinal,
             RecordedAsSent
    <3>5. CASE ~Open(c)
      <4>1. conn'[c] = conn[c]
        BY <1>5, <3>5
      <4> QED
        BY <1>1, <2>1, <3>1, <3>2, <3>3, <3>5, <4>1 DEF IInv, Open, None, Sound,
             BeforeContact, DispatchedOnce, EffectsAdmitted, ReplyFinal, ReportedFinal,
             RecordedAsSent
    <3> QED
      BY <3>4, <3>5
  <2>2. CASE ~(stage' = "done" /\ c \in Stops /\ adm[c].state = "live")
    <3>1. adm'[c] = adm[c]
      BY <1>5, <2>2 DEF Stopped
    <3>2. conn'[c] = conn[c]
      BY <1>5, <3>1
    <3> QED
      BY <1>1, <1>2, <3>1, <3>2 DEF IInv, Sound, BeforeContact, DispatchedOnce,
           EffectsAdmitted, ReplyFinal, ReportedFinal, RecordedAsSent
  <2> QED
    BY <2>1, <2>2
<1> QED
  BY <1>1, <1>10, <1>11, ReportedTrue DEF IInv

LEMMA ExitSound == ASSUME IInv, Exit PROVE IInv'
PROOF
<1> DEFINE S == {c \in Requests : conn[c].state \in {"backlog", "open"}}
<1>1. /\ UNCHANGED <<client, pause, acted, cause, retained, root, stage, overdue, watch>>
      /\ serving' = FALSE /\ control' = {} /\ final' \in {"stopped", "failed"} /\ CloseAll(S)
  BY DEF Exit
<1>2. \A c \in S : conn[c].state # None
  BY DEF None
<1>3. TypeOK'
  BY <1>1, CloseAllType DEF IInv, TypeOK
<1>4. \A c \in Requests : Sound(c)'
  BY <1>1, <1>2, CloseAllSound
<1> QED
  BY <1>1, <1>3, <1>4, ReportedTrue DEF IInv

LEMMA IInvStep == ASSUME IInv, [Next]_vars PROVE IInv'
PROOF
<1>1. CASE Clients /\ UNCHANGED owner
  BY <1>1, ConnectSound, ClientSound DEF Clients
<1>2. CASE Service(Free) /\ UNCHANGED owner
  BY <1>2, AcceptSound, AsideSound, ServeCancelSound, GiveUpSound, HoldSound,
       TransmitSound DEF Service
<1>3. ASSUME NEW c \in Requests,
             \/ WriteRecords(c) \/ DispatchLate(c) \/ DispatchOrdinary(c) \/ DispatchStop(c)
             \/ Act(c) \/ Decide(c) \/ Answer(c)
      PROVE  IInv'
  BY <1>3, WriteRecordsSound, DispatchLateSound, DispatchOrdinarySound, DispatchStopSound,
     ActSound, DecideSound, AnswerSound
<1>4. CASE WriteWatched \/ Turn \/ RootElapses \/ DrainElapses \/ UNCHANGED vars
  BY <1>4, AsideSound
<1>5. CASE Escalate \/ FailingTurn \/ Signal
  BY <1>5, StopTurnSound
<1> QED
  BY <1>1, <1>2, <1>3, <1>4, <1>5, ShutdownTurnSound, ExitSound DEF Next

THEOREM WorkerInvariant == Spec => []IInv
PROOF
<1>1. IInv /\ [Next]_vars => IInv'
  BY IInvStep
<1> QED
  BY InitSound, <1>1, PTL DEF Spec

\* What a caller acts on when it has its answer is so: an ordinary request reported as
\* not started had and will have no effect, by whichever of the worker or exchange()
\* reported it, and a stop that answered success has run the shutdown to its end.  A stop
\* reported as not started may all the same have begun the shutdown (dispatch_request).
THEOREM WorkerAnswersTrue == Spec => []AnswersTrue
PROOF
<1>1. IInv => AnswersTrue
  BY DEF IInv, AnswersTrue, StopMeansDone, Requests, Sound, BeforeContact,
       DispatchedOnce, EffectsAdmitted, ReplyFinal, ReportedFinal, RecordedAsSent
<1> QED
  BY WorkerInvariant, <1>1, PTL

\* A reply leaves an open connection by its transmission, whatever else the step is.
LEMMA AnsweredByTransmit ==
  ASSUME IInv, [Next]_vars, NEW c \in Requests,
         conn[c].state = "open", conn'[c].state = "answered"
  PROVE  Transmit(c, Free)
PROOF
<1>1. conn' # conn
  OBVIOUS
<1>2. ASSUME NEW r \in Requests,
             \/ Connect(r) \/ Hold(r, Free) \/ Release(r, Free) \/ DispatchLate(r) \/ Answer(r)
      PROVE  FALSE
  <2>1. CASE Connect(r)
    BY <2>1 DEF IInv, TypeOK, ConnType, Connect
  <2>2. CASE Hold(r, Free) \/ Release(r, Free)
    <3>1. PICK over \in BOOLEAN : conn' = [conn EXCEPT ![r].held = over]
      BY <2>2 DEF Hold, Release
    <3> QED
      BY <3>1 DEF IInv, TypeOK, ConnType
  <2>4. CASE DispatchLate(r)
    BY <2>4 DEF IInv, TypeOK, ConnType, DispatchLate, Refused
  <2>3. CASE Answer(r)
    <3>1. PICK left : conn' = [conn EXCEPT ![r].out = left]
      BY <2>3 DEF Answer
    <3> QED
      BY <3>1 DEF IInv, TypeOK, ConnType
  <2> QED
    BY <1>2, <2>1, <2>2, <2>3, <2>4
<1>3. ASSUME NEW S, CloseAll(S) PROVE FALSE
  BY <1>3 DEF IInv, TypeOK, ConnType, CloseAll
<1>4. ASSUME Accept(Free) PROVE FALSE
  <2>1. PICK S \in SUBSET Waiting(Ordinary) :
          conn' = [d \in Requests |->
                     IF d \in S THEN [conn[d] EXCEPT !.state = "open"]
                     ELSE IF d \in Waiting(Ordinary) THEN [conn[d] EXCEPT !.state = "closed"]
                     ELSE conn[d]]
    BY <1>1, <1>4 DEF Accept
  <2> QED
    BY <2>1 DEF IInv, TypeOK, ConnType
<1>5. ASSUME AcceptPriority(Free) PROVE FALSE
  BY <1>5 DEF IInv, TypeOK, ConnType, AcceptPriority
<1>6. ASSUME NEW r \in Requests, DispatchOrdinary(r) \/ DispatchStop(r) PROVE FALSE
  <2>1. CASE conn' = [conn EXCEPT ![r] = Refused(@)]
    BY <2>1 DEF IInv, TypeOK, ConnType, Refused
  <2>2. CASE conn' = [conn EXCEPT ![r] = Taken(@)]
    BY <2>2 DEF IInv, TypeOK, ConnType, Taken
  <2> QED
    BY <1>6, <2>1, <2>2 DEF DispatchOrdinary, DispatchStop, Rejected
<1>7. ASSUME ShutdownTurn PROVE FALSE
  BY <1>7 DEF IInv, TypeOK, ConnType, ShutdownTurn
<1>8. ASSUME NEW r \in Requests, Transmit(r, Free) PROVE r = c
  BY <1>8 DEF IInv, TypeOK, ConnType, Transmit
<1>9. CASE Clients /\ UNCHANGED owner
  BY <1>1, <1>2, <1>9 DEF Clients, Fail, Receive, Interrupt, SendCancel, ClientOnly
<1>10. CASE Service(Free) /\ UNCHANGED owner
  BY <1>1, <1>2, <1>3, <1>4, <1>5, <1>8, <1>10
     DEF Service, PauseElapses, ServeCancel, ReadEof, HoldOver, Expire
<1>11. ASSUME NEW r \in Requests,
              \/ WriteRecords(r) \/ DispatchLate(r) \/ DispatchOrdinary(r) \/ DispatchStop(r)
              \/ Act(r) \/ Decide(r) \/ Answer(r)
       PROVE  FALSE
  BY <1>1, <1>2, <1>6, <1>11 DEF WriteRecords, Act, Decide, transport
<1>12. CASE \/ WriteWatched \/ Escalate \/ Turn \/ FailingTurn \/ Signal \/ Exit
            \/ RootElapses \/ DrainElapses \/ UNCHANGED vars
  BY <1>1, <1>3, <1>12 DEF WriteWatched, Escalate, Turn, FailingTurn, Signal, Exit,
     RootElapses, DrainElapses, vars, transport
<1> QED
  BY <1>7, <1>9, <1>10, <1>11, <1>12 DEF Next

\* The outcome that leaves for a request the handler took is the one its terminal
\* record holds, and that record's write is over (Connection.reply, releasable).
THEOREM WorkerAnsweredAsRecorded == Spec => AnsweredAsRecorded
PROOF
<1> DEFINE A == \A c \in Requests :
                  conn[c].state = "open" /\ conn'[c].state = "answered" /\ adm[c].tickets # None =>
                    adm[c].tickets = "done" /\ adm[c].record = conn[c].out
<1>1. ASSUME IInv, [Next]_vars,
             NEW c \in Requests, conn[c].state = "open", conn'[c].state = "answered",
             adm[c].tickets # None
      PROVE  adm[c].tickets = "done" /\ adm[c].record = conn[c].out
  <2>1. Transmit(c, Free)
    BY <1>1, AnsweredByTransmit
  <2> QED
    BY <1>1, <2>1 DEF IInv, TypeOK, AdmType, Transmit, Writing, Open, Sound, RecordedAsSent
<1>2. IInv /\ [Next]_vars => [A]_vars
  BY <1>1
<1> QED
  BY WorkerInvariant, <1>2, PTL DEF Spec, AnsweredAsRecorded

\* An essential child's exit, once it is the persisted cause, stays it
\* (record_failure, watch_cause).
THEOREM WorkerRootCauseKept == Spec => RootCauseKept
PROOF
<1>1. [Next]_vars => [retained = "essential" => retained' = "essential"]_vars
  <2> SUFFICES ASSUME Next, retained = "essential" PROVE retained' = "essential"
    BY DEF vars, owner
  <2>1. CASE Failing
    BY <2>1 DEF Failing, RecordFailure, None
  <2>2. CASE LateCause
    BY <2>2 DEF LateCause, RecordFailure, None
  <2> QED
    BY <2>1, <2>2 DEF Next, owner, WriteRecords, DispatchLate, DispatchOrdinary,
         DispatchStop,
       Act, Decide, Answer, WriteWatched, Escalate, Turn, FailingTurn, Signal, ShutdownTurn,
       Exit, RootElapses, DrainElapses
<1> QED
  BY <1>1, PTL DEF Spec, RootCauseKept
=============================================================================
