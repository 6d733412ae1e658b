------------------------- MODULE ApplicationsProofs -------------------------
(***************************************************************************)
(* Proofs about the applications of a worker, for any number of them, of   *)
(* processes they fork, of requests, and of records that are not written.  *)
(***************************************************************************)
EXTENDS Applications, FiniteSetTheorems, TLAPS

-----------------------------------------------------------------------------
(* The invariant: types.                                                     *)

AppType ==
  [state : States, authorized : BOOLEAN, settled : BOOLEAN, uncertain : BOOLEAN, completed : BOOLEAN,
   child : {"none", "alive", "reaped"}, process : BOOLEAN,
   handles : SUBSET Member, observed : SUBSET Member, pending : SUBSET Member,
   empty : BOOLEAN, dirty : BOOLEAN, scanFirst : BOOLEAN, flushed : BOOLEAN,
   marks : [Member -> Signals \cup {"none"}]]

Unmoved == {"none", "program", "moved", "exited"}
OfHelper == {"none", "spawned", "entered", "passed", "program", "dying", "exited", "signalled"}

RecordType ==
  {r \in [by : {"registry", "request", "past"}, app : App \cup {0},
          what : States \cup {"batch", "allocated", "authorized", "resolve", "term", "kill", "observe"},
          ids : SUBSET Member] :
     /\ r.app # 0 => r.what \in States \cup {"batch"}
     /\ r.what = "batch" => r.by = "registry"}

WorkType ==
  [kind : {"none", "launch", "kill"}, app : App \cup {0},
   phase : {"none", "prepare", "allocating", "preparing", "ready", "authorizing", "exec", "dispatching"},
   failed : BOOLEAN]

CursorType == [on : BOOLEAN, phase : {"resolve", "term", "kill", "observe"}, dirty : BOOLEAN, failed : BOOLEAN]

Types ==
  /\ session \in {"up", "stopping"} /\ active \in App \cup {0}
  /\ turn \in {"drain", "registry", "prepare", "first", "second", "publish", "task"}
  /\ app \in [App -> AppType]
  /\ proc \in [App -> [Member -> OfHelper \cup Unmoved]]
  /\ wrote \in [App -> {"", "R", "E", "X"}]
  /\ gate \in [App -> {"none", "shut", "open", "closed"}]
  /\ queue \in Seq(RecordType)
  /\ disk \in [App -> States] /\ named \in [App -> SUBSET Member] /\ failure \in BOOLEAN
  /\ work \in WorkType /\ cursor \in CursorType /\ clock \in 0 .. 2
  /\ sent \subseteq Member \X Signals \X {1}

-----------------------------------------------------------------------------
(* What the queue makes of the disk.                                         *)

\* The last update of a that is queued, if there is one, and else the record on disk, is
\* one of S; a batch does not touch the state.  Where it is queued, by whom.
Ends(q, d, a, S, by) ==
  \/ /\ d \in S
     /\ \A j \in DOMAIN q : q[j].app = a => q[j].what = "batch"
  \/ \E i \in DOMAIN q :
       /\ q[i].app = a /\ q[i].what \in S /\ q[i].by = by
       /\ \A j \in DOMAIN q : j > i /\ q[j].app = a => q[j].what = "batch"

\* A record of the request that is not an application's.
Effective(r) == r.by = "request" /\ r.app = 0

\* The last effect the request has announced, or will have when its records are written.
Promises(q, p, what) ==
  \/ p = what /\ \A j \in DOMAIN q : ~Effective(q[j])
  \/ \E i \in DOMAIN q :
       /\ Effective(q[i]) /\ q[i].what = what
       /\ \A j \in DOMAIN q : j > i => ~Effective(q[j])

\* What the registry's queued records say of the processes of a.
Listed(q, a) == UNION {q[i].ids : i \in {j \in DOMAIN q : q[j].app = a /\ q[j].by = "registry"}}

-----------------------------------------------------------------------------
(* The invariant: each application.                                          *)

Root(a) == proc[a]["root"]

\* The helper's course and what it wrote to its pipe.
HelperTrue(a) ==
  /\ Root(a) \in OfHelper /\ \A p \in Kids : proc[a][p] \in Unmoved
  /\ Root(a) = "none" \/ Root(a) = "spawned" => wrote[a] = ""
  /\ Root(a) = "entered" => wrote[a] = "R"
  /\ Root(a) = "passed" => gate[a] = "open"
  /\ Root(a) \in {"passed", "program", "dying"} => wrote[a] = "X"
  /\ wrote[a] = "E" => Root(a) = "exited"
  /\ wrote[a] = "X" /\ Root(a) \in {"program", "exited"} => a \in ran

\* What the registry holds of an application.
Held(a, x) ==
  /\ x.handles \cup x.pending \subseteq x.observed
  /\ \A p \in x.observed : proc[a][p] # "none" /\ (p \in Live(a) => p \in x.handles)
  /\ x.authorized => x.process
  /\ x.child # "alive" => "root" \notin Live(a)
  /\ x.child = "none" => Root(a) = "none"
  /\ x.state = "none" => x = Unborn
  /\ x.completed => /\ x.settled /\ x.state \in Terminal /\ x.pending = {}
                    /\ Live(a) \subseteq Moved(a) \ x.observed

\* While every watched write succeeds, what was seen is on record or on its way.
OnRecord(a, x, q) ==
  /\ x.observed \subseteq named[a] \cup Listed(q, a) \cup x.pending
                         \cup (IF x.process /\ ~x.completed THEN {"root"} ELSE {})
  /\ x.completed => Ends(q, disk[a], a, Terminal, "registry")

\* A program that may still run is authorized, on disk and in every record to come.
Authorized(a, x, q) ==
  gate[a] = "open" =>
    /\ x.authorized
    /\ Root(a) \in {"spawned", "entered", "passed"} =>
         /\ disk[a] = "execution-authorized" /\ x.state = "execution-authorized"
         /\ \A i \in DOMAIN q : q[i].app = a => q[i].what \in {"batch", "execution-authorized"}

Owned(a) ==
  /\ HelperTrue(a) /\ Held(a, app[a]) /\ Authorized(a, app[a], queue)
  /\ session = "up" /\ ~failure => OnRecord(a, app[a], queue)
  /\ (app[a].state # "none" /\ ~app[a].completed) <=> active = a

-----------------------------------------------------------------------------
(* The invariant: the request.                                               *)

Stages ==
  /\ turn \in {"prepare", "first", "second", "publish"} => active # 0
  /\ \A i \in DOMAIN queue : queue[i].app # 0 => app[queue[i].app].state # "none"

\* A launch holds the active application from its reservation on, and does not let go
\* of it before its last step.
Reserved == {"preparing", "ready", "authorizing", "exec"}
Launching ==
  work.kind = "launch" =>
    /\ work.phase \in {"prepare", "allocating"} \cup Reserved
    /\ work.phase \in {"prepare", "allocating"} => work.app = 0
    /\ work.phase \in Reserved =>
         /\ work.app = active /\ active # 0
         /\ ~app[work.app].settled
         /\ work.phase = "preparing" => app[work.app].child = "none"
         /\ work.phase \in {"ready", "authorizing"} => gate[work.app] = "shut"
         /\ work.phase = "authorizing" => app[work.app].process

\* Nobody but the launch writes its application's state until the gate opens.
Waiting ==
  /\ work.kind = "launch" /\ ~work.failed /\ work.phase \in {"preparing", "ready", "authorizing"}
  /\ work.phase = "preparing" \/ "root" \in Live(work.app)

Asking ==
  Waiting =>
    /\ ~app[work.app].dirty
    /\ \A i \in DOMAIN queue :
         queue[i].app = work.app /\ queue[i].what # "batch" => queue[i].by = "request"
    /\ work.phase = "authorizing" =>
         /\ app[work.app].state = "execution-authorized"
         /\ Ends(queue, disk[work.app], work.app, {"execution-authorized"}, "request")

Promising ==
  ~work.failed =>
    /\ work.kind = "launch" /\ work.phase = "authorizing" => Promises(queue, promised, "authorized")
    /\ cursor.on => Promises(queue, promised, cursor.phase)

\* A signal that was sent is marked, until its process is reaped or the phase is over.
Killing ==
  /\ work.kind = "kill" =>
       work.app # 0 /\ app[work.app].state # "none" /\ work.phase \in {"prepare", "dispatching"}
  /\ cursor.on => work.kind = "kill" /\ work.app = active /\ work.phase = "dispatching" /\ ~cursor.failed
  /\ work.kind # "kill" \/ work.phase = "prepare" => sent = {}
  /\ cursor.on => \A s \in sent : s[2] = cursor.phase /\ app[active].marks[s[1]] = cursor.phase

AllOwned == \A a \in App : Owned(a)
Requesting == Launching /\ Asking /\ Promising /\ Killing

IInv == Types /\ AllOwned /\ Stages /\ Requesting

-----------------------------------------------------------------------------
(* Sequences of records.                                                     *)

\* q1 is q with records after it, at the places New(q, q1).
Extends(q, q1) == DOMAIN q \subseteq DOMAIN q1 /\ \A i \in DOMAIN q : q1[i] = q[i]
New(q, q1) == DOMAIN q1 \ DOMAIN q

LEMMA NewLater ==
  ASSUME NEW q \in Seq(RecordType), NEW q1 \in Seq(RecordType), Extends(q, q1)
  PROVE  \A i \in New(q, q1), j \in DOMAIN q : i > j
PROOF
<1>1. /\ DOMAIN q = 1 .. Len(q) /\ Len(q) \in Nat
      /\ DOMAIN q1 = 1 .. Len(q1) /\ Len(q1) \in Nat
  OBVIOUS
<1> QED
  BY <1>1 DEF New

LEMMA AppendView ==
  ASSUME NEW q \in Seq(RecordType), NEW r \in RecordType
  PROVE  /\ Append(q, r) \in Seq(RecordType) /\ Extends(q, Append(q, r))
         /\ New(q, Append(q, r)) = {Len(q) + 1} /\ Append(q, r)[Len(q) + 1] = r
BY DEF Extends, New

LEMMA TwoView ==
  ASSUME NEW q \in Seq(RecordType), NEW r \in RecordType, NEW s \in RecordType
  PROVE  LET q1 == Append(Append(q, r), s) IN
         /\ q1 \in Seq(RecordType) /\ Extends(q, q1)
         /\ New(q, q1) = {Len(q) + 1, Len(q) + 2}
         /\ q1[Len(q) + 1] = r /\ q1[Len(q) + 2] = s
BY DEF Extends, New

LEMMA ExtendEnds ==
  ASSUME NEW q \in Seq(RecordType), NEW q1 \in Seq(RecordType), Extends(q, q1),
         NEW d, NEW a, NEW S, NEW by, Ends(q, d, a, S, by),
         \A i \in New(q, q1) : q1[i].app = a => q1[i].what = "batch"
  PROVE  Ends(q1, d, a, S, by)
PROOF
<1>1. \A j \in DOMAIN q1 : j \in DOMAIN q \/ j \in New(q, q1)
  BY DEF New
<1>2. CASE d \in S /\ \A j \in DOMAIN q : q[j].app = a => q[j].what = "batch"
  BY <1>1, <1>2 DEF Ends, Extends
<1>3. ASSUME NEW i \in DOMAIN q, q[i].app = a, q[i].what \in S, q[i].by = by,
             \A j \in DOMAIN q : j > i /\ q[j].app = a => q[j].what = "batch"
      PROVE  Ends(q1, d, a, S, by)
  BY <1>1, <1>3 DEF Ends, Extends
<1> QED
  BY <1>2, <1>3 DEF Ends

\* The last of the new records that is no batch decides.
LEMMA ExtendEndsNew ==
  ASSUME NEW q \in Seq(RecordType), NEW q1 \in Seq(RecordType), Extends(q, q1),
         NEW d, NEW a, NEW S, NEW by, NEW i \in New(q, q1),
         q1[i].app = a, q1[i].what \in S, q1[i].by = by,
         \A j \in New(q, q1) : j > i /\ q1[j].app = a => q1[j].what = "batch"
  PROVE  Ends(q1, d, a, S, by)
PROOF
<1>1. \A j \in DOMAIN q : i > j /\ i \in Int /\ j \in Int
  BY NewLater DEF New
<1>2. i \in DOMAIN q1 /\ \A j \in DOMAIN q1 : j > i => j \in New(q, q1)
  BY <1>1 DEF New
<1> QED
  BY <1>2 DEF Ends

LEMMA AppendEnds ==
  ASSUME NEW q \in Seq(RecordType), NEW r \in RecordType, NEW d, NEW S
  PROVE  r.what \in S => Ends(Append(q, r), d, r.app, S, r.by)
PROOF
<1>1. PICK q1, i : q1 = Append(q, r) /\ i = Len(q) + 1
  OBVIOUS
<1>2. i \in Nat /\ q1 \in Seq(RecordType) /\ Extends(q, q1) /\ New(q, q1) = {i} /\ q1[i] = r
  BY <1>1, AppendView
<1>3. \A j \in New(q, q1) : ~(j > i)
  BY <1>2
<1> QED
  BY <1>1, <1>2, <1>3, ExtendEndsNew

LEMMA ExtendPromises ==
  ASSUME NEW q \in Seq(RecordType), NEW q1 \in Seq(RecordType), Extends(q, q1),
         NEW p, NEW what, Promises(q, p, what), \A i \in New(q, q1) : ~Effective(q1[i])
  PROVE  Promises(q1, p, what)
PROOF
<1>1. \A j \in DOMAIN q1 : j \in DOMAIN q \/ j \in New(q, q1)
  BY DEF New
<1>2. CASE p = what /\ \A j \in DOMAIN q : ~Effective(q[j])
  BY <1>1, <1>2 DEF Promises, Extends
<1>3. ASSUME NEW i \in DOMAIN q, Effective(q[i]), q[i].what = what,
             \A j \in DOMAIN q : j > i => ~Effective(q[j])
      PROVE  Promises(q1, p, what)
  BY <1>1, <1>3 DEF Promises, Extends
<1> QED
  BY <1>2, <1>3 DEF Promises

LEMMA ExtendPromisesNew ==
  ASSUME NEW q \in Seq(RecordType), NEW q1 \in Seq(RecordType), Extends(q, q1),
         NEW p, NEW what, NEW i \in New(q, q1), Effective(q1[i]), q1[i].what = what,
         \A j \in New(q, q1) : j > i => ~Effective(q1[j])
  PROVE  Promises(q1, p, what)
PROOF
<1>1. \A j \in DOMAIN q : i > j /\ i \in Int /\ j \in Int
  BY NewLater DEF New
<1>2. i \in DOMAIN q1 /\ \A j \in DOMAIN q1 : j > i => j \in New(q, q1)
  BY <1>1 DEF New
<1> QED
  BY <1>2 DEF Promises

LEMMA AppendPromises ==
  ASSUME NEW q \in Seq(RecordType), NEW r \in RecordType, NEW p
  PROVE  Effective(r) => Promises(Append(q, r), p, r.what)
PROOF
<1>1. PICK q1, i : q1 = Append(q, r) /\ i = Len(q) + 1
  OBVIOUS
<1>2. i \in Nat /\ q1 \in Seq(RecordType) /\ Extends(q, q1) /\ New(q, q1) = {i} /\ q1[i] = r
  BY <1>1, AppendView
<1>3. \A j \in New(q, q1) : ~(j > i)
  BY <1>2
<1> QED
  BY ZenonT(60), <1>1, <1>2, <1>3, ExtendPromisesNew

LEMMA ListedMember ==
  ASSUME NEW q, NEW a, NEW p
  PROVE  p \in Listed(q, a) <=>
           \E i \in DOMAIN q : q[i].app = a /\ q[i].by = "registry" /\ p \in q[i].ids
BY DEF Listed

LEMMA ExtendListed ==
  ASSUME NEW q \in Seq(RecordType), NEW q1 \in Seq(RecordType), Extends(q, q1), NEW a
  PROVE  /\ Listed(q, a) \subseteq Listed(q1, a)
         /\ \A i \in New(q, q1) :
              q1[i].app = a /\ q1[i].by = "registry" => q1[i].ids \subseteq Listed(q1, a)
BY ListedMember DEF Extends, New

\* What matters to an application of what happens to the queue.
Carries(q, q1, b) ==
  /\ Listed(q, b) \subseteq Listed(q1, b)
  /\ \A d, S : Ends(q, d, b, S, "registry") => Ends(q1, d, b, S, "registry")
  /\ \A i \in DOMAIN q1 :
       q1[i].app = b =>
         q1[i].what = "batch" \/ \E j \in DOMAIN q : q[j].app = b /\ q[j].what = q1[i].what

LEMMA CarriesSame == ASSUME NEW q, NEW b PROVE Carries(q, q, b)
BY DEF Carries

LEMMA ExtendCarries ==
  ASSUME NEW q \in Seq(RecordType), NEW q1 \in Seq(RecordType), Extends(q, q1), NEW b,
         \A i \in New(q, q1) : q1[i].app = b => q1[i].what = "batch"
  PROVE  Carries(q, q1, b)
PROOF
<1>1. \A d, S : Ends(q, d, b, S, "registry") => Ends(q1, d, b, S, "registry")
  BY ExtendEnds
<1>2. Listed(q, b) \subseteq Listed(q1, b)
  BY ExtendListed
<1>3. \A i \in DOMAIN q1 : i \in DOMAIN q \/ i \in New(q, q1)
  BY DEF New
<1> QED
  BY <1>1, <1>2, <1>3 DEF Carries, Extends

LEMMA PastView ==
  ASSUME NEW q \in Seq(RecordType)
  PROVE  /\ Past(q) \in Seq(RecordType) /\ DOMAIN Past(q) = DOMAIN q
         /\ \A i \in DOMAIN q :
              /\ Past(q)[i].app = q[i].app /\ Past(q)[i].what = q[i].what /\ Past(q)[i].ids = q[i].ids
              /\ Past(q)[i].by = "registry" <=> q[i].by = "registry"
              /\ Past(q)[i].by # "request"
PROOF
<1>1. DOMAIN Past(q) = DOMAIN q /\ DOMAIN q = 1 .. Len(q) /\ Len(q) \in Nat
  BY DEF Past
<1>2. ASSUME NEW i \in DOMAIN q
      PROVE  /\ Past(q)[i] \in RecordType
             /\ Past(q)[i].app = q[i].app /\ Past(q)[i].what = q[i].what /\ Past(q)[i].ids = q[i].ids
             /\ Past(q)[i].by = "registry" <=> q[i].by = "registry"
             /\ Past(q)[i].by # "request"
  <2>1. PICK r \in RecordType : r = q[i]
    OBVIOUS
  <2>2. Past(q)[i] = IF r.by = "request" THEN [r EXCEPT !.by = "past"] ELSE r
    BY <2>1 DEF Past
  <2> QED
    BY <2>1, <2>2 DEF RecordType
<1>3. Past(q) = [i \in 1 .. Len(q) |-> Past(q)[i]]
  BY <1>1 DEF Past
<1>4. Past(q) \in Seq(RecordType)
  BY <1>1, <1>2, <1>3
<1> QED
  BY <1>1, <1>2, <1>4

LEMMA PastCarries ==
  ASSUME NEW q \in Seq(RecordType), NEW q1 \in Seq(RecordType), NEW b, Carries(q, q1, b)
  PROVE  Carries(q, Past(q1), b)
PROOF
<1> DEFINE q2 == Past(q1)
<1>1. /\ q2 \in Seq(RecordType) /\ DOMAIN q2 = DOMAIN q1
      /\ \A i \in DOMAIN q1 :
           /\ q2[i].app = q1[i].app /\ q2[i].what = q1[i].what /\ q2[i].ids = q1[i].ids
           /\ q2[i].by = "registry" <=> q1[i].by = "registry"
  BY PastView
<1> HIDE DEF q2
<1>2. ASSUME NEW d, NEW S, Ends(q1, d, b, S, "registry")
      PROVE  Ends(q2, d, b, S, "registry")
  <2>1. CASE d \in S /\ \A j \in DOMAIN q1 : q1[j].app = b => q1[j].what = "batch"
    BY <1>1, <2>1 DEF Ends
  <2>2. ASSUME NEW i \in DOMAIN q1, q1[i].app = b, q1[i].what \in S, q1[i].by = "registry",
               \A j \in DOMAIN q1 : j > i /\ q1[j].app = b => q1[j].what = "batch"
        PROVE  Ends(q2, d, b, S, "registry")
    BY SMTT(30), <1>1, <2>2 DEF Ends
  <2> QED
    BY <1>2, <2>1, <2>2 DEF Ends
<1>3. Listed(q1, b) \subseteq Listed(q2, b)
  BY <1>1, ListedMember
<1>4. Carries(q, q2, b)
  BY <1>1, <1>2, <1>3 DEF Carries
<1> QED
  BY <1>4 DEF q2

\* What is extended twice.
LEMMA ExtendTwice ==
  ASSUME NEW q \in Seq(RecordType), NEW q1 \in Seq(RecordType), NEW q2 \in Seq(RecordType),
         Extends(q, q1), Extends(q1, q2)
  PROVE  /\ Extends(q, q2) /\ New(q, q2) = New(q, q1) \cup New(q1, q2)
         /\ \A i \in New(q, q1) : q2[i] = q1[i]
BY DEF Extends, New

LEMMA ExtendSame == ASSUME NEW q PROVE Extends(q, q) /\ New(q, q) = {}
BY DEF Extends, New

\* A record that is queued or not.
LEMMA MayAppend ==
  ASSUME NEW q \in Seq(RecordType), NEW r \in RecordType, NEW q1, q1 = q \/ q1 = Append(q, r)
  PROVE  /\ q1 \in Seq(RecordType) /\ Extends(q, q1)
         /\ \A i \in New(q, q1) : q1[i] = r
         /\ q1 = q => New(q, q1) = {}
         /\ q1 = Append(q, r) => \E i \in New(q, q1) : q1[i] = r
PROOF
<1>1. CASE q1 = q
  <2>1. New(q, q1) = {} /\ Extends(q, q1)
    BY <1>1, ExtendSame
  <2>2. q1 # Append(q, r)
    BY <1>1
  <2> QED
    BY <1>1, <2>1, <2>2
<1>2. CASE q1 = Append(q, r)
  <2>1. q1 \in Seq(RecordType) /\ Extends(q, q1) /\ New(q, q1) = {Len(q) + 1} /\ q1[Len(q) + 1] = r
    BY <1>2, AppendView
  <2>2. q1 # q
    BY <1>2
  <2> QED
    BY <2>1, <2>2
<1> QED
  BY <1>1, <1>2

-----------------------------------------------------------------------------
(* The parts of an application's invariant.                                  *)

LEMMA HeldSame ==
  ASSUME NEW a, NEW x, NEW y, Held(a, x),
         y.handles = x.handles, y.pending \subseteq x.pending, y.observed = x.observed,
         y.authorized = x.authorized, y.process = x.process, y.child = x.child,
         y.completed = x.completed, x.completed => y.settled /\ y.state \in Terminal,
         y.state # "none"
  PROVE  Held(a, y)
BY DEF Held

LEMMA OnRecordCarries ==
  ASSUME NEW a, NEW x, NEW q, NEW q1, OnRecord(a, x, q), Carries(q, q1, a)
  PROVE  OnRecord(a, x, q1)
BY DEF OnRecord, Carries

LEMMA OnRecordSame ==
  ASSUME NEW a, NEW x, NEW y, NEW q, OnRecord(a, x, q),
         y.observed = x.observed, y.pending = x.pending, x.process => y.process,
         y.completed = x.completed
  PROVE  OnRecord(a, y, q)
BY DEF OnRecord

LEMMA AuthorizedCarries ==
  ASSUME NEW a, NEW x, NEW q, NEW q1, Authorized(a, x, q), Carries(q, q1, a)
  PROVE  Authorized(a, x, q1)
BY DEF Authorized, Carries

LEMMA AuthorizedSame ==
  ASSUME NEW a, NEW x, NEW y, NEW q, Authorized(a, x, q), x.authorized => y.authorized,
         y.state = x.state \/ Root(a) \notin {"spawned", "entered", "passed"}
  PROVE  Authorized(a, y, q)
BY DEF Authorized

\* A step that leaves the processes, the gate and the disk alone.
LEMMA OwnedNew ==
  ASSUME NEW b \in App, NEW y, NEW q, HelperTrue(b), Held(b, y), Authorized(b, y, q),
         session' = "up" /\ ~failure' => OnRecord(b, y, q),
         (y.state # "none" /\ ~y.completed) <=> active' = b,
         app'[b] = y, queue' = q, proc'[b] = proc[b], wrote'[b] = wrote[b], gate'[b] = gate[b],
         disk'[b] = disk[b], named'[b] = named[b], ran \subseteq ran'
  PROVE  Owned(b)'
PROOF
<1>1. HelperTrue(b)'
  BY DEF HelperTrue, Root
<1>2. Held(b, app[b])'
  BY DEF Held, Root, Live, Moved
<1>3. Authorized(b, app[b], queue)'
  BY DEF Authorized, Root
<1>4. (session = "up" /\ ~failure => OnRecord(b, app[b], queue))'
  BY DEF OnRecord
<1> QED
  BY <1>1, <1>2, <1>3, <1>4 DEF Owned

LEMMA OwnedOther ==
  ASSUME NEW b \in App, NEW q, Owned(b), app'[b] = app[b], queue' = q, Carries(queue, q, b),
         proc'[b] = proc[b], wrote'[b] = wrote[b], gate'[b] = gate[b],
         disk'[b] = disk[b], named'[b] = named[b], ran \subseteq ran',
         active' = b <=> active = b, session' = "up" /\ ~failure' => session = "up" /\ ~failure
  PROVE  Owned(b)'
PROOF
<1>1. Authorized(b, app[b], q) /\ (session' = "up" /\ ~failure' => OnRecord(b, app[b], q))
  BY AuthorizedCarries, OnRecordCarries DEF Owned
<1>2. HelperTrue(b) /\ Held(b, app[b])
      /\ ((app[b].state # "none" /\ ~app[b].completed) <=> active' = b)
  BY DEF Owned
<1> QED
  BY <1>1, <1>2, OwnedNew

\* A request that has ended.
LEMMA EndedRequesting == ASSUME Ended PROVE Requesting'
BY DEF Ended, NoWork, Off, Requesting, Launching, Asking, Waiting, Promising, Killing

\* The active application is one that was born and is not over.
LEMMA ActiveOwned ==
  ASSUME IInv, active # 0
  PROVE  active \in App /\ Owned(active) /\ app[active].state # "none" /\ ~app[active].completed
         /\ app[active] \in AppType
BY DEF IInv, Types, AllOwned, Owned

-----------------------------------------------------------------------------
(* The parts of the request's invariant.                                     *)

LEMMA LaunchingKept ==
  ASSUME Launching, UNCHANGED <<active, work>>,
         work.kind = "launch" /\ active # 0 =>
           /\ app'[active].settled = app[active].settled /\ gate'[active] = gate[active]
           /\ app[active].child = "none" => app'[active].child = "none"
           /\ app[active].process => app'[active].process
  PROVE  Launching'
BY DEF Launching, Reserved

\* What a launch awaits is the active application's.
LEMMA WaitingActive ==
  ASSUME Launching, Waiting PROVE work.app = active /\ active # 0
BY DEF Launching, Waiting, Reserved

LEMMA AskingKept ==
  ASSUME Types, Launching, Asking, work'.app = work.app, work'.phase = work.phase,
         Waiting' => Waiting,
         queue' \in Seq(RecordType), Extends(queue, queue'),
         Waiting => /\ app'[active].state = app[active].state /\ app'[active].dirty = app[active].dirty
                    /\ disk'[active] = disk[active]
                    /\ \A i \in New(queue, queue') : queue'[i].app = active => queue'[i].what = "batch"
  PROVE  Asking'
PROOF
<1> SUFFICES ASSUME Waiting' PROVE Asking'
  BY DEF Asking
<1>1. Waiting /\ work.app = active
  BY WaitingActive
<1>2. \A i \in DOMAIN queue' :
        queue'[i].app = active /\ queue'[i].what # "batch" => queue'[i].by = "request"
  BY <1>1 DEF Asking, Extends, New
<1>3. ASSUME work.phase = "authorizing"
      PROVE  Ends(queue', disk'[active], active, {"execution-authorized"}, "request")
  <2>1. queue \in Seq(RecordType) /\ Ends(queue, disk[active], active, {"execution-authorized"}, "request")
    BY <1>1, <1>3 DEF Asking, Types
  <2>2. \A i \in New(queue, queue') : queue'[i].app = active => queue'[i].what = "batch"
    BY <1>1
  <2>3. PICK q : q = queue'
    OBVIOUS
  <2>4. Ends(q, disk[active], active, {"execution-authorized"}, "request")
    BY <2>1, <2>2, <2>3, ExtendEnds
  <2> QED
    BY <1>1, <2>3, <2>4
<1> QED
  BY <1>1, <1>2, <1>3 DEF Asking

LEMMA PromisingKept ==
  ASSUME Types, Promising, work'.kind = work.kind, work'.phase = work.phase,
         ~work'.failed => ~work.failed, cursor'.on => cursor.on /\ cursor'.phase = cursor.phase,
         promised' = promised, queue' \in Seq(RecordType), Extends(queue, queue'),
         \A i \in New(queue, queue') : ~Effective(queue'[i])
  PROVE  Promising'
PROOF
<1>1. PICK q : q = queue'
  OBVIOUS
<1>2. \A what : Promises(queue, promised, what) => Promises(q, promised, what)
  BY <1>1, ExtendPromises DEF Types
<1> QED
  BY <1>1, <1>2 DEF Promising

LEMMA KillingKept ==
  ASSUME Killing, UNCHANGED <<active, cursor, sent>>, work'.kind = work.kind,
         work'.phase = work.phase, work'.app = work.app,
         work.kind = "kill" => app'[work.app].state # "none",
         cursor.on => app'[active].marks = app[active].marks
  PROVE  Killing'
BY DEF Killing

-----------------------------------------------------------------------------
(* Steps of the turn, and of the clock.                                      *)

\* Nothing happens but that the turn goes on.
LEMMA TurnStep ==
  ASSUME IInv, UNCHANGED <<session, active, app, outside, records, work, calls, gate, killing>>,
         turn' \in {"drain", "registry", "prepare", "first", "second", "publish", "task"},
         turn' \in {"prepare", "first", "second", "publish"} => active # 0, clock' \in 0 .. 2
  PROVE  IInv'
PROOF
<1> USE DEF outside, records, answers, killing
<1>1. Types'
  BY DEF IInv, Types
<1>2. ASSUME NEW b \in App
      PROVE  Owned(b)'
  BY CarriesSame, OwnedOther DEF IInv, AllOwned
<1>3. Stages'
  BY DEF IInv, Stages
<1>4. Requesting'
  <2>1. Launching'
    BY DEF IInv, Requesting, Launching, Reserved
  <2>2. Asking'
    BY DEF IInv, Requesting, Asking, Waiting, Live, Ends
  <2>3. Promising'
    BY DEF IInv, Requesting, Promising, Promises, Effective
  <2>4. Killing'
    BY DEF IInv, Requesting, Killing
  <2> QED
    BY <2>1, <2>2, <2>3, <2>4 DEF Requesting
<1> QED
  BY <1>1, <1>2, <1>3, <1>4 DEF IInv, AllOwned

LEMMA TurnSteps ==
  ASSUME IInv, TickIdle \/ TickSkips \/ Cut \/ Waits
  PROVE  IInv'
BY TurnStep DEF TickIdle, TickSkips, Cut, Waits, Turned, request, IInv, Types

LEMMA PassesStep == ASSUME IInv, Passes PROVE IInv'
PROOF
<1>0. turn' = turn /\ clock < 2 /\ clock' = clock + 1
  BY DEF Passes
<1>1. clock \in 0 .. 2 /\ turn \in {"drain", "registry", "prepare", "first", "second", "publish", "task"}
  BY DEF IInv, Types
<1>2. clock' \in 0 .. 2
  BY <1>0, <1>1
<1>3. turn \in {"prepare", "first", "second", "publish"} => active # 0
  BY DEF IInv, Stages
<1>4. UNCHANGED <<session, active, app, outside, records, work, calls, gate, killing>>
  BY DEF Passes
<1> QED
  BY <1>0, <1>1, <1>2, <1>3, <1>4, TurnStep

-----------------------------------------------------------------------------
(* The writer's answers.                                                     *)

LEMMA TailView ==
  ASSUME NEW q \in Seq(RecordType), q # <<>>
  PROVE  /\ Tail(q) \in Seq(RecordType) /\ Head(q) = q[1] /\ 1 \in DOMAIN q /\ Head(q) \in RecordType
         /\ DOMAIN Tail(q) = {i \in Nat : i + 1 \in DOMAIN q /\ i > 0}
         /\ \A i \in DOMAIN Tail(q) : i + 1 \in DOMAIN q /\ Tail(q)[i] = q[i + 1]
         /\ \A j \in DOMAIN q : j = 1 \/ (j - 1 \in DOMAIN Tail(q) /\ Tail(q)[j - 1] = q[j])
         /\ DOMAIN q \subseteq Nat
PROOF
<1>1. DOMAIN q = 1 .. Len(q) /\ Len(q) \in Nat \ {0} /\ DOMAIN Tail(q) = 1 .. (Len(q) - 1)
  OBVIOUS
<1>2. /\ Tail(q) \in Seq(RecordType) /\ Head(q) = q[1] /\ Head(q) \in RecordType
      /\ \A i \in DOMAIN Tail(q) : Tail(q)[i] = q[i + 1]
  BY <1>1
<1>3. \A j \in DOMAIN q : j = 1 \/ (j - 1 \in DOMAIN Tail(q) /\ (j - 1) + 1 = j)
  BY <1>1
<1> QED
  BY <1>1, <1>2, <1>3

\* The first record is written, or does not matter.
LEMMA TailEnds ==
  ASSUME NEW q \in Seq(RecordType), q # <<>>, NEW d, NEW e, NEW a, NEW S, NEW by,
         Ends(q, d, a, S, by), "batch" \notin S,
         Head(q).app = a /\ Head(q).what # "batch" => e = Head(q).what \/ (Head(q).by # by /\ e = d),
         Head(q).app # a \/ Head(q).what = "batch" => e = d
  PROVE  Ends(Tail(q), e, a, S, by)
PROOF
<1> DEFINE t == Tail(q)
<1>1. /\ Head(q) = q[1] /\ 1 \in DOMAIN q
      /\ \A i \in DOMAIN t : i \in Nat /\ i + 1 \in DOMAIN q /\ i + 1 > 1 /\ t[i] = q[i + 1]
      /\ \A j \in DOMAIN q : j \in Nat /\ (j = 1 \/ (j - 1 \in DOMAIN t /\ t[j - 1] = q[j]))
  BY TailView
<1> HIDE DEF t
<1>2. CASE d \in S /\ \A j \in DOMAIN q : q[j].app = a => q[j].what = "batch"
  BY <1>1, <1>2 DEF Ends
<1>3. ASSUME NEW i \in DOMAIN q, q[i].app = a, q[i].what \in S, q[i].by = by,
             \A j \in DOMAIN q : j > i /\ q[j].app = a => q[j].what = "batch"
      PROVE  Ends(t, e, a, S, by)
  <2>1. CASE i = 1
    <3>1. \A j \in DOMAIN t : t[j].app = a => t[j].what = "batch"
      BY <1>1, <1>3, <2>1
    <3> QED
      BY <1>1, <1>3, <2>1, <3>1 DEF Ends
  <2>2. CASE i # 1
    <3>1. i - 1 \in DOMAIN t /\ t[i - 1] = q[i]
      BY <1>1, <2>2
    <3>2. \A j \in DOMAIN t : j > i - 1 /\ t[j].app = a => t[j].what = "batch"
      BY <1>1, <1>3
    <3> QED
      BY <1>3, <3>1, <3>2 DEF Ends
  <2> QED
    BY <2>1, <2>2
<1> QED
  BY <1>2, <1>3 DEF Ends, t

LEMMA TailPromises ==
  ASSUME NEW q \in Seq(RecordType), q # <<>>, NEW p, NEW e, NEW what, Promises(q, p, what),
         IF Effective(Head(q)) THEN e = Head(q).what ELSE e = p
  PROVE  Promises(Tail(q), e, what)
PROOF
<1> DEFINE t == Tail(q)
<1>1. /\ Head(q) = q[1] /\ 1 \in DOMAIN q
      /\ \A i \in DOMAIN t : i \in Nat /\ i + 1 \in DOMAIN q /\ i + 1 > 1 /\ t[i] = q[i + 1]
      /\ \A j \in DOMAIN q : j \in Nat /\ (j = 1 \/ (j - 1 \in DOMAIN t /\ t[j - 1] = q[j]))
  BY TailView
<1> HIDE DEF t
<1>2. CASE p = what /\ \A j \in DOMAIN q : ~Effective(q[j])
  BY <1>1, <1>2 DEF Promises
<1>3. ASSUME NEW i \in DOMAIN q, Effective(q[i]), q[i].what = what,
             \A j \in DOMAIN q : j > i => ~Effective(q[j])
      PROVE  Promises(t, e, what)
  <2>1. CASE i = 1
    <3>1. \A j \in DOMAIN t : ~Effective(t[j])
      BY <1>1, <1>3, <2>1
    <3> QED
      BY <1>1, <1>3, <2>1, <3>1 DEF Promises
  <2>2. CASE i # 1
    <3>1. i - 1 \in DOMAIN t /\ t[i - 1] = q[i]
      BY <1>1, <2>2
    <3>2. \A j \in DOMAIN t : j > i - 1 => ~Effective(t[j])
      BY <1>1, <1>3
    <3> QED
      BY <1>3, <3>1, <3>2 DEF Promises
  <2> QED
    BY <2>1, <2>2
<1> QED
  BY <1>2, <1>3 DEF Promises, t

\* What is left of the list, without what the first record names.
LEMMA TailListed ==
  ASSUME NEW q \in Seq(RecordType), q # <<>>, NEW a
  PROVE  /\ Head(q).app # a \/ Head(q).by # "registry" => Listed(q, a) \subseteq Listed(Tail(q), a)
         /\ Listed(q, a) \subseteq Listed(Tail(q), a) \cup Head(q).ids
PROOF
<1> DEFINE t == Tail(q)
<1>1. /\ Head(q) = q[1]
      /\ \A j \in DOMAIN q : j = 1 \/ (j - 1 \in DOMAIN t /\ t[j - 1] = q[j])
  BY TailView
<1> HIDE DEF t
<1>2. ASSUME NEW p \in Listed(q, a)
      PROVE  /\ Head(q).app # a \/ Head(q).by # "registry" => p \in Listed(t, a)
             /\ p \in Listed(t, a) \cup Head(q).ids
  <2>1. PICK i \in DOMAIN q : q[i].app = a /\ q[i].by = "registry" /\ p \in q[i].ids
    BY <1>2, ListedMember
  <2>2. CASE i = 1
    BY <1>1, <2>1, <2>2
  <2>3. CASE i # 1
    BY <1>1, <2>1, <2>3, ListedMember
  <2> QED
    BY <2>2, <2>3
<1> QED
  BY <1>2 DEF t

WrittenDone ==
  LET r == Head(queue) IN
  /\ disk' = IF r.app = 0 \/ r.what = "batch" THEN disk ELSE [disk EXCEPT ![r.app] = r.what]
  /\ named' = IF r.app = 0 THEN named ELSE [named EXCEPT ![r.app] = @ \cup r.ids]
  /\ promised' = IF r.by = "request" /\ r.app = 0 THEN r.what ELSE promised
  /\ UNCHANGED <<failure, work, app, mishaps>>

WrittenFailed ==
  LET r == Head(queue)
      updates == r.app # 0 /\ r.what # "prepared" IN
  /\ failure' = (failure \/ r.by = "registry")
  /\ work' = [work EXCEPT !.failed = @ \/ r.by = "request"]
  /\ app' = IF updates /\ r.by # "registry" THEN [app EXCEPT ![r.app].dirty = TRUE] ELSE app
  /\ UNCHANGED <<disk, named, promised>>

WrittenFrame ==
  /\ session = "up" /\ turn = "drain" /\ queue # <<>> /\ queue' = Tail(queue)
  /\ UNCHANGED <<session, turn, active, outside, gate, cursor, sent, clock, calls, answered>>

LEMMA WrittenSplit ==
  ASSUME Written PROVE WrittenFrame /\ (WrittenDone \/ WrittenFailed)
BY DEF Written, WrittenFrame, WrittenDone, WrittenFailed

LEMMA WrittenDoneStep ==
  ASSUME IInv, WrittenFrame, WrittenDone
  PROVE  IInv'
PROOF
<1>1. queue \in Seq(RecordType) /\ queue # <<>> /\ queue' = Tail(queue)
  BY DEF IInv, Types, WrittenFrame
<1>2. PICK q, r : q = Tail(queue) /\ r = Head(queue)
  OBVIOUS
<1>3. /\ q \in Seq(RecordType) /\ r \in RecordType /\ 1 \in DOMAIN queue /\ r = queue[1]
      /\ \A i \in DOMAIN q : i \in Nat /\ i + 1 \in DOMAIN queue /\ q[i] = queue[i + 1]
  BY <1>1, <1>2, TailView
<1>4. /\ r.app \in App \cup {0} /\ r.by \in {"registry", "request", "past"} /\ r.ids \subseteq Member
      /\ r.app # 0 => r.what \in States \cup {"batch"}
      /\ r.what = "batch" => r.by = "registry"
  BY <1>3 DEF RecordType
<1>5. /\ disk' = IF r.app = 0 \/ r.what = "batch" THEN disk ELSE [disk EXCEPT ![r.app] = r.what]
      /\ named' = IF r.app = 0 THEN named ELSE [named EXCEPT ![r.app] = @ \cup r.ids]
      /\ promised' = IF r.by = "request" /\ r.app = 0 THEN r.what ELSE promised
  BY <1>2 DEF WrittenDone
<1>6. /\ UNCHANGED <<failure, work, app>>
      /\ UNCHANGED <<session, turn, active, proc, wrote, ran, gate, cursor, sent, clock>>
  BY DEF WrittenDone, WrittenFrame, outside
<1>7. Types'
  <2>1. disk' \in [App -> States] /\ named' \in [App -> SUBSET Member]
    BY <1>4, <1>5 DEF IInv, Types
  <2> QED
    BY <1>1, <1>2, <1>3, <1>6, <2>1 DEF IInv, Types
<1>8. ASSUME NEW b \in App
      PROVE  /\ r.app = b /\ r.what # "batch" => disk'[b] = r.what
             /\ r.app # b \/ r.what = "batch" => disk'[b] = disk[b]
             /\ named[b] \subseteq named'[b] /\ (r.app = b => r.ids \subseteq named'[b])
  <2>0. b # 0
    BY ConstantsAssumption DEF App
  <2>1. /\ disk \in [App -> States] /\ named \in [App -> SUBSET Member] /\ b # 0
    BY <2>0 DEF IInv, Types
  <2>2. /\ r.app = b /\ r.what # "batch" => disk'[b] = r.what
        /\ r.app # b \/ r.what = "batch" => disk'[b] = disk[b]
    BY <1>4, <1>5, <2>1
  <2>3. named'[b] = IF r.app = b THEN named[b] \cup r.ids ELSE named[b]
    BY <1>4, <1>5, <2>1
  <2> QED
    BY <2>2, <2>3
<1>9. ASSUME NEW b \in App
      PROVE  Owned(b)'
  <2>1. Owned(b)
    BY DEF IInv, AllOwned
  <2>2. HelperTrue(b)' /\ Held(b, app[b])'
    BY <1>6, <2>1 DEF Owned, HelperTrue, Root, Held, Live, Moved
  <2>3. Authorized(b, app[b], queue)'
    <3>1. ASSUME gate[b] = "open", Root(b) \in {"spawned", "entered", "passed"}
          PROVE  /\ disk'[b] = "execution-authorized"
                 /\ \A i \in DOMAIN q : q[i].app = b => q[i].what \in {"batch", "execution-authorized"}
      <4>1. /\ disk[b] = "execution-authorized"
            /\ \A i \in DOMAIN queue :
                 queue[i].app = b => queue[i].what \in {"batch", "execution-authorized"}
        BY <2>1, <3>1 DEF Owned, Authorized
      <4>2. r.app = b => r.what \in {"batch", "execution-authorized"}
        BY <1>3, <4>1
      <4> QED
        BY <1>3, <1>8, <4>1, <4>2
    <3> QED
      BY <1>1, <1>2, <1>6, <2>1, <3>1 DEF Owned, Authorized, Root
  <2>4. (session = "up" /\ ~failure => OnRecord(b, app[b], queue))'
    <3> SUFFICES ASSUME session = "up", ~failure PROVE OnRecord(b, app[b], queue)'
      BY <1>6
    <3>1. OnRecord(b, app[b], queue)
      BY <2>1 DEF Owned
    <3>2. Listed(queue, b) \subseteq Listed(q, b) \cup named'[b]
      BY <1>1, <1>2, <1>8, TailListed
    <3>3. ASSUME app[b].completed PROVE Ends(q, disk'[b], b, Terminal, "registry")
      <4>1. Ends(queue, disk[b], b, Terminal, "registry") /\ "batch" \notin Terminal
        BY <3>1, <3>3 DEF OnRecord, Terminal
      <4>2. PICK e : e = disk'[b]
        OBVIOUS
      <4>3. Ends(q, e, b, Terminal, "registry")
        BY <1>1, <1>2, <1>8, <4>1, <4>2, TailEnds
      <4> QED
        BY <4>2, <4>3
    <3>4. /\ app[b].observed \subseteq named'[b] \cup Listed(q, b) \cup app[b].pending
                  \cup (IF app[b].process /\ ~app[b].completed THEN {"root"} ELSE {})
      BY <1>8, <3>1, <3>2 DEF OnRecord
    <3> QED
      BY <1>1, <1>2, <1>6, <3>3, <3>4 DEF OnRecord
  <2> QED
    BY <1>6, <2>1, <2>2, <2>3, <2>4 DEF Owned
<1>10. Stages'
  BY <1>1, <1>2, <1>3, <1>6 DEF IInv, Stages
<1>11. Launching' /\ Killing'
  BY <1>6 DEF IInv, Requesting, Launching, Killing, Reserved
<1>12. Asking'
  <2> SUFFICES ASSUME Waiting' PROVE Asking'
    BY DEF Asking
  <2>1. Waiting /\ work.app \in App /\ Asking
    BY <1>6, WaitingActive DEF Waiting, Live, IInv, Requesting, Types
  <2>2. ASSUME work.phase = "authorizing"
        PROVE  Ends(q, disk'[work.app], work.app, {"execution-authorized"}, "request")
    <3>1. Ends(queue, disk[work.app], work.app, {"execution-authorized"}, "request")
      BY <2>1, <2>2 DEF Asking
    <3>2. PICK e : e = disk'[work.app]
      OBVIOUS
    <3>3. Ends(q, e, work.app, {"execution-authorized"}, "request")
      BY <1>1, <1>2, <1>8, <2>1, <3>1, <3>2, TailEnds
    <3> QED
      BY <3>2, <3>3
  <2>3. \A i \in DOMAIN q : q[i].app = work.app /\ q[i].what # "batch" => q[i].by = "request"
    BY <1>3, <2>1 DEF Asking
  <2>4. ~app[work.app].dirty /\ (work.phase = "authorizing" => app[work.app].state = "execution-authorized")
    BY <2>1 DEF Asking
  <2> QED
    BY <1>1, <1>2, <1>6, <2>2, <2>3, <2>4 DEF Asking
<1>13. Promising'
  <2>1. PICK e : e = promised'
    OBVIOUS
  <2>2. \A what : Promises(queue, promised, what) => Promises(q, e, what)
    <3>1. IF Effective(Head(queue)) THEN e = Head(queue).what ELSE e = promised
      BY <1>2, <1>5, <2>1 DEF Effective
    <3> QED
      BY <1>1, <1>2, <3>1, TailPromises
  <2> QED
    BY <1>1, <1>2, <1>6, <2>1, <2>2 DEF IInv, Requesting, Promising
<1> QED
  BY <1>7, <1>9, <1>10, <1>11, <1>12, <1>13 DEF IInv, AllOwned, Requesting

LEMMA WrittenFailedStep ==
  ASSUME IInv, WrittenFrame, WrittenFailed
  PROVE  IInv'
PROOF
<1>1. queue \in Seq(RecordType) /\ queue # <<>> /\ queue' = Tail(queue)
  BY DEF IInv, Types, WrittenFrame
<1>2. PICK q, r : q = Tail(queue) /\ r = Head(queue)
  OBVIOUS
<1>3. /\ q \in Seq(RecordType) /\ r \in RecordType /\ 1 \in DOMAIN queue /\ r = queue[1]
      /\ \A i \in DOMAIN q : i \in Nat /\ i + 1 \in DOMAIN queue /\ q[i] = queue[i + 1]
  BY <1>1, <1>2, TailView
<1>4. /\ r.app \in App \cup {0} /\ r.by \in {"registry", "request", "past"}
      /\ r.what = "batch" => r.by = "registry"
  BY <1>3 DEF RecordType
<1>5. /\ failure' = (failure \/ r.by = "registry")
      /\ work' = [work EXCEPT !.failed = @ \/ r.by = "request"]
      /\ app' = IF (r.app # 0 /\ r.what # "prepared") /\ r.by # "registry"
                THEN [app EXCEPT ![r.app].dirty = TRUE] ELSE app
  BY <1>2 DEF WrittenFailed
<1>6. /\ UNCHANGED <<disk, named, promised>>
      /\ UNCHANGED <<session, turn, active, proc, wrote, ran, gate, cursor, sent, clock>>
  BY DEF WrittenFailed, WrittenFrame, outside
<1>7. /\ work \in WorkType /\ work' \in WorkType /\ UNCHANGED <<work.kind, work.phase, work.app>>
      /\ ~work'.failed => ~work.failed /\ r.by # "request"
  BY <1>5 DEF IInv, Types, WorkType
<1>8. \A x \in AppType : [x EXCEPT !.dirty = TRUE] \in AppType
  BY DEF AppType
<1>9. ASSUME NEW b \in App
      PROVE  /\ app'[b] \in AppType /\ app[b] \in AppType
             /\ UNCHANGED <<app[b].state, app[b].authorized, app[b].settled, app[b].completed,
                            app[b].child, app[b].process, app[b].handles, app[b].observed,
                            app[b].pending, app[b].marks>>
             /\ app[b] = Unborn => app'[b] = Unborn
             /\ ~app[b].dirty => ~app'[b].dirty \/ (r.app = b /\ r.what # "prepared" /\ r.by # "registry")
  <2>1. app \in [App -> AppType]
    BY DEF IInv, Types
  <2>2. CASE app'[b] = app[b]
    BY <2>1, <2>2
  <2>3. CASE r.app = b /\ r.what # "prepared" /\ r.by # "registry" /\ app'[b] = [app[b] EXCEPT !.dirty = TRUE]
    <3>1. app[b].state # "none"
      BY <1>3, <2>3 DEF IInv, Stages, App, ConstantsAssumption
    <3>2. PICK x \in AppType : x = app[b]
      BY <2>1
    <3>3. x # Unborn
      BY <3>1, <3>2 DEF Unborn
    <3>4. PICK y : y = [x EXCEPT !.dirty = TRUE]
      OBVIOUS
    <3>5. /\ y \in AppType /\ y.state = x.state /\ y.authorized = x.authorized /\ y.settled = x.settled
          /\ y.completed = x.completed /\ y.child = x.child /\ y.process = x.process
          /\ y.handles = x.handles /\ y.observed = x.observed /\ y.pending = x.pending
          /\ y.marks = x.marks
      BY <3>2, <3>4 DEF AppType
    <3> QED
      BY <2>3, <3>2, <3>3, <3>4, <3>5
  <2> QED
    BY <1>4, <1>5, <2>1, <2>2, <2>3
<1>10. Types'
  <2>1. app' \in [App -> AppType]
    BY <1>4, <1>5, <1>8 DEF IInv, Types
  <2>2. failure' \in BOOLEAN
    BY <1>5 DEF IInv, Types
  <2> QED
    BY <1>1, <1>2, <1>3, <1>6, <1>7, <2>1, <2>2 DEF IInv, Types
<1>11. ASSUME NEW b \in App
      PROVE  Owned(b)'
  <2>1. Owned(b)
    BY DEF IInv, AllOwned
  <2>2. PICK x, y : x = app[b] /\ y = app'[b]
    OBVIOUS
  <2>3. HelperTrue(b) /\ Held(b, y)
    BY <1>9, <2>1, <2>2 DEF Owned, Held
  <2>4. Authorized(b, y, q)
    BY <1>3, <1>9, <2>1, <2>2 DEF Owned, Authorized
  <2>5. ASSUME session = "up", ~failure' PROVE OnRecord(b, y, q)
    <3>1. ~failure /\ r.by # "registry" /\ OnRecord(b, x, queue)
      BY <1>5, <2>1, <2>2, <2>5 DEF Owned, IInv, Types
    <3>2. Listed(queue, b) \subseteq Listed(q, b)
      BY <1>1, <1>2, <3>1, TailListed
    <3>3. x.completed => Ends(q, disk[b], b, Terminal, "registry")
      <4>1. "batch" \notin Terminal
        BY DEF Terminal
      <4> QED
        BY <1>1, <1>2, <3>1, <4>1, TailEnds DEF OnRecord
    <3> QED
      BY <1>9, <2>2, <3>1, <3>2, <3>3 DEF OnRecord
  <2>6. (y.state # "none" /\ ~y.completed) <=> active' = b
    BY <1>6, <1>9, <2>1, <2>2 DEF Owned
  <2> QED
    BY <1>1, <1>2, <1>6, <2>2, <2>3, <2>4, <2>5, <2>6, OwnedNew
<1>12. Stages'
  <2>1. \A i \in DOMAIN q : q[i].app # 0 => q[i].app \in App /\ app[q[i].app].state # "none"
    BY <1>3 DEF IInv, Stages, RecordType
  <2> QED
    BY <1>1, <1>2, <1>6, <1>9, <2>1 DEF IInv, Stages
<1>13. active # 0 => active \in App
  BY DEF IInv, Types
<1>14. Launching'
  BY <1>6, <1>7, <1>9, <1>13 DEF IInv, Requesting, Launching, Reserved
<1>15. Asking'
  <2> SUFFICES ASSUME Waiting' PROVE Asking'
    BY DEF Asking
  <2>1. Waiting /\ r.by # "request"
    BY <1>6, <1>7 DEF Waiting, Live
  <2>2. work.app \in App /\ Asking
    BY <1>13, <2>1, WaitingActive DEF IInv, Requesting
  <2>3. ~(r.app = work.app /\ r.what # "prepared" /\ r.by # "registry")
    BY <1>3, <1>4, <2>1, <2>2 DEF Asking
  <2>4. ~app'[work.app].dirty
    BY <1>9, <2>1, <2>2, <2>3 DEF Asking
  <2>5. ASSUME work.phase = "authorizing"
        PROVE  Ends(q, disk[work.app], work.app, {"execution-authorized"}, "request")
    BY <1>1, <1>2, <2>1, <2>2, <2>5, TailEnds DEF Asking
  <2>6. \A i \in DOMAIN q : q[i].app = work.app /\ q[i].what # "batch" => q[i].by = "request"
    BY <1>3, <2>1, <2>2 DEF Asking
  <2>7. work.phase = "authorizing" => app'[work.app].state = "execution-authorized"
    BY <1>9, <2>1, <2>2 DEF Asking
  <2> QED
    BY <1>1, <1>2, <1>6, <1>7, <2>4, <2>5, <2>6, <2>7 DEF Asking
<1>16. Promising'
  <2>1. r.by # "request" => \A what : Promises(queue, promised, what) => Promises(q, promised, what)
    BY <1>1, <1>2, TailPromises DEF Effective
  <2> QED
    BY <1>1, <1>2, <1>6, <1>7, <2>1 DEF IInv, Requesting, Promising
<1>17. Killing'
  <2>1. work.kind = "kill" => work.app \in App /\ app[work.app].state # "none"
    BY <1>7 DEF IInv, Requesting, Killing, WorkType
  <2> QED
    BY <1>6, <1>7, <1>9, <1>13, <2>1 DEF IInv, Requesting, Killing
<1> QED
  BY <1>10, <1>11, <1>12, <1>14, <1>15, <1>16, <1>17 DEF IInv, AllOwned, Requesting

LEMMA WrittenStep == ASSUME IInv, Written PROVE IInv'
BY WrittenSplit, WrittenDoneStep, WrittenFailedStep

-----------------------------------------------------------------------------
(* Processes, and the helper.                                                *)

\* One process p of one application a becomes s.
LEMMA ProcessStep ==
  ASSUME IInv, NEW a \in App, NEW p \in Member, NEW s \in OfHelper \cup Unmoved, Aside,
         proc' = [proc EXCEPT ![a][p] = s], s # "none",
         wrote' \in [App -> {"", "R", "E", "X"}], \A b \in App \ {a} : wrote'[b] = wrote[b],
         ran \subseteq ran', HelperTrue(a)',
         s \notin Dead => \/ proc[a][p] \notin Dead
                          \/ /\ p # "root" /\ proc[a][p] = "none"
                             /\ \E k \in Member : proc[a][k] = "program",
         proc[a][p] = "moved" => s \in Dead,
         p = "root" => /\ proc[a][p] # "none"
                       /\ s \in {"spawned", "entered", "passed"}
                            => proc[a][p] \in {"spawned", "entered", "passed"}
  PROVE  IInv'
PROOF
<1>1. /\ UNCHANGED <<session, turn, active, app, queue, disk, named, failure>>
      /\ UNCHANGED <<work, clock, calls, answered, gate, cursor, sent, promised>>
  BY DEF Aside, request, killing
<1>2. proc \in [App -> [Member -> OfHelper \cup Unmoved]]
  BY DEF IInv, Types
<1>3. /\ proc' \in [App -> [Member -> OfHelper \cup Unmoved]]
      /\ proc'[a][p] = s /\ \A k \in Member \ {p} : proc'[a][k] = proc[a][k]
      /\ \A b \in App \ {a} : proc'[b] = proc[b]
  BY <1>2
<1>4. Types'
  BY <1>1, <1>3 DEF IInv, Types
<1>5. ASSUME NEW b \in App \ {a}
      PROVE  Owned(b)'
  BY <1>1, <1>3, CarriesSame, OwnedOther DEF IInv, AllOwned
<1>6. Owned(a)'
  <2>1. Owned(a) /\ "root" \in Member
    BY DEF IInv, AllOwned, Member
  <2>2. PICK x \in AppType : x = app[a] /\ x = app'[a]
    BY <1>1 DEF IInv, Types
  <2>3. x.observed \subseteq Member
    BY <2>2 DEF AppType
  <2>4. Held(a, x)
    BY <2>1, <2>2 DEF Owned
  <2>5. \A k \in x.observed : proc'[a][k] # "none" /\ (k \in Live(a)' => k \in x.handles)
    BY <1>3, <2>3, <2>4 DEF Held, Live, Dead
  <2>6. (x.child # "alive" => "root" \notin Live(a)') /\ (x.child = "none" => Root(a)' = "none")
    BY <1>3, <2>1, <2>4 DEF Held, Live, Dead, Root
  <2>7. x.completed => Live(a)' \subseteq Moved(a)' \ x.observed
    <3> SUFFICES ASSUME x.completed, NEW k \in Live(a)' PROVE k \in Moved(a)' \ x.observed
      OBVIOUS
    <3>1. Live(a) \subseteq Moved(a) \ x.observed /\ k \in Member /\ proc'[a][k] \notin Dead
      BY <2>4 DEF Held, Live
    <3>2. \A m \in Member : proc[a][m] \notin Dead => proc[a][m] = "moved"
      BY <3>1 DEF Live, Moved
    <3>3. \A m \in Member : proc[a][m] # "program"
      BY <3>2 DEF Dead
    <3>4. k # p
      BY <1>3, <3>1, <3>2, <3>3
    <3>5. proc'[a][k] = proc[a][k]
      BY <1>3, <3>1, <3>4
    <3>6. k \in Moved(a) \ x.observed
      BY <3>1, <3>5 DEF Live
    <3> QED
      BY <3>5, <3>6 DEF Moved
  <2>8. Held(a, app[a])'
    BY <2>2, <2>4, <2>5, <2>6, <2>7 DEF Held
  <2>9. Authorized(a, app[a], queue)'
    <3>1. Root(a)' \in {"spawned", "entered", "passed"} => Root(a) \in {"spawned", "entered", "passed"}
      BY <1>3, <2>1 DEF Root
    <3>2. Authorized(a, app[a], queue)
      BY <2>1 DEF Owned
    <3> QED
      BY <1>1, <3>1, <3>2 DEF Authorized
  <2>10. (session = "up" /\ ~failure => OnRecord(a, app[a], queue))'
    <3>1. session = "up" /\ ~failure => OnRecord(a, app[a], queue)
      BY <2>1 DEF Owned
    <3>2. PICK x1, q, d : x1 = app[a] /\ q = queue /\ d = disk[a]
      OBVIOUS
    <3> QED
      BY <1>1, <3>1, <3>2 DEF OnRecord
  <2> QED
    BY <1>1, <2>1, <2>8, <2>9, <2>10 DEF Owned
<1>7. Stages'
  BY <1>1 DEF IInv, Stages
<1>8. Launching' /\ Killing'
  BY <1>1 DEF IInv, Requesting, Launching, Killing, Reserved
<1>9. Promising'
  BY <1>1 DEF IInv, Requesting, Promising, Promises
<1>10. Asking'
  <2> SUFFICES ASSUME Waiting' PROVE Asking'
    BY DEF Asking
  <2>1. \A b \in App : "root" \in Live(b)' => "root" \in Live(b)
    BY <1>3 DEF Live
  <2>2. work.kind = "launch" /\ work.phase \in {"preparing", "ready", "authorizing"} => work.app \in App
    BY DEF IInv, Types, Requesting, Launching, Reserved
  <2>3. Waiting
    BY <1>1, <2>1, <2>2 DEF Waiting
  <2> QED
    BY <1>1, <2>3 DEF IInv, Requesting, Asking, Ends
<1> QED
  BY <1>4, <1>5, <1>6, <1>7, <1>8, <1>9, <1>10 DEF IInv, AllOwned, Requesting

LEMMA HelperKnown ==
  ASSUME IInv, NEW a \in App
  PROVE  /\ HelperTrue(a) /\ proc[a] \in [Member -> OfHelper \cup Unmoved]
         /\ wrote \in [App -> {"", "R", "E", "X"}] /\ proc \in [App -> [Member -> OfHelper \cup Unmoved]]
         /\ "root" \in Member /\ "root" \notin Kids /\ Member = Kids \cup {"root"}
BY ConstantsAssumption DEF IInv, Types, AllOwned, Owned, Member

LEMMA HelperStep ==
  ASSUME IInv, NEW a \in App, HelperEnters(a) \/ HelperPasses(a) \/ HelperExecutes(a)
  PROVE  IInv'
PROOF
<1> USE DEF Becomes, Writes
<1>1. /\ HelperTrue(a) /\ proc[a] \in [Member -> OfHelper \cup Unmoved]
      /\ wrote \in [App -> {"", "R", "E", "X"}] /\ proc \in [App -> [Member -> OfHelper \cup Unmoved]]
      /\ "root" \in Member /\ "root" \notin Kids /\ Member = Kids \cup {"root"}
  BY HelperKnown
<1>2. Aside /\ gate' = gate
  BY DEF HelperEnters, HelperPasses, HelperExecutes, Beside, Aside, request
<1>3. CASE HelperEnters(a)
  <2>1. proc[a]["root"] = "spawned" /\ ran' = ran
    BY <1>3 DEF HelperEnters
  <2>2. CASE Becomes(a, "root", "entered") /\ Writes(a, "R")
    <3>1. HelperTrue(a)'
      BY <1>1, <1>2, <2>1, <2>2 DEF HelperTrue, Root, OfHelper
    <3> QED
      BY <1>1, <1>2, <2>1, <2>2, <3>1, ProcessStep DEF Dead, OfHelper
  <2>3. CASE Becomes(a, "root", "exited") /\ Writes(a, "E")
    <3>1. HelperTrue(a)'
      BY <1>1, <1>2, <2>1, <2>3 DEF HelperTrue, Root, OfHelper
    <3> QED
      BY <1>1, <1>2, <2>1, <2>3, <3>1, ProcessStep DEF Dead, OfHelper
  <2> QED
    BY <1>3, <2>2, <2>3 DEF HelperEnters
<1>4. CASE HelperPasses(a)
  <2>1. proc[a]["root"] = "entered" /\ ran' = ran
    BY <1>4 DEF HelperPasses
  <2>2. CASE gate[a] = "open" /\ Becomes(a, "root", "passed") /\ Writes(a, "X")
    <3>1. HelperTrue(a)'
      BY <1>1, <1>2, <2>1, <2>2 DEF HelperTrue, Root, OfHelper
    <3> QED
      BY <1>1, <1>2, <2>1, <2>2, <3>1, ProcessStep DEF Dead, OfHelper
  <2>3. CASE Becomes(a, "root", "exited") /\ Writes(a, "E")
    <3>1. HelperTrue(a)'
      BY <1>1, <1>2, <2>1, <2>3 DEF HelperTrue, Root, OfHelper
    <3> QED
      BY <1>1, <1>2, <2>1, <2>3, <3>1, ProcessStep DEF Dead, OfHelper
  <2>4. CASE Becomes(a, "root", "exited") /\ UNCHANGED wrote
    <3>1. HelperTrue(a)'
      BY <1>1, <1>2, <2>1, <2>4 DEF HelperTrue, Root, OfHelper
    <3> QED
      BY <1>1, <1>2, <2>1, <2>4, <3>1, ProcessStep DEF Dead, OfHelper
  <2> QED
    BY <1>4, <2>2, <2>3, <2>4 DEF HelperPasses
<1>5. CASE HelperExecutes(a)
  <2>1. proc[a]["root"] = "passed"
    BY <1>5 DEF HelperExecutes
  <2>2. CASE Becomes(a, "root", "program") /\ ran' = ran \cup {a} /\ UNCHANGED wrote
    <3>1. HelperTrue(a)'
      BY <1>1, <1>2, <2>1, <2>2 DEF HelperTrue, Root, OfHelper
    <3> QED
      BY <1>1, <1>2, <2>1, <2>2, <3>1, ProcessStep DEF Dead, OfHelper
  <2>3. CASE Becomes(a, "root", "exited") /\ Writes(a, "E") /\ UNCHANGED ran
    <3>1. HelperTrue(a)'
      BY <1>1, <1>2, <2>1, <2>3 DEF HelperTrue, Root, OfHelper
    <3> QED
      BY <1>1, <1>2, <2>1, <2>3, <3>1, ProcessStep DEF Dead, OfHelper
  <2> QED
    BY <1>5, <2>2, <2>3 DEF HelperExecutes
<1> QED
  BY <1>3, <1>4, <1>5

LEMMA ForkedStep ==
  ASSUME IInv, NEW a \in App, NEW p \in Member, Fork(a, p) \/ Exits(a, p) \/ IsKilled(a, p) \/ Moves(a, p)
  PROVE  IInv'
PROOF
<1> USE DEF Becomes
<1>1. /\ HelperTrue(a) /\ proc[a] \in [Member -> OfHelper \cup Unmoved]
      /\ wrote \in [App -> {"", "R", "E", "X"}] /\ proc \in [App -> [Member -> OfHelper \cup Unmoved]]
      /\ "root" \in Member /\ "root" \notin Kids /\ Member = Kids \cup {"root"}
  BY HelperKnown
<1>2. Aside /\ gate' = gate /\ UNCHANGED <<wrote, ran>>
  BY DEF Fork, Exits, IsKilled, Moves, Beside, Aside, request
<1>3. CASE Fork(a, p)
  <2>1. HelperTrue(a)'
    BY <1>1, <1>2, <1>3 DEF HelperTrue, Root, Fork, Unmoved
  <2> QED
    BY <1>1, <1>2, <1>3, <2>1, ProcessStep DEF Fork, Dead, Unmoved
<1>4. CASE Exits(a, p)
  <2>1. HelperTrue(a)'
    BY <1>1, <1>2, <1>4 DEF HelperTrue, Root, Exits, OfHelper, Unmoved
  <2> QED
    BY <1>1, <1>2, <1>4, <2>1, ProcessStep DEF Exits, Dead, Unmoved
<1>5. CASE IsKilled(a, p)
  <2>1. p = "root"
    BY <1>5 DEF IsKilled
  <2>2. CASE p \in Live(a) /\ Becomes(a, p, "signalled")
    <3>1. proc[a]["root"] \notin Dead
      BY <2>1, <2>2 DEF Live
    <3>2. HelperTrue(a)'
      BY <1>1, <1>2, <2>1, <2>2, <3>1 DEF HelperTrue, Root, OfHelper, Dead
    <3> QED
      BY <1>1, <1>2, <2>1, <2>2, <3>1, <3>2, ProcessStep DEF Dead, OfHelper
  <2>3. CASE proc[a]["root"] = "passed" /\ Becomes(a, p, "dying")
    <3>1. HelperTrue(a)'
      BY <1>1, <1>2, <2>1, <2>3 DEF HelperTrue, Root, OfHelper
    <3> QED
      BY <1>1, <1>2, <2>1, <2>3, <3>1, ProcessStep DEF Dead, OfHelper
  <2>4. CASE proc[a]["root"] = "dying" /\ Becomes(a, p, "signalled")
    <3>1. HelperTrue(a)'
      BY <1>1, <1>2, <2>1, <2>4 DEF HelperTrue, Root, OfHelper
    <3> QED
      BY <1>1, <1>2, <2>1, <2>4, <3>1, ProcessStep DEF Dead, OfHelper
  <2> QED
    BY <1>5, <2>1, <2>2, <2>3, <2>4 DEF IsKilled
<1>6. CASE Moves(a, p)
  <2>1. HelperTrue(a)'
    BY <1>1, <1>2, <1>6 DEF HelperTrue, Root, Moves, Unmoved
  <2> QED
    BY <1>1, <1>2, <1>6, <2>1, ProcessStep DEF Moves, Dead, Unmoved
<1> QED
  BY <1>3, <1>4, <1>5, <1>6

LEMMA ProcessesStep == ASSUME IInv, Processes PROVE IInv'
BY HelperStep, ForkedStep DEF Processes

-----------------------------------------------------------------------------
(* The end of a request.                                                     *)

\* An application that is settled as its request ends, its helper killed or its gate
\* closed, or that has nothing to do with the request.
LEMMA EndsOwned ==
  ASSUME Types, NEW z \in App \cup {0}, NEW apps \in [App -> AppType], NEW q \in Seq(RecordType),
         EndsWith(z, apps, q), NEW b \in App,
         HelperTrue(b), Held(b, apps[b]), Authorized(b, apps[b], q),
         session' = "up" /\ ~failure' => OnRecord(b, apps[b], q),
         (apps[b].state # "none" /\ ~apps[b].completed) <=> active' = b,
         z = b => apps[b].state # "none", UNCHANGED <<disk, named>>
  PROVE  Owned(b)'
PROOF
<1>1. "root" \in Member /\ "root" \notin Kids
  BY ConstantsAssumption DEF Member
<1>2. PICK x \in AppType : x = apps[b]
  OBVIOUS
<1>3. PICK y : y = app'[b]
  OBVIOUS
<1>4. y = IF z = b THEN Abandoned(x) ELSE x
  BY <1>2, <1>3, ConstantsAssumption DEF EndsWith, App
<1>5. /\ y \in AppType /\ y.state = x.state /\ y.authorized = x.authorized
      /\ y.completed = x.completed /\ y.child = x.child /\ y.process = x.process
      /\ y.handles = x.handles /\ y.observed = x.observed /\ y.pending = x.pending
      /\ (x.settled => y.settled) /\ (x = Unborn => z = b \/ y = Unborn)
  BY <1>4 DEF Abandoned, AppType
<1>6. queue' = Past(q) /\ Carries(q, Past(q), b)
  BY CarriesSame, PastCarries DEF EndsWith
<1>7. wrote' = wrote /\ ran' = ran
  BY DEF EndsWith
<1>8. /\ proc[b] \in [Member -> OfHelper \cup Unmoved]
      /\ \/ proc'[b] = proc[b]
         \/ Aborts(b) /\ proc'[b] = [proc[b] EXCEPT !["root"] = "signalled"]
  BY DEF EndsWith, Types
<1>9. /\ \A p \in Kids : proc'[b][p] = proc[b][p]
      /\ \/ proc'[b]["root"] = proc[b]["root"]
         \/ "root" \in Live(b) /\ proc'[b]["root"] = "signalled"
  BY <1>1, <1>8 DEF Aborts, Member
<1>10. gate'[b] = gate[b] \/ (gate[b] = "shut" /\ gate'[b] = "closed")
  BY DEF EndsWith, Types
<1>11. HelperTrue(b)'
  <2>1. CASE proc'[b]["root"] = proc[b]["root"]
    BY <1>7, <1>9, <1>10, <2>1 DEF HelperTrue, Root
  <2>2. CASE "root" \in Live(b) /\ proc'[b]["root"] = "signalled"
    <3>1. wrote[b] # "E"
      BY <2>2 DEF HelperTrue, Root, Live, Dead
    <3> QED
      BY <1>7, <1>9, <2>2, <3>1 DEF HelperTrue, Root, OfHelper
  <2> QED
    BY <1>9, <2>1, <2>2
<1>12. \A p \in Member : /\ p \in Live(b)' => p \in Live(b)
                         /\ p \in Live(b)' => proc'[b][p] = proc[b][p]
                         /\ proc[b][p] # "none" => proc'[b][p] # "none"
                         /\ proc'[b][p] = "none" <=> proc[b][p] = "none"
  BY <1>1, <1>9 DEF Live, Dead, Member
<1>13. Held(b, app[b])'
  <2>1. x.observed \subseteq Member
    BY <1>2 DEF AppType
  <2>2. Held(b, x)
    BY <1>2
  <2>3. \A p \in y.observed : proc'[b][p] # "none" /\ (p \in Live(b)' => p \in y.handles)
    BY <1>5, <1>12, <2>1, <2>2 DEF Held
  <2>4. (y.child # "alive" => "root" \notin Live(b)') /\ (y.child = "none" => Root(b)' = "none")
    BY <1>1, <1>5, <1>12, <2>2 DEF Held, Root
  <2>5. y.state = "none" => y = Unborn
    <3>1. x.state = "none" => x = Unborn
      BY <2>2 DEF Held
    <3>2. z = b => x.state # "none"
      BY <1>2
    <3> QED
      BY <1>5, <3>1, <3>2
  <2>6. y.completed => Live(b)' \subseteq Moved(b)' \ y.observed
    <3> SUFFICES ASSUME y.completed, NEW k \in Live(b)' PROVE k \in Moved(b)' \ y.observed
      OBVIOUS
    <3>1. k \in Member /\ k \in Live(b) /\ proc'[b][k] = proc[b][k]
      BY <1>12 DEF Live
    <3> QED
      BY <1>5, <2>2, <3>1 DEF Held, Moved
  <2>7. y.completed => y.settled /\ y.state \in Terminal /\ y.pending = {}
    BY <1>5, <2>2 DEF Held
  <2> QED
    BY <1>3, <1>5, <2>2, <2>3, <2>4, <2>5, <2>6, <2>7 DEF Held
<1>14. Authorized(b, app[b], queue)'
  <2>1. Authorized(b, x, Past(q))
    BY <1>2, <1>6, AuthorizedCarries
  <2>2. Root(b)' \in {"spawned", "entered", "passed"} => Root(b) \in {"spawned", "entered", "passed"}
    BY <1>9 DEF Root
  <2> QED
    BY <1>3, <1>5, <1>6, <1>10, <2>1, <2>2 DEF Authorized
<1>15. (session = "up" /\ ~failure => OnRecord(b, app[b], queue))'
  <2>1. session' = "up" /\ ~failure' => OnRecord(b, x, Past(q))
    BY <1>2, <1>6, OnRecordCarries
  <2> QED
    BY <1>3, <1>5, <1>6, <2>1 DEF OnRecord
<1>16. ((app[b].state # "none" /\ ~app[b].completed) <=> active = b)'
  BY <1>2, <1>3, <1>5
<1> QED
  BY <1>11, <1>13, <1>14, <1>15, <1>16 DEF Owned

LEMMA EndsTypes ==
  ASSUME Types, NEW z \in App \cup {0}, NEW apps \in [App -> AppType], NEW q \in Seq(RecordType),
         EndsWith(z, apps, q), session' \in {"up", "stopping"}, active' \in App \cup {0},
         turn' = "drain", UNCHANGED <<disk, named, failure>>
  PROVE  Types'
PROOF
<1>1. app' \in [App -> AppType]
  <2>1. \A x \in AppType : Abandoned(x) \in AppType
    BY DEF Abandoned, AppType
  <2> QED
    BY <2>1 DEF EndsWith
<1>2. proc' \in [App -> [Member -> OfHelper \cup Unmoved]]
  BY DEF EndsWith, Types, OfHelper, Member
<1>3. gate' \in [App -> {"none", "shut", "open", "closed"}]
  BY DEF EndsWith, Types
<1>4. queue' \in Seq(RecordType)
  BY PastView DEF EndsWith
<1>5. work' \in WorkType /\ cursor' \in CursorType /\ clock' \in 0 .. 2 /\ sent' \subseteq Member \X Signals \X {1}
  BY DEF EndsWith, Ended, NoWork, Off, WorkType, CursorType
<1> QED
  BY <1>1, <1>2, <1>3, <1>4, <1>5 DEF Types, EndsWith

LEMMA EndsStep ==
  ASSUME IInv, NEW z \in App \cup {0}, NEW apps \in [App -> AppType], NEW q \in Seq(RecordType),
         EndsWith(z, apps, q), session' \in {"up", "stopping"}, active' \in App \cup {0},
         turn' = "drain", UNCHANGED <<disk, named, failure>>,
         \A b \in App :
           /\ Held(b, apps[b]) /\ Authorized(b, apps[b], q)
           /\ session' = "up" /\ ~failure => OnRecord(b, apps[b], q)
           /\ (apps[b].state # "none" /\ ~apps[b].completed) <=> active' = b,
         z # 0 => apps[z].state # "none",
         \A i \in DOMAIN q : q[i].app # 0 => apps[q[i].app].state # "none"
  PROVE  IInv'
PROOF
<1>1. Types /\ Types'
  BY EndsTypes DEF IInv
<1>2. ASSUME NEW b \in App
      PROVE  Owned(b)'
  <2>1. HelperTrue(b) /\ failure' = failure
    BY DEF IInv, AllOwned, Owned
  <2>2. /\ Held(b, apps[b]) /\ Authorized(b, apps[b], q)
        /\ session' = "up" /\ ~failure' => OnRecord(b, apps[b], q)
        /\ (apps[b].state # "none" /\ ~apps[b].completed) <=> active' = b
    BY <2>1
  <2>3. z = b => apps[b].state # "none"
    BY ConstantsAssumption DEF App
  <2> QED
    BY <1>1, <2>1, <2>2, <2>3, EndsOwned
<1>3. Requesting'
  BY EndedRequesting DEF EndsWith
<1>4. Stages'
  <2>1. \A b \in App : apps[b].state = app'[b].state
    <3>1. \A x \in AppType : Abandoned(x).state = x.state
      BY DEF Abandoned, AppType
    <3> QED
      BY <3>1, ConstantsAssumption DEF EndsWith, App
  <2>2. PICK h : h = Past(q)
    OBVIOUS
  <2>3. DOMAIN h = DOMAIN q /\ (\A i \in DOMAIN q : h[i].app = q[i].app /\ q[i].app \in App \cup {0})
    BY <2>2, PastView DEF RecordType
  <2>4. queue' = h
    BY <2>2 DEF EndsWith
  <2> QED
    BY <2>1, <2>3, <2>4 DEF Stages
<1> QED
  BY <1>1, <1>2, <1>3, <1>4 DEF IInv, AllOwned

\* It ends, and nothing else happens.
LEMMA EndsSame ==
  ASSUME IInv, NEW z \in App \cup {0}, z # 0 => z = active, EndsWith(z, app, queue),
         session' \in {"up", "stopping"}, session' = "up" => session = "up", turn' = "drain",
         UNCHANGED <<active, disk, named, failure>>
  PROVE  IInv'
PROOF
<1>1. /\ app \in [App -> AppType] /\ queue \in Seq(RecordType) /\ active \in App \cup {0}
      /\ \A b \in App : Owned(b)
      /\ \A i \in DOMAIN queue : queue[i].app # 0 => app[queue[i].app].state # "none"
  BY DEF IInv, Types, AllOwned, Stages
<1>2. z # 0 => app[z].state # "none"
  BY ActiveOwned
<1> QED
  BY <1>1, <1>2, EndsStep DEF Owned

\* What a launch releases is the active application, or none.
LEMMA LaunchedActive == ASSUME IInv PROVE Launched \in App \cup {0} /\ (Launched # 0 => Launched = active)
BY DEF Launched, IInv, Types, Requesting, Launching, Reserved

LEMMA CancelledStep == ASSUME IInv, Cancelled PROVE IInv'
PROOF
<1>1. EndsWith(Launched, app, queue) /\ UNCHANGED <<session, active, disk, named, failure>> /\ turn' = "drain"
  BY DEF Cancelled, Turned, answers
<1> QED
  BY <1>1, LaunchedActive, EndsSame DEF IInv, Types

\* Records of an application a that are queued do not matter to another one.
LEMMA ExtendOthers ==
  ASSUME IInv, NEW a \in App, NEW q \in Seq(RecordType), Extends(queue, q),
         \A i \in New(queue, q) : q[i].app \in {0, a}
  PROVE  /\ \A b \in App \ {a} : Carries(queue, q, b)
         /\ \A i \in DOMAIN q : q[i].app \notin {0, a} => app[q[i].app].state # "none"
PROOF
<1>0. 0 \notin App
  BY ConstantsAssumption DEF App
<1>1. queue \in Seq(RecordType) /\ 0 \notin App
  BY <1>0 DEF IInv, Types
<1>2. ASSUME NEW b \in App \ {a} PROVE Carries(queue, q, b)
  BY <1>1, ExtendCarries
<1>3. \A i \in DOMAIN q : i \in DOMAIN queue \/ i \in New(queue, q)
  BY DEF New
<1> QED
  BY <1>2, <1>3 DEF IInv, Stages, Extends

\* It ends as its last step changes the application a, which is then the active one.
LEMMA EndsChange ==
  ASSUME IInv, NEW a \in App, NEW z \in {0, a}, NEW x \in AppType, NEW q \in Seq(RecordType),
         Extends(queue, q), \A i \in New(queue, q) : q[i].app \in {0, a},
         EndsWith(z, [app EXCEPT ![a] = x], q), active \in {0, a}, active' = a,
         Held(a, x), Authorized(a, x, q), session' = "up" /\ ~failure => OnRecord(a, x, q),
         x.state # "none", ~x.completed,
         session' \in {"up", "stopping"}, session' = "up" => session = "up", turn' = "drain",
         UNCHANGED <<disk, named, failure>>
  PROVE  IInv'
PROOF
<1>1. PICK apps : apps = [app EXCEPT ![a] = x]
  OBVIOUS
<1>2. apps \in [App -> AppType] /\ apps[a] = x /\ \A b \in App \ {a} : apps[b] = app[b]
  BY <1>1 DEF IInv, Types
<1>3. ASSUME NEW b \in App \ {a}
      PROVE  /\ Held(b, apps[b]) /\ Authorized(b, apps[b], q)
             /\ session' = "up" /\ ~failure => OnRecord(b, apps[b], q)
             /\ (apps[b].state # "none" /\ ~apps[b].completed) <=> active' = b
  <2>1. Owned(b) /\ apps[b] = app[b] /\ active # b /\ Carries(queue, q, b)
    BY <1>2, ExtendOthers, ConstantsAssumption DEF IInv, AllOwned, App
  <2> QED
    BY <2>1, AuthorizedCarries, OnRecordCarries DEF Owned
<1>4. \A i \in DOMAIN q : q[i].app # 0 => apps[q[i].app].state # "none"
  <2>1. \A i \in DOMAIN q : q[i].app \in App \cup {0}
    BY DEF RecordType
  <2> QED
    BY <1>2, <2>1, ExtendOthers
<1>5. \A b \in App :
           /\ Held(b, apps[b]) /\ Authorized(b, apps[b], q)
           /\ session' = "up" /\ ~failure => OnRecord(b, apps[b], q)
           /\ (apps[b].state # "none" /\ ~apps[b].completed) <=> active' = b
  BY <1>2, <1>3
<1>6. EndsWith(z, apps, q) /\ z \in App \cup {0} /\ active' \in App \cup {0} /\ (z # 0 => apps[z].state # "none")
  BY <1>1, <1>2
<1> QED
  BY <1>2, <1>4, <1>5, <1>6, EndsStep

\* The registry fails, with its active application in the state x.
LEMMA FailsStep ==
  ASSUME IInv, active # 0, NEW x \in AppType, Fails(active, x),
         Held(active, x), x.authorized = app[active].authorized, x.state = app[active].state, ~x.completed
  PROVE  IInv'
PROOF
<1>1. PICK a \in App : a = active /\ Owned(a) /\ app[a].state # "none"
  BY ActiveOwned
<1>2. PICK y : y = [x EXCEPT !.uncertain = TRUE]
  OBVIOUS
<1>3. /\ y \in AppType /\ y.handles = x.handles /\ y.pending = x.pending /\ y.observed = x.observed
      /\ y.authorized = x.authorized /\ y.process = x.process /\ y.child = x.child
      /\ y.completed = x.completed /\ y.state = x.state /\ y.settled = x.settled
  BY <1>2 DEF AppType
<1>4. Held(a, y)
  BY <1>1, <1>3, HeldSame DEF Held
<1>5. Authorized(a, y, queue)
  BY <1>1, <1>3, AuthorizedSame DEF Owned
<1>6. /\ session' = "stopping" /\ turn' = "drain" /\ UNCHANGED <<active, disk, named, failure>>
      /\ EndsWith(Launched, [app EXCEPT ![a] = y], queue)
  BY <1>1, <1>2, ConstantsAssumption DEF Fails, answers, App
<1>7. Launched \in {0, a} /\ queue \in Seq(RecordType) /\ Extends(queue, queue) /\ New(queue, queue) = {}
  BY <1>1, LaunchedActive, ExtendSame DEF IInv, Types
<1> QED
  BY <1>1, <1>3, <1>4, <1>5, <1>6, <1>7, EndsChange

LEMMA TickFailsStep == ASSUME IInv, TickFails PROVE IInv'
PROOF
<1>1. CASE active = 0
  <2>1. /\ EndsWith(Launched, app, queue) /\ session' = "stopping" /\ turn' = "drain"
        /\ UNCHANGED <<active, disk, named, failure>>
    BY <1>1 DEF TickFails, Fails, answers
  <2> QED
    BY <2>1, LaunchedActive, EndsSame
<1>2. CASE active # 0
  <2>1. Fails(active, app[active])
    BY <1>2 DEF TickFails
  <2>2. app[active] \in AppType /\ Held(active, app[active]) /\ ~app[active].completed
    BY <1>2, ActiveOwned DEF Owned
  <2> QED
    BY <1>2, <2>1, <2>2, FailsStep
<1> QED
  BY <1>1, <1>2

-----------------------------------------------------------------------------
(* Steps that change one application, the active one.                        *)

LEMMA OneChanges ==
  ASSUME IInv, NEW a \in App, NEW y \in AppType, NEW q \in Seq(RecordType),
         app' = [app EXCEPT ![a] = y], queue' = q, active \in {0, a}, active' \in {0, a},
         \A b \in App \ {a} : Carries(queue, q, b),
         \A i \in DOMAIN q : q[i].app \notin {0, a} => app[q[i].app].state # "none",
         Held(a, y), Authorized(a, y, q), session = "up" /\ ~failure => OnRecord(a, y, q),
         ~y.completed <=> active' = a, y.state # "none",
         UNCHANGED <<session, outside, disk, named, failure, gate>>
  PROVE  /\ app' \in [App -> AppType] /\ AllOwned'
         /\ \A b \in App : app[b].state # "none" => app'[b].state # "none"
         /\ \A i \in DOMAIN queue' : queue'[i].app # 0 => app'[queue'[i].app].state # "none"
PROOF
<1>1. app' \in [App -> AppType] /\ app'[a] = y /\ \A b \in App \ {a} : app'[b] = app[b]
  BY DEF IInv, Types
<1>2. UNCHANGED <<proc, wrote, ran>>
  BY DEF outside
<1>3. \A b \in App : Owned(b)
  BY DEF IInv, AllOwned
<1>4. ASSUME NEW b \in App \ {a}
      PROVE  Owned(b)'
  <2>1. active' = b <=> active = b
    BY ConstantsAssumption DEF App
  <2> QED
    BY <1>1, <1>2, <1>3, <2>1, OwnedOther
<1>5. Owned(a)'
  <2>1. HelperTrue(a) /\ ((y.state # "none" /\ ~y.completed) <=> active' = a)
    BY <1>3 DEF Owned
  <2> QED
    BY <1>1, <1>2, <2>1, OwnedNew
<1>6. \A i \in DOMAIN q : q[i].app \in App \cup {0}
  BY DEF RecordType
<1> QED
  BY <1>1, <1>4, <1>5, <1>6 DEF AllOwned

\* The same, where the queue gets records of a or of no application.
LEMMA OneExtends ==
  ASSUME IInv, NEW a \in App, NEW y \in AppType, NEW q \in Seq(RecordType),
         app' = [app EXCEPT ![a] = y], queue' = q, active \in {0, a}, active' \in {0, a},
         Extends(queue, q), \A i \in New(queue, q) : q[i].app \in {0, a},
         Held(a, y), Authorized(a, y, q), session = "up" /\ ~failure => OnRecord(a, y, q),
         ~y.completed <=> active' = a, y.state # "none",
         UNCHANGED <<session, outside, disk, named, failure, gate>>
  PROVE  /\ app' \in [App -> AppType] /\ AllOwned'
         /\ \A b \in App : app[b].state # "none" => app'[b].state # "none"
         /\ \A i \in DOMAIN queue' : queue'[i].app # 0 => app'[queue'[i].app].state # "none"
BY OneChanges, ExtendOthers

\* A queue that is extended by batches and by what is no application's, of an application
\* whose record says what it said.
LEMMA ExtendsQuietly ==
  ASSUME NEW a, NEW x, NEW q \in Seq(RecordType), NEW q1 \in Seq(RecordType), Extends(q, q1),
         \A i \in New(q, q1) : q1[i].app = a => q1[i].what = "batch"
  PROVE  /\ Authorized(a, x, q) => Authorized(a, x, q1)
         /\ OnRecord(a, x, q) => OnRecord(a, x, q1)
BY ExtendCarries, AuthorizedCarries, OnRecordCarries

\* Children.poll.
LEMMA DrainedStep == ASSUME IInv, Drained PROVE IInv'
PROOF
<1> USE DEF outside, records, answers, request, killing
<1>1. /\ turn' = "registry" /\ session = "up"
      /\ UNCHANGED <<session, active, proc, wrote, ran, queue, disk, named, failure, work, clock, gate>>
      /\ UNCHANGED <<cursor, sent, promised>>
  BY DEF Drained
<1>2. ASSUME NEW b \in App
      PROVE  \/ app'[b] = app[b]
             \/ /\ app[b].child = "alive" /\ "root" \notin Live(b)
                /\ app'[b] = [app[b] EXCEPT !.child = "reaped"]
  BY DEF Drained
<1>3. ASSUME NEW b \in App
      PROVE  /\ app[b] \in AppType /\ app'[b] \in AppType
             /\ UNCHANGED <<app[b].state, app[b].authorized, app[b].settled, app[b].completed, app[b].dirty,
                            app[b].process, app[b].handles, app[b].observed, app[b].pending, app[b].marks>>
             /\ app'[b].child = app[b].child \/ (app[b].child = "alive" /\ app'[b].child = "reaped"
                                                   /\ "root" \notin Live(b))
             /\ app[b].state = "none" => app'[b] = app[b]
  <2>1. PICK x \in AppType : x = app[b]
    BY DEF IInv, Types
  <2>2. [x EXCEPT !.child = "reaped"] \in AppType
    BY DEF AppType
  <2>3. x.state = "none" => x.child = "none"
    BY <2>1 DEF IInv, AllOwned, Owned, Held, Unborn
  <2> QED
    BY <1>2, <2>1, <2>2, <2>3 DEF AppType
<1>4. Types'
  <2>1. app' \in [App -> AppType]
    BY <1>3 DEF Drained
  <2> QED
    BY <1>1, <2>1 DEF IInv, Types
<1>5. ASSUME NEW b \in App
      PROVE  Owned(b)'
  <2>1. Owned(b)
    BY DEF IInv, AllOwned
  <2>2. PICK x, y : x = app[b] /\ y = app'[b]
    OBVIOUS
  <2>3. HelperTrue(b) /\ Held(b, y)
    BY <1>3, <2>1, <2>2 DEF Owned, Held
  <2>4. Authorized(b, y, queue) /\ (session = "up" /\ ~failure => OnRecord(b, y, queue))
    BY <1>3, <2>1, <2>2, AuthorizedSame, OnRecordSame DEF Owned
  <2>5. (y.state # "none" /\ ~y.completed) <=> active' = b
    BY <1>1, <1>3, <2>1, <2>2 DEF Owned
  <2>6. PICK q : q = queue
    OBVIOUS
  <2> QED
    BY <1>1, <2>2, <2>3, <2>4, <2>5, <2>6, OwnedNew
<1>6. Stages'
  <2>0. queue \in Seq(RecordType)
    BY DEF IInv, Types
  <2>1. \A i \in DOMAIN queue : queue[i].app \in App \cup {0}
    BY <2>0 DEF RecordType
  <2>2. \A b \in App : app'[b].state = app[b].state
    BY <1>3
  <2> QED
    BY <1>1, <2>1, <2>2 DEF IInv, Stages
<1>7. active # 0 => active \in App
  BY DEF IInv, Types
<1>8. Launching'
  BY <1>1, <1>3, <1>7, LaunchingKept DEF IInv, Requesting
<1>9. Asking'
  <2>1. queue' \in Seq(RecordType) /\ Extends(queue, queue') /\ New(queue, queue') = {}
    BY <1>1, ExtendSame DEF IInv, Types
  <2>2. Waiting' => Waiting
    BY <1>1 DEF Waiting, Live
  <2>3. Waiting => active \in App
    BY <1>7, WaitingActive DEF IInv, Requesting
  <2> QED
    BY <1>1, <1>3, <2>1, <2>2, <2>3, AskingKept DEF IInv, Requesting
<1>10. Promising'
  BY <1>1 DEF IInv, Requesting, Promising, Promises
<1>11. Killing'
  <2>1. work.kind = "kill" => work.app \in App
    BY DEF IInv, Types, WorkType, Requesting, Killing
  <2>2. cursor.on => active \in App
    BY <2>1 DEF IInv, Requesting, Killing
  <2> QED
    BY <1>1, <1>3, <2>1, <2>2, KillingKept DEF IInv, Requesting, Killing
<1> QED
  BY <1>4, <1>5, <1>6, <1>8, <1>9, <1>10, <1>11 DEF IInv, AllOwned, Requesting

-----------------------------------------------------------------------------
(* Application.observe.                                                      *)

LEMMA SeenFields ==
  ASSUME NEW a \in App, app[a] \in AppType
  PROVE  LET x == app[a]
             y == Seen(a) IN
         /\ y \in AppType
         /\ y.authorized = x.authorized /\ y.settled = x.settled /\ y.completed = x.completed
         /\ y.child = x.child /\ y.process = x.process /\ y.handles = x.handles
         /\ y.observed = x.observed /\ y.pending = x.pending /\ y.marks = x.marks
         /\ y.empty <=> InGroup(a) = {}
         /\ y.uncertain = x.uncertain
         /\ x.state # "none" => y.state # "none"
         /\ x.child # "reaped" => y.state = x.state /\ y.dirty = x.dirty
PROOF
<1>1. PICK x \in AppType : x = app[a]
  OBVIOUS
<1>2. PICK e \in BOOLEAN : e = (InGroup(a) = {})
  OBVIOUS
<1>3. PICK exit \in BOOLEAN : exit = (x.child = "reaped" /\ x.state \notin {"root-exited"} \cup Terminal)
  OBVIOUS
<1>4. PICK s : s = IF ~exit THEN x.state ELSE IF x.authorized THEN "root-exited" ELSE "launch-failed"
  OBVIOUS
<1>5. s \in States /\ (x.state # "none" => s # "none") /\ (x.child # "reaped" => s = x.state /\ ~exit)
  BY <1>3, <1>4 DEF AppType, States, Terminal
<1>0. PICK d \in BOOLEAN : d = (x.dirty \/ exit)
  OBVIOUS
<1>6. Seen(a) = [x EXCEPT !.empty = e, !.dirty = d, !.state = s]
  BY <1>0, <1>1, <1>2, <1>3, <1>4 DEF Seen
<1>7. PICK y : y = [x EXCEPT !.empty = e, !.dirty = d, !.state = s]
  OBVIOUS
<1>8. /\ y \in AppType
      /\ y.authorized = x.authorized /\ y.settled = x.settled /\ y.completed = x.completed
      /\ y.child = x.child /\ y.process = x.process /\ y.handles = x.handles
      /\ y.observed = x.observed /\ y.pending = x.pending /\ y.marks = x.marks
      /\ y.empty = e /\ y.uncertain = x.uncertain /\ y.state = s /\ y.dirty = d
  BY ZenonT(60), <1>5, <1>7 DEF AppType
<1>9. x.child # "reaped" => y.dirty = x.dirty
  BY <1>0, <1>5, <1>8 DEF AppType
<1> QED
  BY <1>1, <1>2, <1>5, <1>6, <1>7, <1>8, <1>9

LEMMA ObserveStep ==
  ASSUME IInv, active # 0, Observe(active),
         UNCHANGED <<session, outside, answers, work, gate, sent, promised>>, clock' \in 0 .. 2,
         turn' \in {"task", "drain"} \/ (turn' = "prepare" /\ active' # 0)
  PROVE  IInv'
PROOF
<1> USE DEF outside, answers
<1>1. PICK a \in App : a = active /\ Owned(a) /\ app[a].state # "none" /\ ~app[a].completed /\ app[a] \in AppType
  BY ActiveOwned
<1>2. PICK x, y : x = app[a] /\ y = Seen(a)
  OBVIOUS
<1>3. /\ y \in AppType /\ x \in AppType
      /\ y.authorized = x.authorized /\ y.settled = x.settled /\ y.completed = x.completed
      /\ y.child = x.child /\ y.process = x.process /\ y.handles = x.handles
      /\ y.observed = x.observed /\ y.pending = x.pending /\ y.marks = x.marks
      /\ y.empty <=> InGroup(a) = {}
      /\ y.state # "none" /\ ~y.completed /\ x.state # "none" /\ ~x.completed
      /\ x.child # "reaped" => y.state = x.state /\ y.dirty = x.dirty
  BY <1>1, <1>2, SeenFields
<1>4. HelperTrue(a) /\ Held(a, x) /\ Authorized(a, x, queue) /\ (session = "up" /\ ~failure => OnRecord(a, x, queue))
  BY <1>1, <1>2 DEF Owned
<1>5. Held(a, y)
  BY <1>3, <1>4, HeldSame DEF Held
<1>6. Authorized(a, y, queue)
  <2>1. CASE x.child # "reaped"
    BY <1>3, <1>4, <2>1, AuthorizedSame
  <2>2. CASE x.child = "reaped"
    <3>1. Root(a) \notin {"spawned", "entered", "passed"}
      BY <1>4, <2>2 DEF Held, Live, Root, Dead, Member
    <3> QED
      BY <1>3, <1>4, <3>1, AuthorizedSame
  <2> QED
    BY <2>1, <2>2
<1>7. session = "up" /\ ~failure => OnRecord(a, y, queue)
  BY <1>3, <1>4, OnRecordSame
<1>8. queue \in Seq(RecordType) /\ Extends(queue, queue) /\ New(queue, queue) = {}
  BY ExtendSame DEF IInv, Types
<1>9. Waiting => x.child # "reaped" /\ ~x.settled
  <2>1. Waiting => work.phase \in Reserved /\ work.kind = "launch" /\ work.app = a
    BY <1>1, WaitingActive DEF IInv, Requesting, Waiting, Reserved
  <2>2. Waiting /\ work.phase # "preparing" => "root" \in Live(a)
    BY <2>1 DEF Waiting
  <2> QED
    BY <1>2, <1>4, <2>1, <2>2 DEF IInv, Requesting, Launching, Held
<1>10. Live(a)' = Live(a)
  BY DEF Live
<1>11. CASE ~Gone(y)
  <2>1. app' = [app EXCEPT ![a] = y] /\ UNCHANGED <<active, queue, cursor>>
    BY <1>1, <1>2, <1>11 DEF Observe
  <2>2. PICK q : q = queue
    OBVIOUS
  <2>3. /\ app' \in [App -> AppType] /\ AllOwned'
        /\ \A b \in App : app[b].state # "none" => app'[b].state # "none"
        /\ \A i \in DOMAIN queue' : queue'[i].app # 0 => app'[queue'[i].app].state # "none"
    BY <1>1, <1>3, <1>5, <1>6, <1>7, <1>8, <2>1, <2>2, OneExtends
  <2>4. Types'
    BY <2>1, <2>3 DEF IInv, Types
  <2>5. Stages'
    BY <1>1, <2>1, <2>3, ConstantsAssumption DEF Stages, App
  <2>6. app'[active] = y /\ app[active] = x
    BY <1>1, <1>2, <2>1 DEF IInv, Types
  <2>7. Launching'
    BY <1>3, <2>1, <2>6, LaunchingKept DEF IInv, Requesting
  <2>8. Asking'
    <3>1. Waiting' => Waiting
      BY DEF Waiting, Live
    <3> QED
      BY <1>3, <1>8, <1>9, <2>1, <2>6, <3>1, AskingKept DEF IInv, Requesting
  <2>9. Promising'
    BY <2>1 DEF IInv, Requesting, Promising, Promises
  <2>10. Killing'
    <3>1. work.kind = "kill" => app'[work.app].state # "none"
      BY <2>3 DEF IInv, Types, WorkType, Requesting, Killing
    <3> QED
      BY <1>3, <2>1, <2>6, <3>1, KillingKept DEF IInv, Requesting
  <2> QED
    BY <2>3, <2>4, <2>5, <2>7, <2>8, <2>9, <2>10 DEF IInv, Requesting
<1>12. CASE Gone(y)
  <2>1. PICK z, q, r : z = Completed(y) /\ r = Update("registry", a, z) /\ q = Append(queue, r)
    OBVIOUS
  <2>2. app' = [app EXCEPT ![a] = z] /\ active' = 0 /\ queue' = q /\ cursor' = Detached
    BY <1>1, <1>2, <1>12, <2>1 DEF Observe
  <2>3. /\ z \in AppType /\ z.completed /\ z.state \in Terminal /\ z.state # "none"
        /\ z.authorized = y.authorized /\ z.settled = y.settled /\ z.child = y.child
        /\ z.process = y.process /\ z.handles = y.handles /\ z.observed = y.observed
        /\ z.pending = y.pending
    BY <1>3, <2>1 DEF Completed, AppType, Terminal, States
  <2>4. y.settled /\ y.child # "alive" /\ y.pending = {} /\ y.handles = {} /\ InGroup(a) = {}
    BY <1>3, <1>12 DEF Gone, Unreferenced
  <2>5. "root" \notin Live(a)
    BY <1>5, <2>4 DEF Held
  <2>6. Live(a) \subseteq Moved(a)
    <3> SUFFICES ASSUME NEW p \in Member, proc[a][p] \notin Dead PROVE proc[a][p] = "moved"
      BY DEF Live, Moved
    <3>1. p # "root" /\ p \in Kids
      BY <2>5 DEF Live, Member
    <3>2. proc[a][p] \in Unmoved /\ proc[a][p] # "program"
      BY <1>4, <2>4, <3>1 DEF HelperTrue, InGroup
    <3> QED
      BY <3>2 DEF Unmoved, Dead
  <2>7. Live(a) \subseteq Moved(a) \ z.observed
    <3>1. \A p \in y.observed : p \notin Live(a)
      BY <1>5, <2>4 DEF Held
    <3> QED
      BY <2>3, <2>6, <3>1
  <2>8. Held(a, z)
    BY <1>5, <2>3, <2>4, <2>7 DEF Held
  <2>9. Authorized(a, z, q)
    <3>1. Root(a) \notin {"spawned", "entered", "passed"}
      BY <2>5 DEF Live, Root, Dead, Member
    <3> QED
      BY <1>6, <2>3, <3>1 DEF Authorized
  <2>10. r \in RecordType /\ r.app = a /\ r.what = z.state /\ r.by = "registry"
         /\ (z.process => r.ids = {"root"})
    BY <2>1, <2>3 DEF Update, Record, RecordType, AppType, Terminal, Member
  <2>11. q \in Seq(RecordType) /\ Extends(queue, q) /\ New(queue, q) = {Len(queue) + 1} /\ q[Len(queue) + 1] = r
    BY <1>8, <2>1, <2>10, AppendView
  <2>12. session = "up" /\ ~failure => OnRecord(a, z, q)
    <3> SUFFICES ASSUME session = "up", ~failure PROVE OnRecord(a, z, q)
      OBVIOUS
    <3>1. Ends(q, disk[a], a, Terminal, "registry")
      <4>1. PICK d, o : d = disk[a] /\ o = queue
        OBVIOUS
      <4>2. Ends(Append(o, r), d, r.app, Terminal, r.by)
        BY <1>8, <2>3, <2>10, <4>1, AppendEnds
      <4> QED
        BY <2>1, <2>10, <4>1, <4>2
    <3>2. Listed(queue, a) \subseteq Listed(q, a) /\ r.ids \subseteq Listed(q, a)
      BY <1>8, <2>10, <2>11, ExtendListed
    <3>3. y.observed \subseteq named[a] \cup Listed(queue, a) \cup (IF y.process THEN {"root"} ELSE {})
      BY <1>3, <1>7, <2>4 DEF OnRecord
    <3>4. z.observed \subseteq named[a] \cup Listed(q, a)
      BY <2>3, <2>10, <3>2, <3>3
    <3> QED
      BY <3>1, <3>4 DEF OnRecord
  <2>13. 0 \notin App /\ active \in {0, a} /\ active' \in {0, a} /\ (~z.completed <=> active' = a)
    BY <1>1, <2>2, <2>3, ConstantsAssumption DEF App
  <2>14. /\ app' \in [App -> AppType] /\ AllOwned'
         /\ \A b \in App : app[b].state # "none" => app'[b].state # "none"
         /\ \A i \in DOMAIN queue' : queue'[i].app # 0 => app'[queue'[i].app].state # "none"
    BY <2>2, <2>3, <2>8, <2>9, <2>10, <2>11, <2>12, <2>13, OneExtends
  <2>15. cursor' \in CursorType /\ ~cursor'.on
    BY <2>2 DEF Detached, IInv, Types, CursorType
  <2>16. Types'
    BY <2>2, <2>11, <2>14, <2>15 DEF IInv, Types
  <2>17. Stages'
    BY <2>2, <2>14 DEF Stages
  <2>18. ~(work.kind = "launch" /\ work.phase \in Reserved)
    BY <1>1, <1>2, <1>3, <2>4 DEF IInv, Requesting, Launching
  <2>19. Launching' /\ Asking'
    BY <2>18 DEF IInv, Requesting, Launching, Asking, Waiting, Reserved
  <2>20. Promising'
    BY <2>15, <2>18 DEF Promising, Reserved
  <2>21. Killing'
    BY <2>14, <2>15 DEF IInv, Types, WorkType, Requesting, Killing
  <2> QED
    BY <2>14, <2>16, <2>17, <2>19, <2>20, <2>21 DEF IInv, Requesting
<1> QED
  BY <1>11, <1>12

LEMMA TickObservesStep == ASSUME IInv, TickObserves PROVE IInv'
PROOF
<1>1. /\ active # 0 /\ Observe(active) /\ UNCHANGED <<session, outside, answers, request, sent, promised>>
      /\ turn' = IF active' = 0 THEN "task" ELSE "prepare"
  BY DEF TickObserves
<1> QED
  BY <1>1, ObserveStep DEF request, IInv, Types

-----------------------------------------------------------------------------
(* Termination.check, and the halves of a scan.                              *)

\* The cursor alone changes, or announces its phase.
LEMMA PrepareStep == ASSUME IInv, Prepare PROVE IInv'
PROOF
<1> USE DEF outside, answers, request
<1>1. /\ turn' = "first" /\ active # 0 /\ promised' = promised
      /\ UNCHANGED <<session, active, app, proc, wrote, ran, disk, named, failure, work, clock, gate>>
  BY DEF Prepare, IInv, Stages
<1>2. PICK q : q = queue'
  OBVIOUS
<1>3. queue \in Seq(RecordType) /\ cursor \in CursorType
  BY DEF IInv, Types
<1>4. \/ UNCHANGED <<cursor, sent, queue>>
      \/ cursor' = Failed /\ UNCHANGED <<sent, queue>>
      \/ /\ cursor.on /\ cursor' = [cursor EXCEPT !.phase = PhaseNow, !.dirty = FALSE] /\ sent' = {}
         /\ queue' = Append(queue, Effect(PhaseNow)) /\ ~work.failed
  BY DEF Prepare, Unfit
<1>5. PhaseNow \in {"term", "kill", "observe"}
  BY DEF PhaseNow, IInv, Types
<1>6. PICK r : r = Effect(PhaseNow)
  OBVIOUS
<1>7. r \in RecordType /\ r.app = 0 /\ Effective(r) /\ r.what = PhaseNow
  BY <1>5, <1>6 DEF Effect, Record, RecordType, Effective
<1>8. /\ q \in Seq(RecordType) /\ Extends(queue, q)
      /\ \A i \in New(queue, q) : q[i] = r
  <2>1. CASE q = queue
    BY <1>3, <2>1, ExtendSame
  <2>2. CASE q = Append(queue, r)
    BY <1>3, <1>7, <2>2, AppendView
  <2> QED
    BY <1>2, <1>4, <1>6, <2>1, <2>2
<1>9. cursor' \in CursorType /\ sent' \subseteq Member \X Signals \X {1}
  BY <1>3, <1>4, <1>5 DEF CursorType, Failed, IInv, Types
<1>10. Types'
  BY <1>1, <1>2, <1>8, <1>9 DEF IInv, Types
<1>11. 0 \notin App
  BY ConstantsAssumption DEF App
<1>12. ASSUME NEW b \in App
       PROVE  Owned(b)'
  <2>1. Owned(b) /\ Carries(queue, q, b)
    BY <1>3, <1>7, <1>8, <1>11, ExtendCarries DEF IInv, AllOwned
  <2> QED
    BY <1>1, <1>2, <2>1, OwnedOther
<1>13. Stages'
  <2>1. \A i \in DOMAIN q : i \in DOMAIN queue \/ i \in New(queue, q)
    BY DEF New
  <2> QED
    BY <1>1, <1>2, <1>7, <1>8, <2>1 DEF IInv, Stages, Extends
<1>14. Launching'
  BY <1>1, LaunchingKept DEF IInv, Requesting
<1>15. Asking'
  <2>1. Waiting' => Waiting
    BY <1>1 DEF Waiting, Live
  <2>2. Waiting => \A i \in New(queue, q) : q[i].app # active
    BY <1>1, <1>7, <1>8
  <2> QED
    BY <1>1, <1>2, <1>8, <2>1, <2>2, AskingKept DEF IInv, Requesting
<1>16. cursor.on => work.kind = "kill"
  BY DEF IInv, Requesting, Killing
<1>17. Promising' /\ Killing'
  <2>1. CASE UNCHANGED <<cursor, sent, queue>>
    BY <1>1, <2>1 DEF IInv, Requesting, Promising, Promises, Killing
  <2>2. CASE cursor' = Failed /\ UNCHANGED <<sent, queue>>
    <3>1. ~cursor'.on
      BY <1>3, <2>2 DEF Failed, CursorType
    <3> QED
      BY <1>1, <2>2, <3>1 DEF IInv, Requesting, Promising, Promises, Killing
  <2>3. CASE /\ cursor.on /\ cursor' = [cursor EXCEPT !.phase = PhaseNow, !.dirty = FALSE] /\ sent' = {}
             /\ queue' = Append(queue, Effect(PhaseNow)) /\ ~work.failed
    <3>1. /\ cursor'.on /\ cursor'.phase = PhaseNow /\ cursor'.failed = cursor.failed
      BY <1>3, <2>3 DEF CursorType
    <3>2. PICK p : p = promised
      OBVIOUS
    <3>3. Promises(q, promised, PhaseNow)
      BY <1>2, <1>3, <1>6, <1>7, <2>3, <3>2, AppendPromises
    <3>4. Promising'
      BY <1>1, <1>2, <1>16, <2>3, <3>1, <3>3 DEF Promising
    <3>5. Killing'
      BY <1>1, <2>3, <3>1 DEF IInv, Requesting, Killing
    <3> QED
      BY <3>4, <3>5
  <2> QED
    BY <1>4, <2>1, <2>2, <2>3
<1> QED
  BY <1>10, <1>12, <1>13, <1>14, <1>15, <1>17 DEF IInv, AllOwned, Requesting

\* What a half of a scan begins with: the active application, whose processes to record
\* may have been queued.
Begun(x, q) ==
  /\ x \in AppType /\ q \in Seq(RecordType) /\ Extends(queue, q)
  /\ \A i \in New(queue, q) : q[i].app = active /\ q[i].what = "batch" /\ q[i].by = "registry"
  /\ LET y == app[active] IN
       /\ x.state = y.state /\ x.authorized = y.authorized /\ x.completed = y.completed
       /\ x.settled = y.settled /\ x.child = y.child /\ x.process = y.process /\ x.dirty = y.dirty
       /\ x.handles = y.handles /\ x.observed = y.observed /\ x.marks = y.marks
       /\ x.pending \subseteq y.pending /\ y.pending \subseteq x.pending \cup Listed(q, active)

LEMMA BegunFirst ==
  ASSUME IInv, active # 0
  PROVE  LET q == IF app[active].pending = {} THEN queue ELSE Append(queue, Batch(active)) IN
         Begun(Toggled(app[active]), q)
PROOF
<1>1. PICK a \in App : a = active /\ app[a] \in AppType
  BY ActiveOwned
<1>2. PICK x \in AppType : x = app[a]
  BY <1>1
<1>3. PICK y : y = Toggled(x)
  OBVIOUS
<1>4. /\ y \in AppType
      /\ y.state = x.state /\ y.authorized = x.authorized /\ y.completed = x.completed
      /\ y.settled = x.settled /\ y.child = x.child /\ y.process = x.process /\ y.dirty = x.dirty
      /\ y.handles = x.handles /\ y.observed = x.observed /\ y.marks = x.marks
      /\ y.pending = {}
  BY ZenonT(60), <1>3 DEF Toggled, AppType
<1>5. queue \in Seq(RecordType)
  BY DEF IInv, Types
<1>6. CASE x.pending = {}
  BY <1>1, <1>2, <1>3, <1>4, <1>5, <1>6, ExtendSame DEF Begun
<1>7. CASE x.pending # {}
  <2>1. PICK r : r = Batch(a)
    OBVIOUS
  <2>2. /\ r \in RecordType /\ r.app = a /\ r.by = "registry" /\ r.what = "batch" /\ r.ids = x.pending
    BY <1>2, <2>1 DEF Batch, Record, RecordType, AppType
  <2>3. PICK q : q = Append(queue, r)
    OBVIOUS
  <2>4. q \in Seq(RecordType) /\ Extends(queue, q) /\ New(queue, q) = {Len(queue) + 1} /\ q[Len(queue) + 1] = r
    BY <1>5, <2>2, <2>3, AppendView
  <2>5. x.pending \subseteq Listed(q, a)
    BY <1>5, <2>2, <2>4, ExtendListed
  <2> QED
    BY <1>1, <1>2, <1>3, <1>4, <1>7, <2>1, <2>2, <2>3, <2>4, <2>5 DEF Begun
<1> QED
  BY <1>6, <1>7

LEMMA BegunSecond ==
  ASSUME IInv, active # 0 PROVE Begun(app[active], queue)
BY ActiveOwned, ExtendSame DEF Begun, IInv, Types

LEMMA BegunHeld ==
  ASSUME IInv, active # 0, NEW x, NEW q, Begun(x, q)
  PROVE  /\ Held(active, x) /\ Authorized(active, x, q) /\ (session = "up" /\ ~failure => OnRecord(active, x, q))
         /\ x.state # "none" /\ ~x.completed
PROOF
<1>1. PICK a \in App : a = active /\ Owned(a) /\ app[a].state # "none" /\ ~app[a].completed
  BY ActiveOwned
<1>2. PICK y : y = app[a]
  OBVIOUS
<1>3. queue \in Seq(RecordType)
  BY DEF IInv, Types
<1>4. x.state # "none" /\ ~x.completed
  BY <1>1 DEF Begun
<1>5. Held(a, x)
  BY <1>1, <1>4, HeldSame DEF Begun, Owned
<1>6. Carries(queue, q, a)
  BY <1>3, ExtendCarries DEF Begun
<1>7. Authorized(a, x, q)
  BY <1>1, <1>6, AuthorizedCarries, AuthorizedSame DEF Begun, Owned
<1>8. session = "up" /\ ~failure => OnRecord(a, x, q)
  <2> SUFFICES ASSUME session = "up", ~failure PROVE OnRecord(a, x, q)
    OBVIOUS
  <2>1. OnRecord(a, y, q)
    BY <1>1, <1>2, <1>6, OnRecordCarries DEF Owned
  <2> QED
    BY <1>1, <1>2, <1>4, <2>1 DEF OnRecord, Begun
<1> QED
  BY <1>1, <1>4, <1>5, <1>7, <1>8

\* A half of a scan, that leaves the application y.
LEMMA HalfStep ==
  ASSUME IInv, active # 0, NEW x, NEW q, Begun(x, q), NEW y \in AppType,
         app' = [app EXCEPT ![active] = y], queue' = q,
         y.state = x.state, y.authorized = x.authorized, y.completed = x.completed, y.settled = x.settled,
         y.child = x.child, y.process = x.process, y.dirty = x.dirty,
         Held(active, y), session = "up" /\ ~failure => OnRecord(active, y, q),
         UNCHANGED <<session, active, outside, answers, request, promised>>,
         turn' \in {"second", "publish"}, cursor' \in CursorType, sent' \subseteq Member \X Signals \X {1},
         cursor'.on => cursor.on /\ cursor'.phase = cursor.phase /\ cursor'.failed = cursor.failed,
         sent' # {} => sent # {} \/ cursor.on,
         cursor'.on => \A s \in sent' : s[2] = cursor.phase /\ y.marks[s[1]] = cursor.phase
  PROVE  IInv'
PROOF
<1> USE DEF outside, answers, request
<1>1. PICK a \in App : a = active
  BY ActiveOwned
<1>2. /\ x \in AppType /\ q \in Seq(RecordType) /\ Extends(queue, q)
      /\ \A i \in New(queue, q) : q[i].app = a /\ q[i].what = "batch" /\ q[i].by = "registry"
  BY <1>1 DEF Begun
<1>3. Authorized(a, x, q) /\ y.state # "none" /\ ~y.completed
  BY <1>1, BegunHeld
<1>4. Authorized(a, y, q)
  BY <1>3, AuthorizedSame
<1>5. /\ app' \in [App -> AppType] /\ AllOwned'
      /\ \A b \in App : app[b].state # "none" => app'[b].state # "none"
      /\ \A i \in DOMAIN queue' : queue'[i].app # 0 => app'[queue'[i].app].state # "none"
  BY <1>1, <1>2, <1>3, <1>4, OneExtends
<1>6. Types'
  BY <1>2, <1>5 DEF IInv, Types
<1>7. Stages'
  BY <1>5 DEF Stages
<1>8. app'[active] = y
  BY <1>1 DEF IInv, Types
<1>9. Launching'
  BY <1>8, LaunchingKept DEF IInv, Requesting, Begun
<1>10. Asking'
  <2>1. Waiting' => Waiting
    BY DEF Waiting, Live
  <2> QED
    BY <1>1, <1>2, <1>8, <2>1, AskingKept DEF IInv, Requesting, Begun
<1>11. Promising'
  <2>1. \A i \in New(queue, q) : ~Effective(q[i])
    BY <1>2 DEF Effective
  <2> QED
    BY <1>2, <2>1, PromisingKept DEF IInv, Requesting
<1>12. Killing'
  <2>1. work.kind = "kill" => app'[work.app].state # "none"
    BY <1>5 DEF IInv, Types, WorkType, Requesting, Killing
  <2> QED
    BY <1>8, <2>1 DEF IInv, Requesting, Killing
<1> QED
  BY <1>5, <1>6, <1>7, <1>9, <1>10, <1>11, <1>12 DEF IInv, Requesting

\* Those who may be signalled have not been, in this phase.
LEMMA SignalableNew ==
  ASSUME IInv, active # 0, NEW S, NEW p \in Signalable(S)
  PROVE  /\ p \in S /\ cursor.on /\ cursor.phase \in Signals /\ Recorded /\ Times(p) = 1
         /\ clock < (IF cursor.phase = "term" THEN 1 ELSE 2)
PROOF
<1>1. /\ p \in S /\ cursor.on /\ cursor.phase \in Signals /\ Recorded
      /\ clock < (IF cursor.phase = "term" THEN 1 ELSE 2) /\ app[active].marks[p] # cursor.phase
  BY DEF Signalable
<1>2. {s \in sent : s[1] = p /\ s[2] = cursor.phase} = {}
  BY <1>1 DEF IInv, Requesting, Killing
<1>3. Cardinality({s \in sent : s[1] = p /\ s[2] = cursor.phase}) = 0
  BY <1>2, FS_EmptySet
<1> QED
  BY <1>1, <1>3 DEF Times

LEMMA ReapStep ==
  ASSUME IInv, active # 0, NEW x, NEW q, Begun(x, q), NEW next \in {"second", "publish"}, Reap(x, q, next)
  PROVE  IInv'
PROOF
<1>1. /\ x \in AppType /\ Held(active, x) /\ Authorized(active, x, q)
      /\ (session = "up" /\ ~failure => OnRecord(active, x, q)) /\ x.state # "none" /\ ~x.completed
  BY BegunHeld DEF Begun
<1>2. PICK S \in SUBSET x.handles :
        LET away == S \cap Moved(active)
            doubt == cursor.on /\ ~Unfit /\ away # {} IN
        IF x.empty /\ away # {} THEN Fails(active, x)
        ELSE \E T \in SUBSET Signalable(S \cap InGroup(active)) :
               /\ Visited(S, T, doubt) /\ app' = [app EXCEPT ![active] = Reaped(x, S, T, doubt)]
               /\ queue' = q /\ turn' = next
               /\ UNCHANGED <<session, active, outside, answers, request, promised>>
  BY DEF Reap
<1>3. CASE Fails(active, x)
  BY <1>1, <1>3, FailsStep DEF Begun
<1>4. CASE ~Fails(active, x)
  <2>1. PICK doubt \in BOOLEAN : doubt = (cursor.on /\ ~Unfit /\ S \cap Moved(active) # {})
    OBVIOUS
  <2>2. PICK T \in SUBSET Signalable(S \cap InGroup(active)) :
               /\ Visited(S, T, doubt) /\ app' = [app EXCEPT ![active] = Reaped(x, S, T, doubt)]
               /\ queue' = q /\ turn' = next
               /\ UNCHANGED <<session, active, outside, answers, request, promised>>
    BY <1>2, <1>4, <2>1
  <2>3. PICK L : L = Live(active)
    OBVIOUS
  <2>4. S \subseteq Member /\ T \subseteq S /\ T \subseteq L /\ T \subseteq Member
    <3>1. T \subseteq S \cap InGroup(active)
      BY DEF Signalable
    <3>2. InGroup(active) \subseteq L
      BY <2>3 DEF Live, InGroup, Dead
    <3>3. S \subseteq Member
      BY <1>1 DEF AppType
    <3> QED
      BY <3>1, <3>2, <3>3
  <2>5. \A p \in T : cursor.on /\ cursor.phase \in Signals /\ Times(p) = 1
    BY <2>2, SignalableNew
  <2>6. PICK m : m = [p \in Member |-> CASE p \in S \ L -> "none"
                                         [] p \in T -> cursor.phase
                                         [] OTHER -> x.marks[p]]
    OBVIOUS
  <2>7. m \in [Member -> Signals \cup {"none"}]
    <3>1. x.marks \in [Member -> Signals \cup {"none"}]
      BY <1>1 DEF AppType
    <3>2. \A p \in Member : m[p] \in Signals \cup {"none"}
      BY <2>5, <2>6, <3>1
    <3> QED
      BY <2>6, <3>2
  <2>8. PICK y : y = [x EXCEPT !.handles = x.handles \ (S \ L), !.uncertain = x.uncertain \/ doubt, !.marks = m]
    OBVIOUS
  <2>9. y = Reaped(x, S, T, doubt)
    BY <2>3, <2>6, <2>8 DEF Reaped
  <2>10. /\ y \in AppType /\ y.handles = x.handles \ (S \ L) /\ y.marks = m
         /\ y.state = x.state /\ y.authorized = x.authorized /\ y.completed = x.completed
         /\ y.settled = x.settled /\ y.child = x.child /\ y.process = x.process /\ y.dirty = x.dirty
         /\ y.observed = x.observed /\ y.pending = x.pending
    BY <1>1, <2>1, <2>7, <2>8 DEF AppType
  <2>11. Held(active, y)
    BY <1>1, <2>3, <2>10 DEF Held
  <2>12. session = "up" /\ ~failure => OnRecord(active, y, q)
    BY <1>1, <2>10, OnRecordSame
  <2>13. /\ sent' = (sent \ ((S \ L) \X Signals \X {1})) \cup {<<p, cursor.phase, Times(p)>> : p \in T}
         /\ cursor' = Failed \/ cursor' = [cursor EXCEPT !.dirty = @ \/ T # {}]
    BY <2>2, <2>3 DEF Visited
  <2>14. cursor \in CursorType /\ sent \subseteq Member \X Signals \X {1}
    BY DEF IInv, Types
  <2>15. {<<p, cursor.phase, Times(p)>> : p \in T} = {<<p, cursor.phase, 1>> : p \in T}
    BY <2>5
  <2>16. sent' \subseteq Member \X Signals \X {1}
    BY <2>4, <2>5, <2>13, <2>14, <2>15
  <2>17. /\ cursor' \in CursorType
         /\ cursor'.on => cursor.on /\ cursor'.phase = cursor.phase /\ cursor'.failed = cursor.failed
    BY <2>13, <2>14 DEF CursorType, Failed
  <2>18. sent' # {} => sent # {} \/ cursor.on
    BY <2>5, <2>13
  <2>19. ASSUME cursor.on, NEW s \in sent'
         PROVE  s[2] = cursor.phase /\ y.marks[s[1]] = cursor.phase
    <3>1. CASE s \in {<<p, cursor.phase, 1>> : p \in T}
      <4>1. PICK p \in T : s = <<p, cursor.phase, 1>>
        BY <3>1
      <4>2. p \in Member /\ p \in L
        BY <2>4
      <4> QED
        BY <2>6, <2>10, <4>1, <4>2
    <3>2. CASE s \in sent /\ s \notin (S \ L) \X Signals \X {1}
      <4>1. PICK p \in Member, k \in Signals : s = <<p, k, 1>>
        BY <2>14, <3>2
      <4>2. s[1] = p /\ s[2] = k /\ p \notin S \ L
        BY <3>2, <4>1
      <4>3. k = cursor.phase /\ x.marks[p] = cursor.phase
        BY <2>19, <3>2, <4>2 DEF IInv, Requesting, Killing, Begun
      <4> QED
        BY <2>6, <2>10, <4>2, <4>3
    <3> QED
      BY <2>13, <2>15, <3>1, <3>2
  <2> QED
    BY <2>2, <2>9, <2>10, <2>11, <2>12, <2>16, <2>17, <2>18, <2>19, HalfStep
<1> QED
  BY <1>3, <1>4

LEMMA DiscoverStep ==
  ASSUME IInv, active # 0, NEW x, NEW q, Begun(x, q), NEW next \in {"second", "publish"}, Discover(x, q, next)
  PROVE  IInv'
PROOF
<1>1. /\ x \in AppType /\ Held(active, x) /\ Authorized(active, x, q)
      /\ (session = "up" /\ ~failure => OnRecord(active, x, q)) /\ x.state # "none" /\ ~x.completed
  BY BegunHeld DEF Begun
<1>2. PICK S \in SUBSET (InGroup(active) \ x.observed) :
        /\ app' = [app EXCEPT ![active] = Discovered(x, S)] /\ queue' = q /\ turn' = next
        /\ UNCHANGED <<session, active, outside, answers, request, killing>>
  BY DEF Discover
<1>3. S \subseteq Member /\ \A p \in S : proc[active][p] # "none"
  BY DEF InGroup
<1>4. PICK y : y = Discovered(x, S)
  OBVIOUS
<1>5. /\ y \in AppType /\ y.handles = x.handles \cup S /\ y.observed = x.observed \cup S
      /\ y.pending = x.pending \cup S /\ y.marks = x.marks
      /\ y.state = x.state /\ y.authorized = x.authorized /\ y.completed = x.completed
      /\ y.settled = x.settled /\ y.child = x.child /\ y.process = x.process /\ y.dirty = x.dirty
  BY <1>1, <1>3, <1>4 DEF Discovered, AppType
<1>6. Held(active, y)
  BY <1>1, <1>3, <1>5 DEF Held
<1>7. session = "up" /\ ~failure => OnRecord(active, y, q)
  BY <1>1, <1>5 DEF OnRecord
<1>8. cursor \in CursorType /\ sent \subseteq Member \X Signals \X {1}
      /\ (cursor.on => \A s \in sent : s[2] = cursor.phase /\ x.marks[s[1]] = cursor.phase)
  <2>1. x.marks = app[active].marks
    BY DEF Begun
  <2>2. cursor \in CursorType /\ sent \subseteq Member \X Signals \X {1}
    BY DEF IInv, Types
  <2> QED
    BY <2>1, <2>2 DEF IInv, Requesting, Killing
<1>9. UNCHANGED <<session, active, outside, answers, request, promised>> /\ UNCHANGED <<cursor, sent>>
  BY <1>2 DEF killing
<1> QED
  BY ZenonT(60), <1>2, <1>4, <1>5, <1>6, <1>7, <1>8, <1>9, HalfStep

LEMMA ScanStep == ASSUME IInv, First \/ Second PROVE IInv'
PROOF
<1>1. CASE First
  <2>1. active # 0
    BY <1>1 DEF First, IInv, Stages
  <2>2. PICK x, q : /\ x = Toggled(app[active])
                    /\ q = IF app[active].pending = {} THEN queue ELSE Append(queue, Batch(active))
    OBVIOUS
  <2>3. Begun(x, q)
    BY <2>1, <2>2, BegunFirst
  <2>4. Reap(x, q, "second") \/ Discover(x, q, "second")
    BY <1>1, <2>2 DEF First
  <2> QED
    BY <2>1, <2>3, <2>4, ReapStep, DiscoverStep
<1>2. CASE Second
  <2>1. active # 0
    BY <1>2 DEF Second, IInv, Stages
  <2>2. PICK x, q : x = app[active] /\ q = queue
    OBVIOUS
  <2>3. Begun(x, q)
    BY <2>1, <2>2, BegunSecond
  <2>4. Reap(x, q, "publish") \/ Discover(x, q, "publish")
    BY <1>2, <2>2 DEF Second
  <2> QED
    BY <2>1, <2>3, <2>4, ReapStep, DiscoverStep
<1> QED
  BY <1>1, <1>2

\* The end of scan_turn, with what is saved and told.
LEMMA PublishStep == ASSUME IInv, Publish PROVE IInv'
PROOF
<1> USE DEF outside, answers, request
<1>1. PICK a \in App : /\ a = active /\ Owned(a) /\ app[a].state # "none" /\ ~app[a].completed
                       /\ app[a] \in AppType
  BY ActiveOwned DEF Publish, IInv, Stages
<1>2. PICK x \in AppType : x = app[a]
  BY <1>1
<1>0. PICK flushes \in {FALSE, app[active].pending # {} /\ ~app[active].flushed},
           saves \in {FALSE, app[active].dirty}, tells \in {FALSE, cursor.on /\ cursor.dirty} :
        /\ saves \/ tells => flushes = (app[active].pending # {} /\ ~app[active].flushed)
        /\ app' = [app EXCEPT ![active] = [app[active] EXCEPT !.pending = IF flushes THEN {} ELSE @,
                                               !.dirty = @ /\ ~saves, !.flushed = FALSE]]
        /\ queue' = queue \o (IF flushes THEN <<Batch(active)>> ELSE <<>>)
                          \o (IF saves THEN <<Update("registry", active, app[active])>> ELSE <<>>)
                          \o (IF tells THEN <<Effect(cursor.phase)>> ELSE <<>>)
        /\ cursor' = IF tells /\ work.failed THEN Failed ELSE [cursor EXCEPT !.dirty = @ /\ ~tells]
  BY Zenon DEF Publish
<1>3. /\ app' = [app EXCEPT ![a] = [x EXCEPT !.pending = IF flushes THEN {} ELSE @,
                                             !.dirty = @ /\ ~saves, !.flushed = FALSE]]
      /\ queue' = queue \o (IF flushes THEN <<Batch(a)>> ELSE <<>>)
                        \o (IF saves THEN <<Update("registry", a, x)>> ELSE <<>>)
                        \o (IF tells THEN <<Effect(cursor.phase)>> ELSE <<>>)
      /\ cursor' = IF tells /\ work.failed THEN Failed ELSE [cursor EXCEPT !.dirty = @ /\ ~tells]
      /\ saves \in {FALSE, x.dirty} /\ tells \in {FALSE, cursor.on /\ cursor.dirty}
  BY <1>0, <1>1, <1>2, Zenon
<1>4. /\ turn' = "task" /\ sent' = sent /\ promised' = promised
      /\ UNCHANGED <<session, active, proc, wrote, ran, disk, named, failure, work, clock, gate>>
  BY DEF Publish
<1>5. queue \in Seq(RecordType) /\ cursor \in CursorType
  BY DEF IInv, Types
<1>6. saves \in BOOLEAN /\ tells \in BOOLEAN /\ (saves => x.dirty) /\ (tells => cursor.on)
  <2>1. x.dirty \in BOOLEAN /\ cursor.on \in BOOLEAN /\ cursor.dirty \in BOOLEAN
    BY <1>5 DEF AppType, CursorType
  <2> QED
    BY <1>3, <2>1
<1>7. PICK rb, ru, re : rb = Batch(a) /\ ru = Update("registry", a, x) /\ re = Effect(cursor.phase)
  OBVIOUS
<1>8. /\ rb \in RecordType /\ rb.app = a /\ rb.by = "registry" /\ rb.what = "batch" /\ rb.ids = x.pending
      /\ ru \in RecordType /\ ru.app = a /\ ru.by = "registry" /\ ru.what = x.state
      /\ re \in RecordType /\ re.app = 0 /\ Effective(re) /\ re.what = cursor.phase
  BY <1>2, <1>5, <1>7 DEF Batch, Update, Effect, Record, RecordType, AppType, CursorType,
       Effective, Member, States, Terminal
<1>9. PICK qa : qa = queue \o (IF flushes THEN <<rb>> ELSE <<>>)
  OBVIOUS
<1>10. /\ qa \in Seq(RecordType) /\ Extends(queue, qa) /\ (\A i \in New(queue, qa) : flushes /\ qa[i] = rb)
       /\ (flushes => \E i \in New(queue, qa) : qa[i] = rb)
  <2>1. (flushes => qa = Append(queue, rb)) /\ (~flushes => qa = queue)
    BY <1>5, <1>9
  <2> QED
    BY SMTT(30), <1>5, <1>8, <2>1, MayAppend
<1>11. PICK qb : qb = qa \o (IF saves THEN <<ru>> ELSE <<>>)
  OBVIOUS
<1>12. qb \in Seq(RecordType) /\ Extends(qa, qb) /\ \A i \in New(qa, qb) : saves /\ qb[i] = ru
  <2>1. (saves => qb = Append(qa, ru)) /\ (~saves => qb = qa)
    BY <1>10, <1>11
  <2> QED
    BY <1>8, <1>10, <2>1, MayAppend
<1>13. PICK qc : qc = qb \o (IF tells THEN <<re>> ELSE <<>>)
  OBVIOUS
<1>14. /\ qc \in Seq(RecordType) /\ Extends(qb, qc) /\ (\A i \in New(qb, qc) : tells /\ qc[i] = re)
       /\ tells => qc = Append(qb, re)
  <2>1. (tells => qc = Append(qb, re)) /\ (~tells => qc = qb)
    BY <1>12, <1>13
  <2> QED
    BY <1>8, <1>12, <2>1, MayAppend
<1>15. queue' = qc
  BY <1>3, <1>7, <1>9, <1>11, <1>13, Zenon
<1>16. /\ Extends(queue, qb) /\ New(queue, qb) = New(queue, qa) \cup New(qa, qb)
       /\ \A i \in New(queue, qa) : qb[i] = qa[i]
  BY <1>5, <1>10, <1>12, ExtendTwice
<1>17. /\ Extends(queue, qc) /\ New(queue, qc) = New(queue, qb) \cup New(qb, qc)
       /\ \A i \in New(queue, qb) : qc[i] = qb[i]
  BY <1>5, <1>12, <1>14, <1>16, ExtendTwice
<1>18. \A i \in New(queue, qc) : (flushes /\ qc[i] = rb) \/ (saves /\ qc[i] = ru) \/ (tells /\ qc[i] = re)
  BY <1>10, <1>12, <1>14, <1>16, <1>17
<1>19. \A i \in DOMAIN qc : (i \in DOMAIN queue /\ qc[i] = queue[i]) \/ i \in New(queue, qc)
  BY <1>17 DEF Extends, New
<1>20. PICK d \in BOOLEAN, pend \in SUBSET Member :
         d = (x.dirty /\ ~saves) /\ pend = IF flushes THEN {} ELSE x.pending
  <2>1. x.pending \in SUBSET Member /\ {} \in SUBSET Member
    BY DEF AppType
  <2>2. PICK d \in BOOLEAN : d = (x.dirty /\ ~saves)
    OBVIOUS
  <2> QED
    BY <2>1, <2>2
<1>21. PICK y : y = [x EXCEPT !.pending = pend, !.dirty = d, !.flushed = FALSE]
  OBVIOUS
<1>22. /\ y \in AppType /\ y.pending = pend /\ y.dirty = d
       /\ y.state = x.state /\ y.authorized = x.authorized /\ y.completed = x.completed
       /\ y.settled = x.settled /\ y.child = x.child /\ y.process = x.process
       /\ y.handles = x.handles /\ y.observed = x.observed /\ y.marks = x.marks
  BY ZenonT(60), <1>20, <1>21 DEF AppType
<1>23. app' = [app EXCEPT ![a] = y]
  BY <1>3, <1>20, <1>21
<1>24. /\ Held(a, x) /\ Authorized(a, x, queue) /\ (session = "up" /\ ~failure => OnRecord(a, x, queue))
       /\ x.state # "none" /\ ~x.completed
  BY <1>1, <1>2 DEF Owned
<1>25. Held(a, y)
  BY <1>20, <1>22, <1>24, HeldSame DEF Held
<1>26. 0 # a /\ 0 \notin App
  BY ConstantsAssumption DEF App
<1>27. Authorized(a, y, qc)
  <2> SUFFICES ASSUME gate[a] = "open" PROVE Authorized(a, y, qc)
    BY DEF Authorized
  <2>1. y.authorized
    BY <1>22, <1>24 DEF Authorized
  <2>2. ASSUME Root(a) \in {"spawned", "entered", "passed"}
        PROVE  /\ disk[a] = "execution-authorized" /\ y.state = "execution-authorized"
               /\ \A i \in DOMAIN qc : qc[i].app = a => qc[i].what \in {"batch", "execution-authorized"}
    <3>1. /\ disk[a] = "execution-authorized" /\ x.state = "execution-authorized"
          /\ \A i \in DOMAIN queue : queue[i].app = a => queue[i].what \in {"batch", "execution-authorized"}
      BY <1>24, <2>2 DEF Authorized
    <3> QED
      BY <1>8, <1>18, <1>19, <1>22, <1>26, <3>1
  <2> QED
    BY <2>1, <2>2 DEF Authorized
<1>28. session = "up" /\ ~failure => OnRecord(a, y, qc)
  <2> SUFFICES ASSUME session = "up", ~failure PROVE OnRecord(a, y, qc)
    OBVIOUS
  <2>1. Listed(queue, a) \subseteq Listed(qc, a)
    BY <1>5, <1>14, <1>17, ExtendListed
  <2>2. flushes => x.pending \subseteq Listed(qc, a)
    <3> SUFFICES ASSUME flushes PROVE x.pending \subseteq Listed(qc, a)
      OBVIOUS
    <3>1. PICK i \in New(queue, qa) : qa[i] = rb
      BY <1>10
    <3>2. i \in New(queue, qc) /\ qc[i] = rb
      BY <1>16, <1>17, <3>1
    <3> QED
      BY <1>5, <1>8, <1>14, <1>17, <3>2, ExtendListed
  <2>3. x.observed \subseteq named[a] \cup Listed(queue, a) \cup x.pending
                     \cup (IF x.process /\ ~x.completed THEN {"root"} ELSE {})
    BY <1>24 DEF OnRecord
  <2> QED
    BY <1>20, <1>22, <1>24, <2>1, <2>2, <2>3 DEF OnRecord
<1>29. /\ app' \in [App -> AppType] /\ AllOwned'
       /\ \A b \in App : app[b].state # "none" => app'[b].state # "none"
       /\ \A i \in DOMAIN queue' : queue'[i].app # 0 => app'[queue'[i].app].state # "none"
  <2>1. \A i \in New(queue, qc) : qc[i].app \in {0, a}
    BY <1>8, <1>18
  <2> QED
    BY <1>1, <1>4, <1>14, <1>15, <1>17, <1>22, <1>23, <1>24, <1>25, <1>27, <1>28, <2>1,
         OneExtends
<1>30. cursor' \in CursorType /\ (cursor'.on => cursor.on /\ cursor'.phase = cursor.phase
                                             /\ cursor'.failed = cursor.failed /\ ~(tells /\ work.failed))
  BY <1>3, <1>5 DEF CursorType, Failed
<1>31. Types'
  BY <1>4, <1>14, <1>15, <1>29, <1>30 DEF IInv, Types
<1>32. Stages'
  BY <1>4, <1>29 DEF Stages
<1>33. app'[active] = y /\ app[active] = x
  BY <1>1, <1>2, <1>23 DEF IInv, Types
<1>34. Launching'
  BY <1>4, <1>22, <1>33, LaunchingKept DEF IInv, Requesting
<1>35. Asking'
  <2>1. Waiting' => Waiting
    BY <1>4 DEF Waiting, Live
  <2>2. Waiting => ~x.dirty
    BY <1>33, WaitingActive DEF IInv, Requesting, Asking
  <2>3. Waiting => \A i \in New(queue, qc) : qc[i].app = active => qc[i].what = "batch"
    BY <1>1, <1>6, <1>8, <1>18, <1>26, <2>2
  <2>4. Waiting => y.dirty = x.dirty /\ y.state = x.state
    <3>1. x.dirty \in BOOLEAN
      BY DEF AppType
    <3> QED
      BY <1>6, <1>20, <1>22, <2>2, <3>1
  <2> QED
    BY <1>4, <1>14, <1>15, <1>17, <1>33, <2>1, <2>3, <2>4, AskingKept DEF IInv, Requesting
<1>36. Promising'
  <2>1. CASE ~tells
    <3>1. \A i \in New(queue, qc) : ~Effective(qc[i])
      BY <1>8, <1>18, <2>1 DEF Effective
    <3> QED
      BY <1>4, <1>14, <1>15, <1>17, <1>30, <3>1, PromisingKept DEF IInv, Requesting
  <2>2. CASE tells
    <3>1. qc = Append(qb, re)
      BY <1>14, <2>2
    <3>2. PICK p : p = promised
      OBVIOUS
    <3>3. Promises(qc, p, cursor.phase)
      BY <1>8, <1>12, <3>1, AppendPromises
    <3>4. work.kind = "kill"
      BY <1>6, <2>2 DEF IInv, Requesting, Killing
    <3> QED
      BY <1>4, <1>15, <1>30, <3>2, <3>3, <3>4 DEF Promising
  <2> QED
    BY <1>6, <2>1, <2>2
<1>37. Killing'
  <2>1. work.kind = "kill" => app'[work.app].state # "none"
    BY <1>29 DEF IInv, Types, WorkType, Requesting, Killing
  <2> QED
    BY <1>4, <1>22, <1>30, <1>33, <2>1 DEF IInv, Requesting, Killing
<1> QED
  BY <1>29, <1>31, <1>32, <1>34, <1>35, <1>36, <1>37 DEF IInv, Requesting

LEMMA RegistryStep == ASSUME IInv, Registry PROVE IInv'
BY TickFailsStep, TurnSteps, TickObservesStep, PrepareStep, ScanStep, PublishStep
   DEF Registry

-----------------------------------------------------------------------------
(* Steps of the request.                                                     *)

\* The application that a launch holds.
LEMMA LaunchHolds ==
  ASSUME IInv, work.kind = "launch", work.phase \in Reserved
  PROVE  /\ work.app \in App /\ work.app = active /\ active # 0 /\ Owned(work.app)
         /\ app[work.app] \in AppType /\ app[work.app].state # "none"
         /\ ~app[work.app].completed /\ ~app[work.app].settled
         /\ ~cursor.on /\ sent = {}
         /\ queue \in Seq(RecordType) /\ work \in WorkType /\ work.app # 0
PROOF
<1>1. work.app = active /\ active # 0 /\ ~app[work.app].settled /\ ~cursor.on /\ sent = {}
  BY DEF IInv, Requesting, Launching, Killing
<1>2. active \in App /\ Owned(active) /\ app[active].state # "none" /\ ~app[active].completed
      /\ app[active] \in AppType
  BY <1>1, ActiveOwned
<1> QED
  BY <1>1, <1>2 DEF IInv, Types

\* A step that leaves every application alone.
LEMMA QueueChanges ==
  ASSUME IInv, NEW q \in Seq(RecordType), queue' = q, \A b \in App : Carries(queue, q, b),
         \A i \in DOMAIN q : q[i].app # 0 => app[q[i].app].state # "none",
         UNCHANGED <<session, active, app, outside, disk, named, failure, gate>>
  PROVE  AllOwned' /\ \A i \in DOMAIN queue' : queue'[i].app # 0 => app'[queue'[i].app].state # "none"
PROOF
<1>1. ASSUME NEW b \in App
      PROVE  Owned(b)'
  <2>1. Owned(b) /\ UNCHANGED <<proc, wrote, ran>>
    BY DEF IInv, AllOwned, outside
  <2> QED
    BY <2>1, OwnedOther
<1> QED
  BY <1>1 DEF AllOwned

\* An announcement of the request.
LEMMA EffectQueued ==
  ASSUME IInv, NEW what \in {"allocated", "authorized", "resolve", "term", "kill", "observe"}, NEW q,
         q = Append(queue, Effect(what))
  PROVE  /\ q \in Seq(RecordType) /\ Extends(queue, q) /\ \A i \in New(queue, q) : q[i].app = 0
         /\ \A b \in App : Carries(queue, q, b)
         /\ \A i \in DOMAIN q : q[i].app # 0 => app[q[i].app].state # "none"
         /\ \A p : Promises(q, p, what)
PROOF
<1>1. PICK r : r = Effect(what)
  OBVIOUS
<1>2. r \in RecordType /\ r.app = 0 /\ Effective(r) /\ r.what = what
  BY <1>1 DEF Effect, Record, RecordType, Effective
<1>3. queue \in Seq(RecordType)
  BY DEF IInv, Types
<1>4. q \in Seq(RecordType) /\ Extends(queue, q) /\ \A i \in New(queue, q) : q[i].app = 0
  BY <1>1, <1>2, <1>3, AppendView
<1>5. 0 \notin App
  BY ConstantsAssumption DEF App
<1>6. ASSUME NEW b \in App PROVE Carries(queue, q, b)
  BY <1>3, <1>4, <1>5, ExtendCarries
<1>7. \A i \in DOMAIN q : q[i].app # 0 => app[q[i].app].state # "none"
  <2>1. \A i \in DOMAIN q : i \in DOMAIN queue \/ i \in New(queue, q)
    BY DEF New
  <2> QED
    BY <1>4, <2>1 DEF IInv, Stages, Extends
<1>8. ASSUME NEW p PROVE Promises(q, p, what)
  <2>1. PICK o : o = queue
    OBVIOUS
  <2> QED
    BY <1>1, <1>2, <1>3, <2>1, AppendPromises
<1> QED
  BY <1>4, <1>6, <1>7, <1>8

LEMMA SubmitStep ==
  ASSUME IInv, NEW kind \in {"launch", "kill"}, NEW a \in App, Submit(kind, a)
  PROVE  IInv'
PROOF
<1> USE DEF outside, records, answers, killing
<1>1. /\ turn' = "drain" /\ work = NoWork
      /\ UNCHANGED <<session, active, app, proc, wrote, ran, queue, disk, named, failure, clock, gate>>
      /\ UNCHANGED <<cursor, sent, promised>>
  BY DEF Submit, Turned
<1>2. /\ work' = [kind |-> kind, app |-> IF kind = "kill" THEN a ELSE 0, phase |-> "prepare", failed |-> FALSE]
      /\ kind = "kill" => app[a].state # "none"
  BY DEF Submit
<1>3. work' \in WorkType
  BY <1>2 DEF WorkType
<1>4. Types'
  BY <1>1, <1>3 DEF IInv, Types
<1>5. AllOwned' /\ Stages'
  <2>1. PICK q : q = queue
    OBVIOUS
  <2>2. q \in Seq(RecordType) /\ (\A b \in App : Carries(queue, q, b))
        /\ \A i \in DOMAIN q : q[i].app # 0 => app[q[i].app].state # "none"
    BY <2>1, CarriesSame DEF IInv, Types, Stages
  <2> QED
    BY <1>1, <2>1, <2>2, QueueChanges DEF Stages
<1>6. a # 0
  BY ConstantsAssumption DEF App
<1>7. ~cursor.on /\ sent = {}
  BY <1>1 DEF IInv, Requesting, Killing, NoWork
<1>8. Requesting'
  BY <1>1, <1>2, <1>6, <1>7
     DEF Requesting, Launching, Asking, Waiting, Promising, Killing, Reserved
<1> QED
  BY <1>4, <1>5, <1>8 DEF IInv

LEMMA LaunchAllocatesStep == ASSUME IInv, LaunchAllocates PROVE IInv'
PROOF
<1>1. CASE active # 0
  <2>1. /\ Observe(active) /\ UNCHANGED <<session, outside, answers, work, gate, sent, promised>>
        /\ clock' = clock /\ turn' = "drain"
    BY <1>1 DEF LaunchAllocates, Phase, Turned
  <2>2. clock' \in 0 .. 2
    BY <2>1 DEF IInv, Types
  <2> QED
    BY <1>1, <2>1, <2>2, ObserveStep
<1>2. CASE active = 0
  <2> USE DEF outside, answers
  <2>1. /\ turn' = "drain" /\ work.kind = "launch" /\ work' = [work EXCEPT !.phase = "allocating"]
        /\ queue' = Append(queue, Effect("allocated")) /\ UNCHANGED <<session, active, app, cursor>>
        /\ UNCHANGED <<proc, wrote, ran, disk, named, failure, clock, gate, sent, promised>>
        /\ work.phase = "prepare"
    BY <1>2 DEF LaunchAllocates, Phase, Turned, Steps
  <2>2. PICK q : q = Append(queue, Effect("allocated"))
    OBVIOUS
  <2>3. /\ q \in Seq(RecordType) /\ (\A b \in App : Carries(queue, q, b))
        /\ \A i \in DOMAIN q : q[i].app # 0 => app[q[i].app].state # "none"
    BY <2>2, EffectQueued
  <2>4. /\ work' \in WorkType /\ work'.kind = "launch" /\ work'.phase = "allocating" /\ work'.app = work.app
    BY <2>1 DEF IInv, Types, WorkType
  <2>5. Types'
    BY <2>1, <2>2, <2>3, <2>4 DEF IInv, Types
  <2>6. AllOwned' /\ Stages'
    BY <2>1, <2>2, <2>3, QueueChanges DEF Stages
  <2>7. ~cursor.on /\ sent = {} /\ work.app = 0
    BY <2>1 DEF IInv, Requesting, Killing, Launching
  <2>8. Requesting'
    BY <2>1, <2>4, <2>7 DEF Requesting, Launching, Asking, Waiting, Promising, Killing,
         Reserved
  <2> QED
    BY <2>5, <2>6, <2>8 DEF IInv
<1> QED
  BY <1>1, <1>2

\* What is reserved was not born.
LEMMA ReservedHeld ==
  ASSUME IInv, NEW a \in App, Reservable(a), NEW y, y.state = "prepared",
         y.authorized = FALSE, y.completed = FALSE, y.child = "none", y.process = FALSE,
         y.handles = {}, y.observed = {}, y.pending = {}
  PROVE  /\ active = 0 /\ app[a] = Unborn /\ Held(a, y) /\ \A q : Authorized(a, y, q) /\ OnRecord(a, y, q)
         /\ \A i \in DOMAIN queue : queue[i].app # a
PROOF
<1>1. active = 0 /\ app[a].state = "none"
  BY ConstantsAssumption DEF Reservable, App
<1>2. app[a] = Unborn /\ Owned(a)
  BY <1>1 DEF IInv, AllOwned, Owned, Held
<1>3. Root(a) = "none" /\ "root" \notin Live(a)
  BY <1>2 DEF Owned, Held, Unborn
<1>4. Held(a, y)
  BY <1>3 DEF Held
<1>5. gate[a] # "open"
  BY <1>2 DEF Owned, Authorized, Unborn
<1>6. \A q : Authorized(a, y, q) /\ OnRecord(a, y, q)
  BY <1>5 DEF Authorized, OnRecord
<1>7. \A i \in DOMAIN queue : queue[i].app # a
  BY <1>1, ConstantsAssumption DEF IInv, Stages, App
<1> QED
  BY <1>1, <1>2, <1>4, <1>6, <1>7

LEMMA LaunchReservesStep == ASSUME IInv, LaunchReserves PROVE IInv'
PROOF
<1> USE DEF outside, answers, killing
<1>1. PICK a \in App :
        /\ Reservable(a) /\ active' = a /\ app' = [app EXCEPT ![a].state = "prepared"]
        /\ queue' = Append(queue, Record("request", a, "prepared", {}))
        /\ work' = [work EXCEPT !.phase = "preparing", !.app = a]
  BY DEF LaunchReserves
<1>2. /\ turn' = "drain" /\ work.kind = "launch"
      /\ UNCHANGED <<session, proc, wrote, ran, disk, named, failure, clock, gate, cursor, sent, promised>>
  BY DEF LaunchReserves, Phase, Turned
<1>3. PICK y : y = [Unborn EXCEPT !.state = "prepared"]
  OBVIOUS
<1>4. /\ y \in AppType /\ y.state = "prepared" /\ y.authorized = FALSE /\ y.completed = FALSE
      /\ y.child = "none" /\ y.process = FALSE /\ y.settled = FALSE /\ y.dirty = FALSE
      /\ y.handles = {} /\ y.observed = {} /\ y.pending = {}
  BY <1>3 DEF Unborn, AppType, States
<1>5. /\ active = 0 /\ app[a] = Unborn /\ Held(a, y) /\ \A q : Authorized(a, y, q) /\ OnRecord(a, y, q)
  BY <1>1, <1>4, ReservedHeld
<1>6. \A i \in DOMAIN queue : queue[i].app # a
  BY <1>1, <1>4, ReservedHeld
<1>7. app' = [app EXCEPT ![a] = y]
  BY <1>1, <1>3, <1>5
<1>8. PICK q, r : r = Record("request", a, "prepared", {}) /\ q = Append(queue, r)
  OBVIOUS
<1>9. r \in RecordType /\ r.app = a /\ r.by = "request" /\ r.what = "prepared"
  BY <1>8 DEF Record, RecordType, States
<1>10. queue \in Seq(RecordType)
  BY DEF IInv, Types
<1>11. /\ q \in Seq(RecordType) /\ Extends(queue, q) /\ \A i \in New(queue, q) : q[i] = r
  BY <1>8, <1>9, <1>10, AppendView
<1>12. /\ app' \in [App -> AppType] /\ AllOwned'
       /\ \A b \in App : app[b].state # "none" => app'[b].state # "none"
       /\ \A i \in DOMAIN queue' : queue'[i].app # 0 => app'[queue'[i].app].state # "none"
  BY <1>1, <1>2, <1>4, <1>5, <1>7, <1>8, <1>9, <1>11, OneExtends
<1>13. work' \in WorkType /\ work'.kind = "launch" /\ work'.phase = "preparing" /\ work'.app = a
  BY <1>1, <1>2 DEF IInv, Types, WorkType
<1>14. Types'
  BY <1>1, <1>2, <1>8, <1>11, <1>12, <1>13 DEF IInv, Types
<1>15. Stages'
  BY <1>2, <1>12 DEF Stages
<1>16. a # 0 /\ app'[a] = y
  <2>1. a # 0
    BY ConstantsAssumption DEF App
  <2> QED
    BY <1>7, <2>1 DEF IInv, Types
<1>17. Launching'
  BY <1>1, <1>4, <1>13, <1>16 DEF Launching, Reserved
<1>18. Asking'
  <2>1. \A i \in DOMAIN q : q[i].app = a => q[i].by = "request"
    BY <1>6, <1>9, <1>11 DEF Extends, New
  <2> QED
    BY ZenonT(60), <1>1, <1>4, <1>8, <1>13, <1>16, <2>1 DEF Asking
<1>19. ~cursor.on /\ sent = {}
  BY <1>2 DEF IInv, Requesting, Killing
<1>20. Promising' /\ Killing'
  BY <1>2, <1>13, <1>19 DEF Promising, Killing
<1> QED
  BY <1>12, <1>14, <1>15, <1>17, <1>18, <1>20 DEF IInv, Requesting

LEMMA LaunchUnrecordedStep == ASSUME IInv, LaunchUnrecorded PROVE IInv'
PROOF
<1>1. PICK a \in App :
        /\ Reservable(a) /\ active' = a
        /\ EndsWith(a, [app EXCEPT ![a].state = "prepared", ![a].uncertain = TRUE], queue)
  BY DEF LaunchUnrecorded
<1>2. turn' = "drain" /\ UNCHANGED <<session, disk, named, failure>>
  BY DEF LaunchUnrecorded, Phase, Turned
<1>3. PICK y : y = [Unborn EXCEPT !.state = "prepared", !.uncertain = TRUE]
  OBVIOUS
<1>4. /\ y \in AppType /\ y.state = "prepared" /\ y.authorized = FALSE /\ y.completed = FALSE
      /\ y.child = "none" /\ y.process = FALSE
      /\ y.handles = {} /\ y.observed = {} /\ y.pending = {}
  BY <1>3 DEF Unborn, AppType, States
<1>5. PICK q : q = queue
  OBVIOUS
<1>6. /\ active = 0 /\ app[a] = Unborn /\ Held(a, y) /\ Authorized(a, y, q) /\ OnRecord(a, y, q)
  BY <1>1, <1>4, ReservedHeld
<1>7. [app EXCEPT ![a].state = "prepared", ![a].uncertain = TRUE] = [app EXCEPT ![a] = y]
  BY <1>3, <1>6 DEF IInv, Types
<1>8. q \in Seq(RecordType) /\ Extends(queue, q) /\ New(queue, q) = {}
  BY <1>5, ExtendSame DEF IInv, Types
<1>9. EndsWith(a, [app EXCEPT ![a] = y], q) /\ session' \in {"up", "stopping"}
      /\ (session' = "up" => session = "up")
  BY <1>1, <1>2, <1>5, <1>7 DEF IInv, Types
<1> QED
  BY <1>1, <1>2, <1>4, <1>6, <1>8, <1>9, EndsChange

LEMMA LaunchSpawnsStep == ASSUME IInv, LaunchSpawns PROVE IInv'
PROOF
<1> USE DEF outside, records, answers, killing
<1>1. work.kind = "launch" /\ work.phase = "preparing" /\ ~work.failed /\ turn' = "drain"
  BY DEF LaunchSpawns, Phase, Turned
<1>2. PICK a \in App :
        /\ a = work.app /\ a = active /\ a # 0 /\ Owned(a)
        /\ app[a] \in AppType /\ app[a].state # "none" /\ ~app[a].completed /\ ~app[a].settled
        /\ ~cursor.on /\ sent = {} /\ queue \in Seq(RecordType) /\ work \in WorkType
  BY <1>1, LaunchHolds DEF Reserved
<1>3. /\ work' = [work EXCEPT !.phase = "ready"] /\ app' = [app EXCEPT ![a].child = "alive"]
      /\ gate' = [gate EXCEPT ![a] = "shut"] /\ proc' = [proc EXCEPT ![a]["root"] = "spawned"]
      /\ UNCHANGED <<session, active, wrote, ran, queue, disk, named, failure, clock, cursor, sent, promised>>
  BY <1>2 DEF LaunchSpawns, Phase, Turned, Steps, Becomes
<1>4. PICK x \in AppType : x = app[a]
  BY <1>2
<1>5. PICK y : y = [x EXCEPT !.child = "alive"]
  OBVIOUS
<1>6. /\ y \in AppType /\ y.child = "alive" /\ y.state = x.state /\ y.authorized = x.authorized
      /\ y.completed = x.completed /\ y.settled = x.settled /\ y.process = x.process /\ y.dirty = x.dirty
      /\ y.handles = x.handles /\ y.observed = x.observed /\ y.pending = x.pending /\ y.marks = x.marks
  BY <1>5 DEF AppType
<1>7. app' \in [App -> AppType] /\ app'[a] = y /\ \A b \in App \ {a} : app'[b] = app[b]
  BY <1>3, <1>4, <1>5, <1>6 DEF IInv, Types
<1>8. "root" \in Member /\ "root" \notin Kids
  BY ConstantsAssumption DEF Member
<1>9. /\ proc' \in [App -> [Member -> OfHelper \cup Unmoved]]
      /\ proc'[a]["root"] = "spawned" /\ (\A p \in Member \ {"root"} : proc'[a][p] = proc[a][p])
      /\ \A b \in App \ {a} : proc'[b] = proc[b]
  BY <1>3, <1>8 DEF IInv, Types, OfHelper
<1>10. /\ gate' \in [App -> {"none", "shut", "open", "closed"}] /\ gate'[a] = "shut"
       /\ \A b \in App \ {a} : gate'[b] = gate[b]
  BY <1>3 DEF IInv, Types
<1>11. /\ work' \in WorkType /\ work'.kind = "launch" /\ work'.phase = "ready" /\ work'.app = a
       /\ ~work'.failed
  BY <1>1, <1>2, <1>3 DEF WorkType
<1>12. Types'
  BY <1>1, <1>3, <1>7, <1>9, <1>10, <1>11 DEF IInv, Types
<1>13. ASSUME NEW b \in App \ {a}
       PROVE  Owned(b)'
  BY <1>3, <1>7, <1>9, <1>10, CarriesSame, OwnedOther DEF IInv, AllOwned
<1>14. x.child = "none"
  BY <1>1, <1>2, <1>4 DEF IInv, Requesting, Launching, Reserved
<1>15. Held(a, x) /\ HelperTrue(a) /\ Root(a) = "none" /\ x.state # "none" /\ ~x.completed
  BY <1>2, <1>4, <1>14 DEF Owned, Held
<1>16. HelperTrue(a)'
  BY <1>3, <1>8, <1>9, <1>15 DEF HelperTrue, Root, OfHelper, Member
<1>17. Held(a, app[a])'
  <2>1. \A p \in x.observed : p \in Member /\ p # "root" /\ proc[a][p] # "none"
    BY <1>15 DEF Held, AppType, Root
  <2>2. \A p \in y.observed : proc'[a][p] # "none" /\ (p \in Live(a)' => p \in y.handles)
    BY <1>6, <1>9, <1>15, <2>1 DEF Held, Live
  <2> QED
    BY <1>6, <1>7, <1>15, <2>2 DEF Held
<1>18. Authorized(a, app[a], queue)'
  BY <1>10 DEF Authorized
<1>19. (session = "up" /\ ~failure => OnRecord(a, app[a], queue))'
  <2>1. session = "up" /\ ~failure => OnRecord(a, x, queue)
    BY <1>2, <1>4 DEF Owned
  <2> QED
    BY <1>3, <1>6, <1>7, <1>15, <2>1 DEF OnRecord
<1>20. Owned(a)'
  BY <1>2, <1>3, <1>6, <1>7, <1>15, <1>16, <1>17, <1>18, <1>19 DEF Owned
<1>21. Stages'
  <2>1. \A i \in DOMAIN queue : queue[i].app \in App \cup {0}
    BY <1>2 DEF RecordType
  <2> QED
    BY <1>1, <1>3, <1>6, <1>7, <1>15, <2>1 DEF IInv, Stages
<1>22. Launching'
  BY <1>2, <1>3, <1>4, <1>6, <1>7, <1>10, <1>11 DEF Launching, Reserved
<1>23. Asking'
  <2>1. Waiting
    BY <1>1 DEF Waiting
  <2>2. ~x.dirty /\ \A i \in DOMAIN queue : queue[i].app = a /\ queue[i].what # "batch" => queue[i].by = "request"
    BY <1>2, <1>4, <2>1 DEF IInv, Requesting, Asking
  <2> QED
    BY <1>3, <1>6, <1>7, <1>11, <2>2 DEF Asking
<1>24. Promising' /\ Killing'
  BY <1>2, <1>3, <1>11 DEF Promising, Killing
<1> QED
  BY <1>12, <1>13, <1>20, <1>21, <1>22, <1>23, <1>24 DEF IInv, AllOwned, Requesting

Joined(q, r, s, t) == q \o <<r, s, t>>

\* q1 is q with the records r, s and t after it.
Three(q, r, s, t, q1) ==
  /\ q1 \in Seq(RecordType) /\ Extends(q, q1) /\ Len(q) \in Nat
  /\ New(q, q1) = {Len(q) + 1, Len(q) + 2, Len(q) + 3}
  /\ q1[Len(q) + 1] = r /\ q1[Len(q) + 2] = s /\ q1[Len(q) + 3] = t

LEMMA ThreeView ==
  ASSUME NEW q \in Seq(RecordType), NEW r \in RecordType, NEW s \in RecordType, NEW t \in RecordType
  PROVE  Three(q, r, s, t, Joined(q, r, s, t))
BY DEF Three, Extends, New, Joined

LEMMA LaunchAsksStep == ASSUME IInv, LaunchAsks PROVE IInv'
PROOF
<1> USE DEF outside, answers, killing
<1>1. /\ work.kind = "launch" /\ work.phase = "ready" /\ ~work.failed /\ turn' = "drain"
      /\ UNCHANGED <<session, active, proc, wrote, ran, disk, named, failure, clock, gate>>
      /\ UNCHANGED <<cursor, sent, promised>>
  BY DEF LaunchAsks, Phase, Turned
<1>2. PICK a \in App :
        /\ a = work.app /\ a = active /\ a # 0 /\ Owned(a)
        /\ app[a] \in AppType /\ app[a].state # "none" /\ ~app[a].completed /\ ~app[a].settled
        /\ ~cursor.on /\ sent = {} /\ queue \in Seq(RecordType) /\ work \in WorkType
  BY <1>1, LaunchHolds DEF Reserved
<1>3. PICK x \in AppType : x = app[a]
  BY <1>2
<1>4. PICK x1, y : x1 = Authorizing(x) /\ y = [x1 EXCEPT !.state = "execution-authorized"]
  OBVIOUS
<1>5. /\ x1 \in AppType /\ x1.state = x.state
      /\ y \in AppType /\ y.state = "execution-authorized" /\ y.process /\ ~y.dirty
      /\ y.handles = x.handles \cup {"root"} /\ y.observed = x.observed \cup {"root"}
      /\ y.authorized = x.authorized /\ y.completed = x.completed /\ y.settled = x.settled
      /\ y.child = x.child /\ y.pending = x.pending /\ y.marks = x.marks
  BY <1>4 DEF Authorizing, AppType, States, Member
<1>6. PICK r, s, t : r = Update("request", a, x1) /\ s = Update("request", a, y) /\ t = Effect("authorized")
  OBVIOUS
<1>7. /\ r \in RecordType /\ r.app = a /\ r.by = "request"
      /\ s \in RecordType /\ s.app = a /\ s.by = "request" /\ s.what = "execution-authorized"
      /\ t \in RecordType /\ t.app = 0 /\ Effective(t) /\ t.what = "authorized"
  <2>1. x1.state \in States /\ x1.process \in BOOLEAN /\ "root" \in Member /\ "batch" \notin States
    BY <1>5 DEF AppType, Member, States, Terminal
  <2>2. r \in RecordType /\ r.app = a /\ r.by = "request"
    BY <1>6, <2>1 DEF Update, Record, RecordType
  <2>3. s \in RecordType /\ s.app = a /\ s.by = "request" /\ s.what = "execution-authorized"
    BY <1>5, <1>6, <2>1 DEF Update, Record, RecordType, States
  <2>4. t \in RecordType /\ t.app = 0 /\ Effective(t) /\ t.what = "authorized"
    BY <1>6 DEF Effect, Record, RecordType, Effective
  <2> QED
    BY <2>2, <2>3, <2>4
<1>8. PICK q : q = Joined(queue, r, s, t)
  OBVIOUS
<1>9. PICK o, l : o = queue /\ l = Len(queue)
  OBVIOUS
<1>10. /\ q \in Seq(RecordType) /\ Extends(o, q) /\ l \in Nat /\ New(o, q) = {l + 1, l + 2, l + 3}
       /\ q[l + 1] = r /\ q[l + 2] = s /\ q[l + 3] = t
  <2>1. /\ q \in Seq(RecordType) /\ Extends(queue, q) /\ Len(queue) \in Nat
        /\ New(queue, q) = {Len(queue) + 1, Len(queue) + 2, Len(queue) + 3}
        /\ q[Len(queue) + 1] = r /\ q[Len(queue) + 2] = s /\ q[Len(queue) + 3] = t
    <3>1. queue \in Seq(RecordType) /\ r \in RecordType /\ s \in RecordType /\ t \in RecordType
      BY <1>2, <1>7
    <3>2. PICK p : p = queue
      OBVIOUS
    <3>3. Three(p, r, s, t, Joined(p, r, s, t))
      BY <3>1, <3>2, ThreeView
    <3> QED
      BY <1>8, <3>2, <3>3 DEF Three
  <2> QED
    BY <1>9, <2>1
<1>11. /\ app' = [app EXCEPT ![a] = y] /\ queue' = q /\ work' = [work EXCEPT !.phase = "authorizing"]
       /\ proc[a]["root"] \in {"entered", "passed", "program", "dying"} /\ "root" \in Member
  BY <1>2, <1>3, <1>4, <1>6, <1>8 DEF LaunchAsks, Steps, InGroup, Joined
<1>12. /\ Held(a, x) /\ HelperTrue(a) /\ x.state # "none" /\ ~x.completed
       /\ session = "up" /\ ~failure => OnRecord(a, x, queue)
  BY <1>2, <1>3 DEF Owned
<1>13. Held(a, y)
  <2>1. \A p \in y.observed : proc[a][p] # "none" /\ (p \in Live(a) => p \in y.handles)
    BY <1>5, <1>11, <1>12 DEF Held
  <2> QED
    BY <1>5, <1>12, <2>1 DEF Held
<1>14. Authorized(a, y, q)
  <2>1. gate[a] = "shut"
    BY <1>1, <1>2 DEF IInv, Requesting, Launching, Reserved
  <2> QED
    BY <2>1 DEF Authorized
<1>15. session = "up" /\ ~failure => OnRecord(a, y, q)
  <2>1. Listed(o, a) \subseteq Listed(q, a)
    BY <1>2, <1>9, <1>10, ExtendListed
  <2> QED
    BY <1>5, <1>9, <1>12, <2>1 DEF OnRecord
<1>16. /\ app' \in [App -> AppType] /\ AllOwned'
       /\ \A b \in App : app[b].state # "none" => app'[b].state # "none"
       /\ \A i \in DOMAIN queue' : queue'[i].app # 0 => app'[queue'[i].app].state # "none"
  <2>1. \A i \in New(queue, q) : q[i].app \in {0, a}
    BY <1>7, <1>9, <1>10
  <2> QED
    BY <1>1, <1>2, <1>5, <1>9, <1>10, <1>11, <1>12, <1>13, <1>14, <1>15, <2>1, OneExtends
<1>17. /\ work' \in WorkType /\ work'.kind = "launch" /\ work'.phase = "authorizing" /\ work'.app = a
       /\ ~work'.failed
  BY <1>1, <1>2, <1>11 DEF WorkType
<1>18. Types'
  BY <1>1, <1>10, <1>11, <1>16, <1>17 DEF IInv, Types
<1>19. Stages'
  BY <1>1, <1>16 DEF Stages
<1>20. app'[a] = y
  BY <1>11 DEF IInv, Types
<1>21. Launching'
  BY <1>1, <1>2, <1>3, <1>5, <1>17, <1>20 DEF IInv, Requesting, Launching, Reserved
<1>22. Asking'
  <2>1. Waiting
    BY <1>1, <1>2, <1>11 DEF Waiting, Live, Dead
  <2>2. \A i \in DOMAIN queue : queue[i].app = a /\ queue[i].what # "batch" => queue[i].by = "request"
    BY <1>2, <2>1 DEF IInv, Requesting, Asking
  <2>3. \A i \in DOMAIN q : i \in DOMAIN o \/ i \in {l + 1, l + 2, l + 3}
    BY <1>10 DEF New
  <2>4. ASSUME NEW i \in DOMAIN q, q[i].app = a, q[i].what # "batch"
        PROVE  q[i].by = "request"
    <3>1. CASE i \in DOMAIN o
      <4>1. q[i] = queue[i] /\ i \in DOMAIN queue
        BY <1>9, <1>10, <3>1 DEF Extends
      <4> QED
        BY <2>2, <2>4, <4>1
    <3>2. CASE i \in {l + 1, l + 2, l + 3}
      <4>1. q[i] \in {r, s, t}
        BY <1>10, <3>2
      <4> QED
        BY <1>2, <1>7, <2>4, <4>1
    <3> QED
      BY <2>3, <3>1, <3>2
  <2>5. PICK d, k : d = disk[a] /\ k = l + 2
    OBVIOUS
  <2>6. k \in New(o, q) /\ q[k] = s /\ \A j \in New(o, q) : j > k => q[j] = t
    BY <1>10, <2>5
  <2>7. Ends(q, d, a, {"execution-authorized"}, "request")
    <3>1. q[k].app = a /\ q[k].what \in {"execution-authorized"} /\ q[k].by = "request"
      BY <1>7, <2>6
    <3>2. \A j \in New(o, q) : j > k /\ q[j].app = a => q[j].what = "batch"
      BY <1>2, <1>7, <2>6
    <3>3. o \in Seq(RecordType) /\ q \in Seq(RecordType) /\ Extends(o, q) /\ k \in New(o, q)
      BY <1>2, <1>9, <1>10, <2>6
    <3> QED
      BY <3>1, <3>2, <3>3, ExtendEndsNew
  <2> QED
    BY <1>1, <1>5, <1>11, <1>17, <1>20, <2>4, <2>5, <2>7 DEF Asking
<1>23. Promising'
  <2>1. PICK p, k : p = promised /\ k = l + 3
    OBVIOUS
  <2>2. k \in New(o, q) /\ q[k] = t /\ \A j \in New(o, q) : ~(j > k)
    BY <1>10, <2>1
  <2>3. Promises(q, p, "authorized")
    BY <1>2, <1>7, <1>9, <1>10, <2>2, ExtendPromisesNew
  <2> QED
    BY <1>1, <1>2, <1>11, <1>17, <2>1, <2>3 DEF Promising
<1>24. Killing'
  BY <1>1, <1>2, <1>17 DEF Killing
<1> QED
  BY <1>16, <1>18, <1>19, <1>21, <1>22, <1>23, <1>24 DEF IInv, Requesting

\* When the records of the request are written, its intent to run the program is on disk.
LEMMA IntentOnDisk ==
  ASSUME IInv, Phase("launch", "authorizing"), Recorded, "root" \in Live(work.app)
  PROVE  /\ app[work.app].state = "execution-authorized"
         /\ disk[work.app] = "execution-authorized"
         /\ \A i \in DOMAIN queue : queue[i].app = work.app => queue[i].what = "batch"
PROOF
<1>1. Waiting /\ work.phase = "authorizing"
  BY DEF Phase, Waiting
<1>2. /\ app[work.app].state = "execution-authorized"
      /\ Ends(queue, disk[work.app], work.app, {"execution-authorized"}, "request")
  BY <1>1 DEF IInv, Requesting, Asking
<1>3. \A i \in DOMAIN queue : queue[i].by # "request"
  BY DEF Recorded
<1> QED
  BY <1>2, <1>3 DEF Ends

LEMMA LaunchOpensStep == ASSUME IInv, LaunchOpens PROVE IInv'
PROOF
<1> USE DEF outside, answers, killing
<1>1. /\ work.kind = "launch" /\ work.phase = "authorizing" /\ ~work.failed /\ turn' = "drain"
      /\ UNCHANGED <<session, active, disk, named, failure>> /\ Recorded /\ Phase("launch", "authorizing")
  BY DEF LaunchOpens, Phase, Turned
<1>2. PICK a \in App :
        /\ a = work.app /\ a = active /\ a # 0 /\ Owned(a)
        /\ app[a] \in AppType /\ app[a].state # "none" /\ ~app[a].completed /\ ~app[a].settled
        /\ ~cursor.on /\ sent = {} /\ queue \in Seq(RecordType) /\ work \in WorkType
  BY <1>1, LaunchHolds DEF Reserved
<1>3. PICK x \in AppType : x = app[a]
  BY <1>2
<1>4. PICK y : y = [x EXCEPT !.authorized = TRUE]
  OBVIOUS
<1>5. /\ y \in AppType /\ y.state = x.state /\ y.authorized /\ y.process = x.process /\ y.dirty = x.dirty
      /\ y.completed = x.completed /\ y.settled = x.settled /\ y.child = x.child
      /\ y.handles = x.handles /\ y.observed = x.observed /\ y.pending = x.pending /\ y.marks = x.marks
  BY <1>4 DEF AppType
<1>6. /\ Held(a, x) /\ HelperTrue(a) /\ x.state # "none" /\ ~x.completed
      /\ session = "up" /\ ~failure => OnRecord(a, x, queue)
  BY <1>2, <1>3 DEF Owned
<1>7. x.process /\ gate[a] = "shut" /\ ~x.settled
  BY <1>1, <1>2, <1>3 DEF IInv, Requesting, Launching, Reserved
<1>8. Held(a, y)
  BY <1>5, <1>6, <1>7 DEF Held
<1>9. session = "up" /\ ~failure => OnRecord(a, y, queue)
  BY <1>5, <1>6, OnRecordSame
<1>10. [app EXCEPT ![a].authorized = TRUE] = [app EXCEPT ![a] = y]
  BY <1>3, <1>4
<1>11. CASE "root" \notin Live(a)
  <2>1. EndsWith(a, [app EXCEPT ![a] = y], queue)
    BY <1>2, <1>10, <1>11 DEF LaunchOpens
  <2>2. PICK q : q = queue
    OBVIOUS
  <2>3. q \in Seq(RecordType) /\ Extends(queue, q) /\ New(queue, q) = {}
    BY <1>2, <2>2, ExtendSame
  <2>4. Authorized(a, y, q)
    BY <1>7 DEF Authorized
  <2>5. EndsWith(a, [app EXCEPT ![a] = y], q) /\ (session = "up" /\ ~failure => OnRecord(a, y, q))
    BY <1>9, <2>1, <2>2
  <2>6. session' \in {"up", "stopping"}
    BY <1>1 DEF IInv, Types
  <2> QED
    BY <1>1, <1>2, <1>5, <1>6, <1>8, <2>3, <2>4, <2>5, <2>6, EndsChange
<1>12. CASE "root" \in Live(a)
  <2>1. /\ app' = [app EXCEPT ![a] = y] /\ gate' = [gate EXCEPT ![a] = "open"]
        /\ work' = [work EXCEPT !.phase = "exec"]
        /\ UNCHANGED <<proc, wrote, ran, queue, clock, cursor, sent, promised>>
    BY <1>2, <1>10, <1>12 DEF LaunchOpens, Steps
  <2>2. app' \in [App -> AppType] /\ app'[a] = y /\ \A b \in App \ {a} : app'[b] = app[b]
    BY <1>5, <2>1 DEF IInv, Types
  <2>3. /\ gate' \in [App -> {"none", "shut", "open", "closed"}] /\ gate'[a] = "open"
        /\ \A b \in App \ {a} : gate'[b] = gate[b]
    BY <2>1 DEF IInv, Types
  <2>4. /\ work' \in WorkType /\ work'.kind = "launch" /\ work'.phase = "exec" /\ work'.app = a
    BY <1>1, <1>2, <2>1 DEF WorkType
  <2>5. Types'
    BY <1>1, <2>1, <2>2, <2>3, <2>4 DEF IInv, Types
  <2>6. ASSUME NEW b \in App \ {a}
        PROVE  Owned(b)'
    BY <1>1, <2>1, <2>2, <2>3, CarriesSame, OwnedOther DEF IInv, AllOwned
  <2>7. HelperTrue(a)'
    BY <1>6, <1>7, <2>1, <2>3 DEF HelperTrue, Root
  <2>8. Held(a, app[a])'
    BY <1>8, <2>1, <2>2 DEF Held, Live, Moved, Root
  <2>9. Authorized(a, app[a], queue)'
    <3>1. /\ x.state = "execution-authorized" /\ disk[a] = "execution-authorized"
          /\ \A i \in DOMAIN queue : queue[i].app = a => queue[i].what = "batch"
      BY <1>1, <1>2, <1>3, <1>12, IntentOnDisk
    <3> QED
      BY <1>1, <1>5, <2>1, <2>2, <3>1 DEF Authorized
  <2>10. (session = "up" /\ ~failure => OnRecord(a, app[a], queue))'
    BY <1>1, <1>9, <2>1, <2>2 DEF OnRecord
  <2>11. Owned(a)'
    BY <1>1, <1>2, <1>5, <1>6, <2>2, <2>7, <2>8, <2>9, <2>10 DEF Owned
  <2>12. Stages'
    <3>1. \A i \in DOMAIN queue : queue[i].app \in App \cup {0}
      BY <1>2 DEF RecordType
    <3> QED
      BY <1>1, <1>5, <1>6, <2>1, <2>2, <3>1 DEF IInv, Stages
  <2>13. Launching' /\ Asking'
    BY <1>1, <1>2, <1>5, <1>7, <2>1, <2>2, <2>4 DEF Launching, Reserved, Asking, Waiting
  <2>14. Promising' /\ Killing'
    BY <1>2, <2>1, <2>4 DEF Promising, Killing
  <2> QED
    BY <2>5, <2>6, <2>11, <2>12, <2>13, <2>14 DEF IInv, AllOwned, Requesting
<1> QED
  BY <1>11, <1>12

LEMMA LaunchFailsStep == ASSUME IInv, LaunchFails PROVE IInv'
PROOF
<1> USE DEF answers
<1>1. /\ work.kind = "launch" /\ work.phase = "exec" /\ turn' = "drain"
      /\ UNCHANGED <<session, active, disk, named, failure>>
  BY DEF LaunchFails, Phase, Turned
<1>2. PICK a \in App :
        /\ a = work.app /\ a = active /\ a # 0 /\ Owned(a)
        /\ app[a] \in AppType /\ app[a].state # "none" /\ ~app[a].completed
        /\ queue \in Seq(RecordType)
  BY <1>1, LaunchHolds DEF Reserved
<1>3. PICK x \in AppType : x = app[a]
  BY <1>2
<1>4. PICK y : y = [x EXCEPT !.settled = TRUE, !.state = "launch-failed", !.dirty = FALSE]
  OBVIOUS
<1>5. /\ y \in AppType /\ y.state = "launch-failed" /\ y.authorized = x.authorized /\ y.process = x.process
      /\ y.completed = x.completed /\ y.settled /\ y.child = x.child /\ y.handles = x.handles
      /\ y.observed = x.observed /\ y.pending = x.pending
  BY <1>4 DEF AppType, States, Terminal
<1>6. PICK r, q : r = Update("request", a, y) /\ q = Append(queue, r)
  OBVIOUS
<1>7. r \in RecordType /\ r.app = a
  <2>1. "root" \in Member /\ y.state \in States \ {"batch"}
    BY <1>5 DEF Member, States, Terminal
  <2> QED
    BY <1>2, <1>6, <2>1 DEF Update, Record, RecordType
<1>8. q \in Seq(RecordType) /\ Extends(queue, q) /\ \A i \in New(queue, q) : q[i] = r
  BY <1>2, <1>6, <1>7, AppendView
<1>9. wrote[a] = "E" /\ EndsWith(a, [app EXCEPT ![a] = y], q)
  BY <1>2, <1>3, <1>4, <1>6 DEF LaunchFails
<1>10. /\ Held(a, x) /\ HelperTrue(a) /\ Authorized(a, x, queue) /\ x.state # "none" /\ ~x.completed
       /\ session = "up" /\ ~failure => OnRecord(a, x, queue)
  BY <1>2, <1>3 DEF Owned
<1>11. Held(a, y)
  BY <1>5, <1>10 DEF Held
<1>12. Authorized(a, y, q)
  BY <1>5, <1>9, <1>10 DEF Authorized, HelperTrue
<1>13. session = "up" /\ ~failure => OnRecord(a, y, q)
  <2>1. Listed(queue, a) \subseteq Listed(q, a)
    BY <1>2, <1>8, ExtendListed
  <2> QED
    BY <1>5, <1>10, <2>1 DEF OnRecord
<1>14. \A i \in New(queue, q) : q[i].app \in {0, a}
  BY <1>7, <1>8
<1>15. session' \in {"up", "stopping"}
  BY <1>1 DEF IInv, Types
<1> QED
  BY <1>1, <1>2, <1>5, <1>8, <1>9, <1>10, <1>11, <1>12, <1>13, <1>14, <1>15, EndsChange

LEMMA LaunchConfirmsStep == ASSUME IInv, LaunchConfirms PROVE IInv'
PROOF
<1> USE DEF outside, answers, killing
<1>1. /\ work.kind = "launch" /\ work.phase = "exec" /\ turn' = "drain" /\ work' = NoWork
      /\ UNCHANGED <<session, active, proc, wrote, ran, disk, named, failure, clock, gate>>
      /\ UNCHANGED <<cursor, sent, promised>>
  BY DEF LaunchConfirms, Phase, Turned
<1>2. PICK a \in App :
        /\ a = work.app /\ a = active /\ a # 0 /\ Owned(a)
        /\ app[a] \in AppType /\ app[a].state # "none" /\ ~app[a].completed
        /\ ~cursor.on /\ sent = {} /\ queue \in Seq(RecordType)
  BY <1>1, LaunchHolds DEF Reserved
<1>3. PICK x \in AppType : x = app[a]
  BY <1>2
<1>4. PICK over \in BOOLEAN : over <=> "root" \notin Live(a)
  OBVIOUS
<1>5. PICK y : y = [x EXCEPT !.settled = TRUE, !.child = IF over THEN "reaped" ELSE "alive",
                             !.state = IF over THEN "root-exited" ELSE "running", !.dirty = FALSE]
  OBVIOUS
<1>6. /\ y \in AppType /\ y.state \in {"root-exited", "running"} /\ y.authorized = x.authorized
      /\ y.process = x.process /\ y.completed = x.completed /\ y.handles = x.handles
      /\ y.observed = x.observed /\ y.pending = x.pending
      /\ y.child # "none" /\ (y.child # "alive" => over)
  BY ZenonT(60), <1>5 DEF AppType, States, Terminal
<1>7. PICK r, q : r = Update("request", a, y) /\ q = Append(queue, r)
  OBVIOUS
<1>8. r \in RecordType /\ r.app = a
  <2>1. "root" \in Member /\ y.state \in States \ {"batch"}
    BY <1>6 DEF Member, States, Terminal
  <2> QED
    BY <1>2, <1>7, <2>1 DEF Update, Record, RecordType
<1>9. q \in Seq(RecordType) /\ Extends(queue, q) /\ \A i \in New(queue, q) : q[i] = r
  BY <1>2, <1>7, <1>8, AppendView
<1>10. PICK z : z = Past(q)
  OBVIOUS
<1>11. /\ z \in Seq(RecordType) /\ DOMAIN z = DOMAIN q
       /\ \A i \in DOMAIN q : z[i].app = q[i].app
  BY <1>9, <1>10, PastView
<1>12. /\ app' = [app EXCEPT ![a] = y] /\ queue' = z /\ Closed(a)
  <2>1. [app[a] EXCEPT !.settled = TRUE, !.child = IF "root" \notin Live(a) THEN "reaped" ELSE "alive",
                       !.state = IF "root" \notin Live(a) THEN "root-exited" ELSE "running",
                       !.dirty = FALSE] = y
    BY <1>3, <1>4, <1>5
  <2> QED
    BY <1>2, <1>7, <1>10, <2>1 DEF LaunchConfirms
<1>13. /\ Held(a, x) /\ HelperTrue(a) /\ Authorized(a, x, queue) /\ x.state # "none" /\ ~x.completed
       /\ session = "up" /\ ~failure => OnRecord(a, x, queue)
  BY <1>2, <1>3 DEF Owned
<1>14. Held(a, y)
  BY <1>4, <1>6, <1>13 DEF Held
<1>15. Authorized(a, y, z)
  BY <1>6, <1>12, <1>13 DEF Authorized, Closed, Root
<1>16. session = "up" /\ ~failure => OnRecord(a, y, z)
  <2>1. Listed(queue, a) \subseteq Listed(q, a)
    BY <1>2, <1>9, ExtendListed
  <2>2. Listed(q, a) \subseteq Listed(z, a)
    BY <1>9, <1>10, CarriesSame, PastCarries DEF Carries
  <2> QED
    BY <1>6, <1>13, <2>1, <2>2 DEF OnRecord
<1>17. ASSUME NEW b \in App \ {a}
       PROVE  Carries(queue, z, b)
  <2>1. \A i \in New(queue, q) : q[i].app = b => q[i].what = "batch"
    BY <1>8, <1>9
  <2>2. Carries(queue, q, b)
    BY <1>2, <1>9, <2>1, ExtendCarries
  <2> QED
    BY <1>2, <1>9, <1>10, <2>2, PastCarries
<1>18. \A i \in DOMAIN z : z[i].app \notin {0, a} => app[z[i].app].state # "none"
  <2>1. \A i \in New(queue, q) : q[i].app \in {0, a}
    BY <1>8, <1>9
  <2>2. \A i \in DOMAIN q : q[i].app \notin {0, a} => app[q[i].app].state # "none"
    BY <1>9, <2>1, ExtendOthers
  <2> QED
    BY <1>11, <2>2
<1>19. /\ app' \in [App -> AppType] /\ AllOwned'
       /\ \A b \in App : app[b].state # "none" => app'[b].state # "none"
       /\ \A i \in DOMAIN queue' : queue'[i].app # 0 => app'[queue'[i].app].state # "none"
  BY <1>1, <1>2, <1>6, <1>11, <1>12, <1>13, <1>14, <1>15, <1>16, <1>17, <1>18, OneChanges
<1>20. work' \in WorkType /\ work'.kind = "none"
  BY <1>1 DEF NoWork, WorkType
<1>21. Types'
  BY <1>1, <1>11, <1>12, <1>19, <1>20 DEF IInv, Types
<1>22. Stages'
  BY <1>1, <1>19 DEF Stages
<1>23. Requesting'
  BY <1>1, <1>2, <1>20 DEF Requesting, Launching, Asking, Waiting, Promising, Killing
<1> QED
  BY <1>19, <1>21, <1>22, <1>23 DEF IInv

LEMMA KillBeginsStep == ASSUME IInv, KillBegins PROVE IInv'
PROOF
<1> USE DEF outside, answers, killing
<1>1. /\ work.kind = "kill" /\ work.phase = "prepare" /\ ~work.failed /\ turn' = "drain"
      /\ active = work.app /\ clock' = 0
      /\ UNCHANGED <<session, active, proc, wrote, ran, disk, named, failure, gate, sent, promised>>
  BY DEF KillBegins, Phase, Turned
<1>2. sent = {} /\ work.app # 0
  BY <1>1 DEF IInv, Requesting, Killing
<1>3. PICK a \in App :
        /\ a = work.app /\ a = active /\ a # 0 /\ Owned(a)
        /\ app[a] \in AppType /\ app[a].state # "none" /\ ~app[a].completed
  BY <1>1, <1>2, ActiveOwned
<1>4. PICK x \in AppType : x = app[a]
  BY <1>3
<1>5. PICK y : y = [x EXCEPT !.marks = [p \in Member |-> "none"]]
  OBVIOUS
<1>6. /\ y \in AppType /\ y.state = x.state /\ y.authorized = x.authorized /\ y.process = x.process
      /\ y.completed = x.completed /\ y.settled = x.settled /\ y.child = x.child /\ y.handles = x.handles
      /\ y.observed = x.observed /\ y.pending = x.pending
  BY <1>5 DEF AppType
<1>7. PICK q : q = Append(queue, Effect("resolve"))
  OBVIOUS
<1>8. /\ q \in Seq(RecordType) /\ Extends(queue, q) /\ (\A i \in New(queue, q) : q[i].app = 0)
      /\ \A p : Promises(q, p, "resolve")
  BY <1>7, EffectQueued
<1>9. Carries(queue, q, a)
  BY <1>7, EffectQueued
<1>10. /\ app' = [app EXCEPT ![a] = y] /\ queue' = q /\ work' = [work EXCEPT !.phase = "dispatching"]
       /\ cursor' = [Off EXCEPT !.on = TRUE]
  <2>1. /\ app' = [app EXCEPT ![work.app].marks = [p \in Member |-> "none"]]
        /\ queue' = Append(queue, Effect("resolve")) /\ work' = [work EXCEPT !.phase = "dispatching"]
        /\ cursor' = [Off EXCEPT !.on = TRUE]
    BY DEF KillBegins, Steps
  <2> QED
    BY <1>3, <1>4, <1>5, <1>7, <2>1
<1>11. /\ Held(a, x) /\ Authorized(a, x, queue) /\ x.state # "none" /\ ~x.completed
       /\ session = "up" /\ ~failure => OnRecord(a, x, queue)
  BY <1>3, <1>4 DEF Owned
<1>12. Held(a, y)
  BY <1>6, <1>11 DEF Held
<1>13. Authorized(a, y, q)
  <2>1. Authorized(a, y, queue)
    BY <1>6, <1>11, AuthorizedSame
  <2> QED
    BY <1>9, <2>1, AuthorizedCarries
<1>14. session = "up" /\ ~failure => OnRecord(a, y, q)
  <2>1. session = "up" /\ ~failure => OnRecord(a, y, queue)
    BY <1>6, <1>11, OnRecordSame
  <2> QED
    BY <1>9, <2>1, OnRecordCarries
<1>15. /\ app' \in [App -> AppType] /\ AllOwned'
       /\ \A b \in App : app[b].state # "none" => app'[b].state # "none"
       /\ \A i \in DOMAIN queue' : queue'[i].app # 0 => app'[queue'[i].app].state # "none"
  BY <1>1, <1>3, <1>6, <1>8, <1>10, <1>11, <1>12, <1>13, <1>14, OneExtends
<1>16. /\ work' \in WorkType /\ work'.kind = "kill" /\ work'.phase = "dispatching" /\ work'.app = a
  BY <1>1, <1>3, <1>10 DEF IInv, Types, WorkType
<1>17. cursor' \in CursorType /\ cursor'.on /\ cursor'.phase = "resolve" /\ ~cursor'.failed
  BY <1>10 DEF Off, CursorType
<1>18. Types'
  <2>1. clock' \in 0 .. 2 /\ active' \in App \cup {0} /\ sent' \subseteq Member \X Signals \X {1}
    BY <1>1, <1>2, <1>3
  <2> QED
    BY <1>1, <1>8, <1>10, <1>15, <1>16, <1>17, <2>1 DEF IInv, Types
<1>19. Stages'
  BY <1>1, <1>15 DEF Stages
<1>20. app'[a].state # "none"
  BY <1>3, <1>15
<1>21. Requesting'
  BY <1>1, <1>2, <1>3, <1>8, <1>10, <1>16, <1>17, <1>20
     DEF Requesting, Launching, Asking, Waiting, Promising, Killing
<1> QED
  BY <1>15, <1>18, <1>19, <1>21 DEF IInv

LEMMA KillSucceedsStep == ASSUME IInv, KillSucceeds PROVE IInv'
PROOF
<1> USE DEF outside, answers
<1>1. /\ turn' = "drain" /\ Ended /\ queue' = Past(queue)
      /\ UNCHANGED <<session, active, app, proc, wrote, ran, disk, named, failure, gate>>
  BY DEF KillSucceeds, Turned
<1>2. PICK q : q = Past(queue)
  OBVIOUS
<1>3. queue \in Seq(RecordType)
  BY DEF IInv, Types
<1>4. q \in Seq(RecordType) /\ DOMAIN q = DOMAIN queue /\ \A i \in DOMAIN queue : q[i].app = queue[i].app
  BY <1>2, <1>3, PastView
<1>5. \A b \in App : Carries(queue, q, b)
  BY <1>2, <1>3, CarriesSame, PastCarries
<1>6. \A i \in DOMAIN q : q[i].app # 0 => app[q[i].app].state # "none"
  BY <1>4 DEF IInv, Stages
<1>7. AllOwned' /\ \A i \in DOMAIN queue' : queue'[i].app # 0 => app'[queue'[i].app].state # "none"
  BY <1>1, <1>2, <1>4, <1>5, <1>6, QueueChanges
<1>8. work' \in WorkType /\ cursor' \in CursorType /\ clock' \in 0 .. 2 /\ sent' = {}
  BY <1>1, ConstantsAssumption DEF Ended, NoWork, Off, WorkType, CursorType
<1>9. Types'
  BY <1>1, <1>2, <1>4, <1>8 DEF IInv, Types
<1>10. Stages'
  BY <1>1, <1>7 DEF Stages
<1> QED
  BY <1>1, <1>7, <1>9, <1>10, EndedRequesting DEF IInv

LEMMA RequestStep == ASSUME IInv, Request PROVE IInv'
BY TurnSteps, CancelledStep, SubmitStep, LaunchAllocatesStep, LaunchReservesStep,
     LaunchSpawnsStep,
   LaunchUnrecordedStep, LaunchAsksStep, LaunchOpensStep, LaunchFailsStep, LaunchConfirmsStep,
   KillBeginsStep, KillSucceedsStep DEF Request

LEMMA InitStep == ASSUME Init PROVE IInv
PROOF
<1>1. Unborn \in AppType
  BY DEF Unborn, AppType, States
<1>9. queue = <<>> /\ clock = 0 /\ active = 0
  BY DEF Init
<1> USE DEF Init
<1>2. queue \in Seq(RecordType) /\ DOMAIN queue = {}
  <2> HIDE DEF Init
  <2> QED
    BY <1>9
<1>3. work \in WorkType /\ cursor \in CursorType
  BY DEF NoWork, WorkType, Off, CursorType
<1>4. clock \in 0 .. 2
  <2> HIDE DEF Init
  <2> QED
    BY <1>9
<1>5. Types
  <2>1. "none" \in States
    BY DEF States
  <2> QED
    BY <1>1, <1>2, <1>3, <1>4, <2>1 DEF Types, Unmoved
<1>6. ASSUME NEW a \in App
      PROVE  Owned(a)
  <2>1. HelperTrue(a)
    BY DEF HelperTrue, Root, OfHelper, Unmoved, Member
  <2>2. Held(a, app[a])
    BY DEF Held, Unborn, Root, Live, Dead, Member
  <2>3. Authorized(a, app[a], queue)
    BY DEF Authorized
  <2>4. OnRecord(a, app[a], queue)
    BY DEF OnRecord, Unborn
  <2>5. active # a
    <3> HIDE DEF Init
    <3> QED
      BY <1>9, ConstantsAssumption DEF App
  <2> QED
    BY <2>1, <2>2, <2>3, <2>4, <2>5 DEF Owned, Unborn
<1>7. Stages
  BY <1>2 DEF Stages
<1>8. Requesting
  BY DEF Requesting, Launching, Asking, Waiting, Promising, Killing, NoWork, Off
<1> QED
  BY <1>5, <1>6, <1>7, <1>8 DEF IInv, AllOwned

LEMMA StepKeeps == ASSUME IInv, [Next]_vars PROVE IInv'
PROOF
<1>1. CASE Next
  BY <1>1, DrainedStep, RegistryStep, RequestStep, WrittenStep, ProcessesStep,
       PassesStep DEF Next, Turn
<1>2. CASE UNCHANGED vars
  <2>1. /\ UNCHANGED <<session, active, app, outside, records, work, calls, gate, killing>>
        /\ turn' = turn /\ clock' = clock
    BY <1>2 DEF vars, request
  <2> QED
    BY <2>1, TurnStep DEF IInv, Types, Stages
<1> QED
  BY <1>1, <1>2

\* The invariant holds in every state of the system, for any number of applications, of the
\* processes that they fork, of requests, and of records that are not written.
THEOREM ApplicationsInvariant == Spec => []IInv
PROOF
<1>1. Init => IInv
  BY InitStep
<1>2. IInv /\ [Next]_vars => IInv'
  BY StepKeeps
<1> QED
  BY <1>1, <1>2, PTL DEF Spec

-----------------------------------------------------------------------------
(* What the invariant says of each application.                              *)

LEMMA OwnershipFollows == ASSUME IInv PROVE OwnershipTrue
PROOF
<1>1. TypeOK
  <2>1. ASSUME NEW a \in App
        PROVE  LET x == app[a] IN
               /\ x.state \in States /\ x.child \in {"none", "alive", "reaped"}
               /\ x.marks \in [Member -> Signals \cup {"none"}]
               /\ x.observed \subseteq Member /\ x.handles \cup x.pending \subseteq x.observed
               /\ (x.state # "none" /\ ~x.completed) <=> active = a
               /\ x.authorized => x.process
    <3>1. app[a] \in AppType /\ Owned(a)
      BY DEF IInv, Types, AllOwned
    <3> QED
      BY <3>1 DEF AppType, Owned, Held
  <2>2. \A a \in App : /\ disk[a] \in States /\ named[a] \subseteq Member
                       /\ gate[a] \in {"none", "shut", "open", "closed"}
    BY DEF IInv, Types
  <2>3. work.kind \in {"none", "launch", "kill"}
    BY DEF IInv, Types, WorkType
  <2>4. cursor.on => work.kind = "kill" /\ work.app = active /\ ~cursor.failed
    BY DEF IInv, Requesting, Killing
  <2> QED
    BY <2>1, <2>2, <2>3, <2>4 DEF IInv, Types, TypeOK
<1>2. ASSUME NEW a \in App, app[a].completed
      PROVE  /\ Live(a) \subseteq Moved(a) \ app[a].observed
             /\ session = "up" /\ ~failure =>
                  /\ Status(a) \in Terminal
                  /\ app[a].observed \subseteq
                       named[a] \cup UNION {queue[i].ids : i \in {j \in DOMAIN queue : queue[j].app = a}}
  <2>1. Held(a, app[a]) /\ (session = "up" /\ ~failure => OnRecord(a, app[a], queue))
    BY DEF IInv, AllOwned, Owned
  <2>2. /\ app[a].state \in Terminal /\ app[a].pending = {}
        /\ Live(a) \subseteq Moved(a) \ app[a].observed
    BY <1>2, <2>1 DEF Held
  <2>3. ASSUME session = "up", ~failure
        PROVE  Status(a) \in Terminal
    <3>1. Ends(queue, disk[a], a, Terminal, "registry")
      BY <1>2, <2>1, <2>3 DEF OnRecord
    <3>2. ASSUME ~Unwritten(a)
          PROVE  disk[a] \in Terminal
      BY <3>1, <3>2 DEF Ends, Unwritten, Terminal
    <3> QED
      BY <2>2, <3>2 DEF Status
  <2>4. ASSUME session = "up", ~failure
        PROVE  app[a].observed \subseteq
                 named[a] \cup UNION {queue[i].ids : i \in {j \in DOMAIN queue : queue[j].app = a}}
    <3>1. app[a].observed \subseteq named[a] \cup Listed(queue, a)
      BY <1>2, <2>1, <2>2, <2>4 DEF OnRecord
    <3>2. Listed(queue, a) \subseteq UNION {queue[i].ids : i \in {j \in DOMAIN queue : queue[j].app = a}}
      BY DEF Listed
    <3> QED
      BY <3>1, <3>2
  <2> QED
    BY <2>2, <2>3, <2>4
<1> QED
  BY <1>1, <1>2 DEF OwnershipTrue, ReleasedIsOver

\* In every state, an application that the registry has retired is over: what lives of it
\* had left its group unseen, and while no write fails its answer is a final one and each
\* process that was seen has its record, or one on the way.
THEOREM ApplicationsOwnershipTrue == Spec => []OwnershipTrue
PROOF
<1>1. IInv => OwnershipTrue
  BY OwnershipFollows
<1> QED
  BY <1>1, ApplicationsInvariant, PTL

-----------------------------------------------------------------------------
(* What a step may do.                                                       *)

\* The bodies of the action properties.
GateStep ==
  /\ \A a \in ran' \ ran : app[a].authorized /\ gate[a] = "open" /\ disk[a] = "execution-authorized"
  /\ \A a \in App : gate'[a] = "open" /\ gate[a] # "open" => promised = "authorized"

AnswersStep ==
  \A a \in App :
    /\ <<"launch", a>> \in answered' \ answered => a \in ran \/ proc[a]["root"] = "dying"
    /\ <<"kill", a>> \in answered' \ answered => app[a].completed /\ Live(a) \subseteq Moved(a) \ app[a].observed

SignalsStep ==
  \A s \in sent' \ sent :
    /\ promised = s[2] /\ clock < (IF s[2] = "term" THEN 1 ELSE 2) /\ s[3] = 1
    /\ work.kind = "kill" /\ work.app = active /\ s[1] \in InGroup(active)

\* A step that runs no program, answers nothing, signals nothing and opens no gate.
Calm ==
  /\ ran' = ran /\ answered' \subseteq answered /\ sent' \subseteq sent
  /\ \A a \in App : gate'[a] = "open" => gate[a] = "open"

Allowed == GateStep /\ AnswersStep /\ SignalsStep

LEMMA CalmAllowed == ASSUME Calm PROVE Allowed
BY DEF Calm, Allowed, GateStep, AnswersStep, SignalsStep

LEMMA EndsCalm ==
  ASSUME Types, NEW z, NEW apps, NEW q, EndsWith(z, apps, q), answered' = answered
  PROVE  Calm
PROOF
<1>1. gate' = (IF z # 0 /\ gate[z] = "shut" THEN [gate EXCEPT ![z] = "closed"] ELSE gate)
  BY DEF EndsWith
<1>2. \A a \in App : gate'[a] = "open" => gate[a] = "open"
  BY <1>1 DEF Types
<1>3. ran' = ran /\ sent' = {}
  BY DEF EndsWith, Ended
<1> QED
  BY <1>2, <1>3 DEF Calm

LEMMA FailsCalm == ASSUME Types, NEW a, NEW x, Fails(a, x) PROVE Calm
BY EndsCalm DEF Fails

LEMMA RegistryCalm ==
  ASSUME Types, TickFails \/ TickIdle \/ TickObserves \/ TickSkips \/ Cut \/ Prepare \/ Publish
  PROVE  Calm
PROOF
<1>1. CASE TickFails
  BY <1>1, FailsCalm DEF TickFails
<1>2. CASE TickIdle \/ TickObserves \/ TickSkips \/ Cut \/ Prepare \/ Publish
  <2>1. UNCHANGED <<ran, answered, gate>> /\ (sent' = sent \/ sent' = {})
    BY <1>2 DEF TickIdle, TickObserves, TickSkips, Cut, Prepare, Publish, outside,
         request, killing
  <2> QED
    BY <2>1 DEF Calm
<1> QED
  BY <1>1, <1>2

LEMMA RequestCalm ==
  ASSUME Types, \/ Waits \/ Cancelled \/ (\E kind \in {"launch", "kill"}, a \in App : Submit(kind, a))
                \/ LaunchAllocates \/ LaunchReserves \/ LaunchSpawns \/ LaunchUnrecorded
                \/ LaunchAsks \/ LaunchFails \/ KillBegins
  PROVE  Calm
PROOF
<1>1. CASE Cancelled \/ LaunchUnrecorded \/ LaunchFails
  <2>1. CASE Cancelled
    BY <2>1, EndsCalm DEF Cancelled
  <2>2. CASE LaunchUnrecorded
    BY <2>2, EndsCalm DEF LaunchUnrecorded
  <2>3. CASE LaunchFails
    BY <2>3, EndsCalm DEF LaunchFails
  <2> QED
    BY <1>1, <2>1, <2>2, <2>3
<1>2. CASE Waits \/ LaunchAllocates \/ LaunchReserves \/ LaunchAsks \/ KillBegins
  <2>1. UNCHANGED <<ran, answered, gate, sent>>
    BY <1>2 DEF Waits, LaunchAllocates, LaunchReserves, LaunchAsks, KillBegins, outside,
         request, killing
  <2> QED
    BY <2>1 DEF Calm
<1>3. CASE \E kind \in {"launch", "kill"}, a \in App : Submit(kind, a)
  <2>1. UNCHANGED <<ran, gate, sent>> /\ answered' = {}
    BY <1>3 DEF Submit, outside, killing
  <2> QED
    BY <2>1 DEF Calm
<1>4. CASE LaunchSpawns
  <2>1. UNCHANGED <<ran, answered, sent>> /\ gate' = [gate EXCEPT ![work.app] = "shut"]
    BY <1>4 DEF LaunchSpawns, killing
  <2> QED
    BY <2>1 DEF Calm, Types
<1> QED
  BY <1>1, <1>2, <1>3, <1>4

LEMMA OtherCalm == ASSUME Drained \/ Written \/ Passes \/ UNCHANGED vars PROVE Calm
PROOF
<1>1. UNCHANGED <<ran, answered, gate, sent>>
  BY DEF Drained, Written, Passes, vars, outside, request, killing
<1> QED
  BY <1>1 DEF Calm

\* When the records of the request are written, the last effect it announced is on disk.
LEMMA PromisedNow ==
  ASSUME NEW what, Recorded, Promises(queue, promised, what)
  PROVE  promised = what
BY DEF Recorded, Promises, Effective

LEMMA ReapAllowed ==
  ASSUME IInv, active # 0, NEW x, NEW q, NEW next, Reap(x, q, next)
  PROVE  Allowed
PROOF
<1>1. PICK S \in SUBSET x.handles :
        LET away == S \cap Moved(active)
            doubt == cursor.on /\ ~Unfit /\ away # {} IN
        \/ Fails(active, x)
        \/ \E T \in SUBSET Signalable(S \cap InGroup(active)) :
             /\ Visited(S, T, doubt)
             /\ UNCHANGED <<session, active, outside, answers, request, promised>>
  BY DEF Reap
<1>2. CASE Fails(active, x)
  BY <1>2, FailsCalm, CalmAllowed DEF IInv
<1>3. ASSUME NEW T \in SUBSET Signalable(S \cap InGroup(active)), NEW doubt,
             Visited(S, T, doubt), UNCHANGED <<session, active, outside, answers, request, promised>>
      PROVE  Allowed
  <2>1. UNCHANGED <<ran, answered, gate>>
    BY <1>3 DEF outside, request
  <2>2. GateStep /\ AnswersStep
    BY <2>1 DEF GateStep, AnswersStep
  <2>3. ASSUME NEW s \in sent' \ sent
        PROVE  /\ promised = s[2] /\ clock < (IF s[2] = "term" THEN 1 ELSE 2) /\ s[3] = 1
               /\ work.kind = "kill" /\ work.app = active /\ s[1] \in InGroup(active)
    <3>1. PICK p \in T : s = <<p, cursor.phase, Times(p)>>
      BY <1>3, <2>3 DEF Visited
    <3>2. p \in Signalable(S \cap InGroup(active))
      BY <1>3, <3>1
    <3>3. /\ p \in S \cap InGroup(active) /\ cursor.on /\ Recorded /\ Times(p) = 1
          /\ clock < (IF cursor.phase = "term" THEN 1 ELSE 2)
      BY <3>2, SignalableNew
    <3>4. s[1] = p /\ s[2] = cursor.phase /\ s[3] = 1
      BY <3>1, <3>3
    <3>5. promised = cursor.phase
      <4>1. ~work.failed
        BY <3>3 DEF Recorded
      <4>2. Promises(queue, promised, cursor.phase)
        BY <3>3, <4>1 DEF IInv, Requesting, Promising
      <4> QED
        BY <3>3, <4>2, PromisedNow
    <3>6. work.kind = "kill" /\ work.app = active
      BY <3>3 DEF IInv, Requesting, Killing
    <3> QED
      BY <3>3, <3>4, <3>5, <3>6
  <2>4. SignalsStep
    BY <2>3 DEF SignalsStep
  <2> QED
    BY <2>2, <2>4 DEF Allowed
<1> QED
  BY <1>1, <1>2, <1>3

LEMMA ScanAllowed == ASSUME IInv, First \/ Second PROVE Allowed
PROOF
<1>1. active # 0
  BY DEF IInv, Stages, First, Second
<1>2. ASSUME NEW x, NEW q, NEW next, Discover(x, q, next)
      PROVE  Allowed
  <2>1. UNCHANGED <<ran, answered, gate, sent>>
    BY <1>2 DEF Discover, outside, request, killing
  <2> QED
    BY <2>1, CalmAllowed DEF Calm
<1> QED
  BY <1>1, <1>2, ReapAllowed DEF First, Second

LEMMA ProcessesAllowed == ASSUME IInv, Processes PROVE Allowed
PROOF
<1>1. UNCHANGED <<answered, gate, sent>>
  BY DEF Processes, HelperEnters, HelperPasses, HelperExecutes, Fork, Exits, IsKilled,
       Moves, Beside, Aside,
         request, killing
<1>2. ASSUME NEW a \in ran' \ ran
      PROVE  app[a].authorized /\ gate[a] = "open" /\ disk[a] = "execution-authorized"
  <2>1. a \in App /\ proc[a]["root"] = "passed"
    BY <1>2 DEF Processes, HelperEnters, HelperPasses, HelperExecutes, Fork, Exits,
         IsKilled, Moves
  <2>2. HelperTrue(a) /\ Authorized(a, app[a], queue)
    BY <2>1 DEF IInv, AllOwned, Owned
  <2> QED
    BY <2>1, <2>2 DEF HelperTrue, Authorized, Root
<1> QED
  BY <1>1, <1>2 DEF Allowed, GateStep, AnswersStep, SignalsStep

LEMMA OpensAllowed == ASSUME IInv, LaunchOpens PROVE Allowed
PROOF
<1>1. /\ work.kind = "launch" /\ work.phase = "authorizing" /\ ~work.failed /\ Recorded
      /\ answered' = answered
  BY DEF LaunchOpens, Phase
<1>2. promised = "authorized"
  BY <1>1, PromisedNow DEF IInv, Requesting, Promising
<1>3. CASE "root" \notin Live(work.app)
  <2>1. \E apps : EndsWith(work.app, apps, queue)
    BY <1>3 DEF LaunchOpens
  <2> QED
    BY <1>1, <2>1, EndsCalm, CalmAllowed DEF IInv
<1>4. CASE "root" \in Live(work.app)
  <2>1. UNCHANGED <<ran, sent>>
    BY <1>4 DEF LaunchOpens, outside, killing
  <2> QED
    BY <1>1, <1>2, <2>1 DEF Allowed, GateStep, AnswersStep, SignalsStep
<1> QED
  BY <1>3, <1>4

LEMMA ConfirmsAllowed == ASSUME IInv, LaunchConfirms PROVE Allowed
PROOF
<1>1. /\ work.kind = "launch" /\ work.phase = "exec" /\ UNCHANGED <<ran, gate, sent>>
  BY DEF LaunchConfirms, Phase, outside, killing
<1>2. PICK a \in App : a = work.app /\ Owned(a)
  BY <1>1, LaunchHolds DEF Reserved
<1>3. answered' = answered \cup {<<"launch", a>>} /\ Closed(a) /\ Confirmed(a)
  BY <1>2 DEF LaunchConfirms
<1>4. a \in ran \/ proc[a]["root"] = "dying"
  BY <1>2, <1>3 DEF Owned, HelperTrue, Root, OfHelper, Closed, Confirmed
<1>5. AnswersStep
  BY <1>3, <1>4 DEF AnswersStep
<1> QED
  BY <1>1, <1>5 DEF Allowed, GateStep, SignalsStep

LEMMA SucceedsAllowed == ASSUME IInv, KillSucceeds PROVE Allowed
PROOF
<1>1. /\ work.kind = "kill" /\ active # work.app /\ answered' = answered \cup {<<"kill", work.app>>}
      /\ UNCHANGED <<ran, gate>> /\ sent' = {}
  BY DEF KillSucceeds, Ended, outside
<1>2. work.app \in App /\ app[work.app].state # "none"
  BY <1>1 DEF IInv, Types, WorkType, Requesting, Killing
<1>3. PICK a \in App : a = work.app /\ Owned(a) /\ app[a].state # "none"
  BY <1>2 DEF IInv, AllOwned
<1>4. app[a].completed /\ Live(a) \subseteq Moved(a) \ app[a].observed
  BY <1>1, <1>3 DEF Owned, Held
<1>5. AnswersStep
  BY <1>1, <1>3, <1>4 DEF AnswersStep
<1> QED
  BY <1>1, <1>5 DEF Allowed, GateStep, SignalsStep

LEMMA StepAllowed == ASSUME IInv, [Next]_vars PROVE Allowed
BY RegistryCalm, RequestCalm, OtherCalm, CalmAllowed, ScanAllowed, ProcessesAllowed,
     OpensAllowed,
   ConfirmsAllowed, SucceedsAllowed DEF IInv, Next, Turn, Registry, Request

\* No program runs but behind an open gate and a record on disk that says it may, and no
\* gate opens before the intent to run it is on disk; a launch that is answered with
\* success has run its program, or is dying of a signal just then, and a kill that is
\* answered with success left nothing alive but what had left the group unseen.
THEOREM ApplicationsRequestsTrue == Spec => RequestsTrue
PROOF
<1>1. IInv /\ [Next]_vars => GateStep
  BY StepAllowed DEF Allowed
<1>2. IInv /\ [Next]_vars => AnswersStep
  BY StepAllowed DEF Allowed
<1>3. Spec => [][GateStep]_vars
  BY <1>1, ApplicationsInvariant, PTL DEF Spec
<1>4. Spec => [][AnswersStep]_vars
  BY <1>2, ApplicationsInvariant, PTL DEF Spec
<1>5. [][GateStep]_vars => GateKept
  BY DEF GateStep, GateKept
<1>6. [][AnswersStep]_vars => AnswersTrue
  BY DEF AnswersStep, AnswersTrue
<1> QED
  BY <1>3, <1>4, <1>5, <1>6 DEF RequestsTrue

\* A signal of a kill goes out once to each process, under a durable record of its phase,
\* before the cutoff of the phase, and only to a process in the group of the application
\* that is to be killed.
THEOREM ApplicationsSignalsInOrder == Spec => SignalsInOrder
PROOF
<1>1. IInv /\ [Next]_vars => SignalsStep
  BY StepAllowed DEF Allowed
<1>2. Spec => [][SignalsStep]_vars
  BY <1>1, ApplicationsInvariant, PTL DEF Spec
<1> QED
  BY <1>2 DEF SignalsStep, SignalsInOrder
=============================================================================
