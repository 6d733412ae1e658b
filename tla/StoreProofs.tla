---------------------------- MODULE StoreProofs ----------------------------
(***************************************************************************)
(* The store keeps what it promised (Store), for any number of attempts,   *)
(* queries and faults.                                                     *)
(*                                                                         *)
(* The invariant says of the steps left of a call what makes any prefix of *)
(* them harmless: every entry that will be made is synced by the next      *)
(* step, its directory is sure to be there by then, and what replaces a    *)
(* record is no older than the answer given for it.  Above that it says    *)
(* which calls can still be queued behind which.                           *)
(***************************************************************************)
EXTENDS Store, TLAPS

(***************************************************************************)
(* Values and calls.                                                       *)
(***************************************************************************)
Codes == {None, "cause", "session_failed"}
ManifestValues ==
  [kind : {"manifest"}, rev : Nat, state : {"starting", "ready", "stopped", "failed"}, failure : Codes,
   outcome : {"pending", "stopped", "failed"}, cleanup : {"not_started", "uncertain", "complete"}]
PhaseNames   == {"admitted", "started", "finalizing", "terminal"}
RecordValues ==
  [kind : {"record"}, rev : Nat, phase : PhaseNames, outcome : {"pending", "success", "unknown"}]
AllocValues  == [kind : {"alloc"}, rev : Nat, state : {"allocated", "complete"}]
Named        == Queries \cup {None}
References   == [query : Named, windows : Named]
AppValues ==
  [kind : {"app"}, rev : Nat, state : {"prepared", "running", "all-exited"}, windows : Named,
   publication : {None, "pending", "confirmed"}, confirmed : References, previous : References,
   candidate : References]
Values == {Absent, Dir, Plain} \cup ManifestValues \cup RecordValues \cup AllocValues \cup AppValues

\* What can be at a path once something is there.
Holds(p) ==
  CASE KindOf(p) = "manifest" -> ManifestValues
    [] KindOf(p) = "record"   -> RecordValues
    [] KindOf(p) = "alloc"    -> AllocValues
    [] KindOf(p) = "app"      -> AppValues
    [] KindOf(p) = "file"     -> {Plain}
    [] OTHER                  -> {Dir}
MayHold(p) == Holds(p) \cup {Absent}

UpdateCalls ==
  {c \in [op : {"update"}, state : {None, "ready", "stopped", "failed"}, failure : Codes,
          cleanup : {None, "uncertain", "complete"}] : c.failure # None => c.state = "failed"}
ManifestCalls == UpdateCalls \cup [op : {"identity", "provenance", "summarize"}]
RequestCalls ==
  [op : {"request", "allocate", "launch"}, n : 1..Attempts]
    \cup [op : {"transition"}, n : 1..Attempts, phase : PhaseNames, outcome : {"pending", "success", "unknown"}]
    \cup [op : {"settle"}, n : 1..Attempts, state : {"complete"}]
PublishCalls == [op : {"windows"}, previous : Named, candidate : Queries, state : {"pending", "confirmed"}]
WindowsCalls ==
  [op : {"prepare", "processes"}] \cup [op : {"app"}, state : {"running", "all-exited"}]
    \cup [op : {"observe"}, q : Queries] \cup PublishCalls
Calls ==
  CASE family = "manifest" -> ManifestCalls
    [] family = "request"  -> RequestCalls
    [] OTHER               -> WindowsCalls
Creating == [op |-> "create"]
Answers    == {None, "queued", "ok", "failed"}
Remembered == [current : Named, previous : Named, query : Named, at : {None, "observe", "publish"},
               ticket : Answers, checkpoint : Named]

(***************************************************************************)
(* The steps left of a call.                                               *)
(***************************************************************************)
AnyStep  == [do : {"sync"}, path : Paths \cup {Root}, value : {Dir}]
              \cup [do : {"mkdir", "create", "put", "mark"}, path : Paths \cup {Root}, value : Values]
Makes(s) == s.do \in {"mkdir", "create", "put"}
MadeBefore(t, k, p) == \E j \in 1..(k - 1) : Makes(t[j]) /\ t[j].path = p
\* Before step k, the link of p is synced.
Ready(t, k, p) ==
  \/ disk[p].safe # Absent
  \/ MadeBefore(t, k, p)
  \/ k > 1 /\ Visible(p) /\ t[1] = Sync(Parent(p))
\* What is safe wherever p is there.
Needs(p) ==
  ({Parent(p)} \cup (IF p = Manifest THEN Layout ELSE {})
     \cup (IF p.name = "allocated" THEN {Partial(p.n)} ELSE {})
     \cup (IF p.name = "application-record" THEN {Processes} ELSE {})) \ {Root}
CreatedBefore(t, k, p) == \E j \in 1..(k - 1) : t[j].do = "create" /\ t[j].path \in Needs(p)

StepOK(t, k) ==
  /\ Makes(t[k]) =>
       /\ t[k].path \in Paths /\ t[k].value \in Holds(t[k].path)
       /\ t[k].do = "mkdir" => t[k].value = Dir
       /\ k < Len(t) /\ t[k + 1] = Sync(Parent(t[k].path))
       /\ \A d \in Needs(t[k].path) : Ready(t, k, d)
       /\ t[k].value.rev >= acked[t[k].path].rev \/ CreatedBefore(t, k, t[k].path)
  /\ t[k].do = "mark" => Seen \in Paths /\ Ready(t, k, Seen)
Good(t) == t \in Seq(AnyStep) /\ \A k \in 1..Len(t) : StepOK(t, k)

\* Once t is done, p is there and safe.
Answered(t, p) ==
  \/ \E k \in 1..Len(t) : Makes(t[k]) /\ t[k].path = p
  \/ Visible(p) /\ (disk[p].now = disk[p].safe \/ \E k \in 1..Len(t) : t[k] = Sync(Parent(p)))

(***************************************************************************)
(* The invariant.                                                          *)
(***************************************************************************)
DiskTyped ==
  /\ disk \in [Paths -> [now : Values, safe : Values]] /\ acked \in [Paths -> Values]
  /\ \A p \in Paths : disk[p].now \in MayHold(p) /\ disk[p].safe \in MayHold(p) /\ acked[p] \in MayHold(p)

\* An entry that is there has what it needs, for sure.
Linked ==
  \A p \in Paths :
    /\ disk[p].safe # Absent => Visible(p)
    /\ Visible(p) => \A d \in Needs(p) : disk[d].safe # Absent
Kept ==
  \A p \in Paths : acked[p] # Absent =>
    disk[p].safe # Absent /\ disk[p].safe.rev >= acked[p].rev /\ disk[p].now.rev >= acked[p].rev
DiskInv == DiskTyped /\ Linked /\ Kept

OwnerTyped ==
  /\ family \in Families /\ role \in {"creator", "created", "worker", "down", "finalizer", "over"}
  /\ life \in {"up", "failing", "quit"} /\ known \in BOOLEAN /\ faults \in 0..Faults
  /\ tickets \in [1..Attempts -> Answers] /\ early \in {None, "cause"} /\ published \in Remembered
  /\ queue \in Seq(Calls) /\ job \in Calls \cup {Idle, Creating}

Staffed ==
  /\ role = "creator" <=> job = Creating
  /\ Busy => role \in {"creator", "worker", "finalizer"}
  /\ queue # <<>> => role \in {"worker", "finalizer"}
  /\ role = "finalizer" => family = "manifest"
  /\ role \in {"created", "worker", "down", "finalizer"} => acked[Manifest] # Absent
  /\ \A n \in 1..Attempts : tickets[n] = "ok" => family = "request" /\ acked[Record(n)] # Absent
  /\ family # "request" => \A n \in 1..Attempts : tickets[n] = None

CallInv ==
  /\ Good(todo)
  /\ IF Busy THEN Answered(todo, Target(job)) ELSE todo = <<>>
  /\ known => Seen \in Paths /\ disk[Seen].safe # Absent

(***************************************************************************)
(* Requests: nothing is behind a terminal record, or a settled artifact.   *)
(***************************************************************************)
Ends(call) == call.op = "transition" /\ call.phase = "terminal"
Terminal(v) == v.kind = "record" /\ v.phase = "terminal"
Settled(v)  == v.kind = "alloc" /\ v.state # "allocated"
Over ==
  \/ Ends(job)
  \/ \E n \in 1..Attempts : Terminal(disk[Record(n)].now)
  \/ \E k \in 1..Len(todo) : Makes(todo[k]) /\ Terminal(todo[k].value)
Closed ==
  \/ job.op = "settle"
  \/ \E n \in 1..Attempts : Settled(disk[Allocated(n)].now)
  \/ \E k \in 1..Len(todo) : Makes(todo[k]) /\ Settled(todo[k].value)
Last ==
  family = "request" /\ role # "over" =>
    /\ Over => "terminal" \in made /\ \A i \in 1..Len(queue) : queue[i].op # "transition"
    /\ \A i \in 1..Len(queue) : Ends(queue[i]) =>
         "terminal" \in made /\ \A j \in (i + 1)..Len(queue) : queue[j].op # "transition"
    /\ Closed => "complete" \in made /\ \A i \in 1..Len(queue) : queue[i].op # "settle"
    /\ \A i \in 1..Len(queue) : queue[i].op = "settle" =>
         "complete" \in made /\ \A j \in (i + 1)..Len(queue) : queue[j].op # "settle"

(***************************************************************************)
(* The manifest: failures.                                                 *)
(***************************************************************************)
Blames(v) ==
  /\ v.failure # None => v.state = "failed" /\ v.outcome = "failed"
  /\ early # None /\ v.cleanup = "complete" => v.failure # None
Puts(k, p) == k \in 1..Len(todo) /\ Makes(todo[k]) /\ todo[k].path = p
Failures ==
  role # "over" /\ (family = "manifest" \/ role = "creator") =>
    LET m == disk[Manifest].now IN
    /\ m # Absent => Blames(m)
    /\ m # Absent /\ acked[Manifest] # Absent /\ acked[Manifest].failure # None => m.failure = acked[Manifest].failure
    /\ \A k \in 1..Len(todo) : Puts(k, Manifest) =>
         /\ Blames(todo[k].value)
         /\ m # Absent /\ m.failure # None => todo[k].value.failure = m.failure
         /\ \A l \in 1..Len(todo) : Puts(l, Manifest) => l = k
    /\ \A i \in 1..Len(queue) : queue[i].op = "update" /\ queue[i].cleanup = "complete" =>
         role = "finalizer" /\ (early # None => queue[i].failure # None)
    /\ role \in {"creator", "created", "worker"} =>
         /\ m # Absent => m.cleanup # "complete"
         /\ \A k \in 1..Len(todo) : Puts(k, Manifest) => todo[k].value.cleanup # "complete"

(***************************************************************************)
(* The application's record.                                               *)
(***************************************************************************)
Recoverable(q) == q # None => acked[Observation(q)] # Absent
NamesOf(v)     == {v.confirmed.query, v.previous.query, v.candidate.query}
Restored(v) == \A r \in ReadBack(v) : r = Whole(r.query)
Readable(v) == Restored(v) /\ \A q \in NamesOf(v) : Recoverable(q)
NamedIn(call) == {call.previous, call.candidate}
Versions == {disk[AppRecord].now, disk[AppRecord].safe} \cup {todo[k].value : k \in {l \in 1..Len(todo) : Puts(l, AppRecord)}}
Publishing(call) == call.op = "windows"
Pending(call, q) == call.op = "windows" /\ call.state = "pending" /\ call.candidate = q
\* Whatever the record comes to hold, it names q.
AllName(q) ==
  /\ \A v \in Versions : v # Absent /\ q \in NamesOf(v)
  /\ \A i \in 1..Len(queue) : Publishing(queue[i]) => q \in NamedIn(queue[i])
InUse(call) == call.op \in {"app", "windows", "processes"}
Applied ==
  family = "windows" =>
    /\ \A v \in Versions : v # Absent => Readable(v)
    /\ \A i \in 1..Len(queue) : Publishing(queue[i]) => \A q \in NamedIn(queue[i]) : Recoverable(q)
    /\ Recoverable(published.current) /\ Recoverable(published.previous)
    /\ published.checkpoint # None => published.checkpoint = published.current
    /\ published.at # None => published.query # None /\ published.query \in made
    /\ published.at = "publish" \/ published.ticket = "ok" => Recoverable(published.query)
    /\ published.at = "publish" => published.checkpoint = None
    /\ published.current # None => published.current \in made
    /\ role \in {"creator", "created"} => published.at = None /\ published.current = None
Once ==
  family = "windows" =>
    /\ \A i \in 1..Len(queue) :
         /\ queue[i].op = "prepare" => "prepare" \in made /\ acked[AppRecord] = Absent
         /\ InUse(queue[i]) => acked[AppRecord] # Absent
         /\ Publishing(queue[i]) => queue[i].candidate \in made
    /\ job.op = "prepare" => "prepare" \in made /\ acked[AppRecord] = Absent
    /\ InUse(job) => acked[AppRecord] # Absent
    /\ Publishing(job) => job.candidate \in made
    /\ acked[AppRecord] # Absent => "prepare" \in made /\ (job.op # "prepare") /\ \A i \in 1..Len(queue) : queue[i].op # "prepare"
    /\ \A i \in 1..Len(queue) : queue[i].op = "prepare" =>
         job.op # "prepare" /\ \A j \in (i + 1)..Len(queue) : queue[j].op # "prepare"
    /\ published.at # None \/ published.current # None => acked[AppRecord] # Absent
Recorded ==
  family = "windows" /\ role = "worker" =>
    /\ published.current # None => AllName(published.current)
    /\ published.at = "publish" /\ published.ticket = "ok" => AllName(published.query)
    /\ published.at = "publish" =>
         /\ \A i \in 1..Len(queue) : Pending(queue[i], published.query) =>
              \A j \in (i + 1)..Len(queue) : ~Publishing(queue[j])
         /\ Pending(job, published.query) => \A i \in 1..Len(queue) : ~Publishing(queue[i])
    /\ published.at = "observe" =>
         /\ ~Pending(job, published.query)
         /\ \A i \in 1..Len(queue) : ~Pending(queue[i], published.query)
    /\ Publishing(job) =>
         /\ \A k \in 1..Len(todo) : Puts(k, AppRecord) => job.candidate \in NamesOf(todo[k].value)
         /\ (\E k \in 1..Len(todo) : Puts(k, AppRecord)) \/ (Visible(AppRecord) /\ job.candidate \in NamesOf(disk[AppRecord].now))

IInv ==
  /\ DiskInv /\ OwnerTyped /\ Staffed /\ CallInv
  /\ Last /\ Failures /\ Applied /\ Once /\ Recorded

(***************************************************************************)
(* Paths.                                                                  *)
(***************************************************************************)
\* The directory of every path, by name.
LEMMA Parents ==
  /\ Parent(Root) = Root /\ Parent(Generations) = Root /\ Parent(Generation) = Generations
  /\ Parent(In("record.lock")) = Generation /\ Parent(In("events.jsonl")) = Generation
  /\ Parent(In("worker.log")) = In("logs")
  /\ Parent(In("requests")) = Generation /\ Parent(In("applications")) = Generation
  /\ Parent(In("logs")) = Generation
  /\ Parent(Manifest) = Generation /\ Parent(Seen) = Generation
  /\ Parent(Group) = In("requests") /\ Parent(App) = In("applications")
  /\ Parent(Processes) = App /\ Parent(AppRecord) = App /\ Parent(Process) = Processes
  /\ \A n : /\ Parent(Attempt(n)) = Group /\ Parent(Record(n)) = Attempt(n)
            /\ Parent(Partial(n)) = Attempt(n) /\ Parent(Allocated(n)) = Attempt(n)
            /\ Parent(Launch(n)) = Attempt(n)
  /\ \A q : Parent(Observation(q)) = Seen
<1>0. \A name, n, q : Path(name, n, q).name = name /\ Path(name, n, q).n = n
  BY Zenon DEF Path
<1>1. \A p, name : p.name = name =>
        /\ name \in {"root", "generations"} => Parent(p) = Root
        /\ name = "generation" => Parent(p) = Generations
        /\ name = "worker.log" => Parent(p) = In("logs")
        /\ name = "request" => Parent(p) = In("requests")
        /\ name = "attempt" => Parent(p) = Group
        /\ name \in {"record", "partial", "allocated", "launch"} => Parent(p) = Attempt(p.n)
        /\ name = "application" => Parent(p) = In("applications")
        /\ name \in {"processes", "application-record"} => Parent(p) = App
        /\ name = "process" => Parent(p) = Processes
        /\ name = "observation" => Parent(p) = Seen
        /\ name \in {"requests", "applications", "logs", "record.lock", "events.jsonl",
                     "manifest.json", "window-observations"} => Parent(p) = Generation
  BY DEF Parent
<1>2. /\ Parent(Root) = Root /\ Parent(Generations) = Root /\ Parent(Generation) = Generations
      /\ Parent(In("requests")) = Generation /\ Parent(In("applications")) = Generation
      /\ Parent(In("logs")) = Generation /\ Parent(In("record.lock")) = Generation
      /\ Parent(In("events.jsonl")) = Generation /\ Parent(In("worker.log")) = In("logs")
  BY <1>0, <1>1 DEF In, Root, Generations, Generation
<1>3. /\ Parent(Manifest) = Generation /\ Parent(Seen) = Generation
      /\ Parent(Group) = In("requests") /\ Parent(App) = In("applications")
      /\ Parent(Processes) = App /\ Parent(AppRecord) = App /\ Parent(Process) = Processes
  BY <1>0, <1>1 DEF In, Manifest, Seen, Group, App, Processes, Process, AppRecord
<1>4. \A n : /\ Parent(Attempt(n)) = Group /\ Parent(Record(n)) = Attempt(n)
             /\ Parent(Partial(n)) = Attempt(n) /\ Parent(Allocated(n)) = Attempt(n)
             /\ Parent(Launch(n)) = Attempt(n)
  BY <1>0, <1>1 DEF Attempt, Record, Partial, Allocated, Launch
<1>5. \A q : Parent(Observation(q)) = Seen
  BY <1>0, <1>1 DEF Observation
<1>. QED
  BY <1>2, <1>3, <1>4, <1>5 DEF Layout

\* What kind of thing is at every path.
LEMMA KindsOf ==
  /\ KindOf(Generations) = "dir" /\ KindOf(Generation) = "dir" /\ KindOf(Manifest) = "manifest"
  /\ KindOf(In("requests")) = "dir" /\ KindOf(In("applications")) = "dir" /\ KindOf(In("logs")) = "dir"
  /\ KindOf(In("record.lock")) = "file" /\ KindOf(In("events.jsonl")) = "file"
  /\ KindOf(In("worker.log")) = "file"
  /\ KindOf(Group) = "dir" /\ KindOf(App) = "dir" /\ KindOf(Processes) = "dir"
  /\ KindOf(Process) = "file" /\ KindOf(AppRecord) = "app" /\ KindOf(Seen) = "dir"
  /\ \A n : /\ KindOf(Attempt(n)) = "dir" /\ KindOf(Record(n)) = "record"
            /\ KindOf(Partial(n)) = "file" /\ KindOf(Allocated(n)) = "alloc"
            /\ KindOf(Launch(n)) = "file"
  /\ \A q : KindOf(Observation(q)) = "file"
  BY DEF KindOf, Path, In, Root, Generations, Generation, Group, Attempt, Record,
       Partial, Allocated,
         Launch, App, Processes, Process, AppRecord, Seen, Observation, Manifest

\* The paths of a behaviour, one by one.
LEMMA PathsAre ==
  ASSUME family \in Families
  PROVE  /\ Generations \in Paths /\ Generation \in Paths /\ Manifest \in Paths /\ Layout \subseteq Paths
         /\ family = "request" =>
              /\ Group \in Paths
              /\ \A n \in 1..Attempts : {Attempt(n), Record(n), Partial(n), Allocated(n), Launch(n)} \subseteq Paths
         /\ family = "windows" =>
              /\ {App, Processes, Process, AppRecord, Seen} \subseteq Paths
              /\ \A q \in Queries : Observation(q) \in Paths
         /\ \A p \in Paths :
              \/ p \in {Generations, Generation, Manifest} \cup Layout
              \/ family = "request" /\
                   (p = Group \/ \E n \in 1..Attempts :
                                   p \in {Attempt(n), Record(n), Partial(n), Allocated(n), Launch(n)})
              \/ family = "windows" /\
                   (p \in {App, Processes, Process, AppRecord, Seen} \/ \E q \in Queries : p = Observation(q))
<1>1. Paths = PathsOf(family)
  BY DEF Paths, PathsIn
<1>2. \A p : p \in PathsOf(family) <=>
              \/ p \in {Generations, Generation, Manifest} \cup Layout
              \/ family = "request" /\
                   (p = Group \/ \E n \in 1..Attempts :
                                   p \in {Attempt(n), Record(n), Partial(n), Allocated(n), Launch(n)})
              \/ family = "windows" /\
                   (p \in {App, Processes, Process, AppRecord, Seen} \/ \E q \in Queries : p = Observation(q))
  BY DEF PathsOf
<1>. QED
  BY <1>1, <1>2

\* No path stands outside the tree, and every directory of one is a path.
LEMMA ParentIn ==
  ASSUME family \in Families, NEW p \in Paths
  PROVE  /\ p # Root
         /\ Parent(p) = Root \/ (Parent(p) \in Paths /\ KindOf(Parent(p)) = "dir")
         /\ Parent(Parent(Parent(Parent(Parent(Parent(p)))))) = Root
<1>1. p # Root
  <2>1. p.name # "root"
    <3>1. CASE p \in {Generations, Generation, Manifest} \cup Layout
      BY <3>1 DEF Path, In, Generations, Generation, Manifest, Layout
    <3>2. CASE p \in {Group, App, Processes, Process, AppRecord, Seen}
      BY <3>2 DEF Path, In, Group, App, Processes, Process, AppRecord, Seen
    <3>3. ASSUME NEW n, p \in {Attempt(n), Record(n), Partial(n), Allocated(n), Launch(n)}
          PROVE  p.name # "root"
      BY <3>3 DEF Path, Attempt, Record, Partial, Allocated, Launch
    <3>4. ASSUME NEW q, p = Observation(q)  PROVE p.name # "root"
      BY <3>4 DEF Path, Observation
    <3>. QED
      BY <3>1, <3>2, <3>3, <3>4, PathsAre
  <2>. QED
    BY <2>1 DEF Root, In, Path
<1>2. CASE p \in {Generations, Generation, Manifest} \cup Layout
  BY <1>1, <1>2, PathsAre, Parents, KindsOf, In("logs") \in Layout DEF Layout
<1>3. CASE family = "request" /\ p = Group
  BY <1>1, <1>3, PathsAre, Parents, KindsOf DEF Layout
<1>4. ASSUME family = "request", NEW n \in 1..Attempts,
             p \in {Attempt(n), Record(n), Partial(n), Allocated(n), Launch(n)}
      PROVE  /\ Parent(p) = Root \/ (Parent(p) \in Paths /\ KindOf(Parent(p)) = "dir")
             /\ Parent(Parent(Parent(Parent(Parent(Parent(p)))))) = Root
  BY <1>4, PathsAre, Parents, KindsOf
<1>5. CASE family = "windows" /\ p \in {App, Processes, Process, AppRecord, Seen}
  BY <1>1, <1>5, PathsAre, Parents, KindsOf DEF Layout
<1>6. ASSUME family = "windows", NEW q \in Queries, p = Observation(q)
      PROVE  /\ Parent(p) = Root \/ (Parent(p) \in Paths /\ KindOf(Parent(p)) = "dir")
             /\ Parent(Parent(Parent(Parent(Parent(Parent(p)))))) = Root
  BY <1>6, PathsAre, Parents, KindsOf
<1>. QED
  BY <1>1, <1>2, <1>3, <1>4, <1>5, <1>6, PathsAre

\* The directories above a path are those above its directory, and that one.
LEMMA AncestorsAre ==
  ASSUME family \in Families, NEW p \in Paths
  PROVE  /\ \A d \in Ancestors(p) : d \in Paths /\ KindOf(d) = "dir"
         /\ Parent(p) # Root => Parent(p) \in Ancestors(p)
         /\ \A d \in Ancestors(p) : Ancestors(d) \subseteq Ancestors(p)
         /\ \A d \in Ancestors(p) : d = Parent(p) \/ (Parent(p) # Root /\ d \in Ancestors(Parent(p)))
<1>1. \A x \in Paths : Ancestors(x) = Above(x)
  BY DEF Ancestors, AncestorsOf, Paths
<1>2. Parent(Root) = Root
  BY Parents
<1>3. \A x \in Paths : /\ Parent(x) = Root \/ (Parent(x) \in Paths /\ KindOf(Parent(x)) = "dir")
                       /\ Parent(Parent(Parent(Parent(Parent(Parent(x)))))) = Root
  BY ParentIn
<1>4. PICK d1, d2, d3, d4, d5 :
        /\ d1 = Parent(p) /\ d2 = Parent(d1) /\ d3 = Parent(d2) /\ d4 = Parent(d3) /\ d5 = Parent(d4)
        /\ Parent(d5) = Root
  BY <1>3
<1>5. Ancestors(p) = {d1, d2, d3, d4, d5} \ {Root}
  BY <1>1, <1>4 DEF Above, Grandparent
<1>6. \A d \in {d1, d2, d3, d4, d5} \ {Root} : d \in Paths /\ KindOf(d) = "dir"
  BY <1>2, <1>3, <1>4
<1>7. /\ d1 # Root => Ancestors(d1) \subseteq {d2, d3, d4, d5} \ {Root}
      /\ d2 # Root => Ancestors(d2) \subseteq {d3, d4, d5} \ {Root}
      /\ d3 # Root => Ancestors(d3) \subseteq {d4, d5} \ {Root}
      /\ d4 # Root => Ancestors(d4) \subseteq {d5} \ {Root}
      /\ d5 # Root => Ancestors(d5) \subseteq {}
  BY <1>1, <1>2, <1>4, <1>6 DEF Above, Grandparent
<1>8. d1 # Root => Ancestors(d1) = {d2, d3, d4, d5} \ {Root}
  BY <1>1, <1>2, <1>4, <1>6 DEF Above, Grandparent
<1>. QED
  BY <1>2, <1>4, <1>5, <1>6, <1>7, <1>8

\* What the directories above a path are.
LEMMA UpFrom ==
  ASSUME family \in Families, NEW p \in Paths
  PROVE  Ancestors(p) = Above(p)
  BY DEF Ancestors, AncestorsOf, Paths

\* An allocation is a request's, and its partial file is beside it.
LEMMA AllocatedIs ==
  ASSUME family \in Families, NEW p \in Paths, p.name = "allocated"
  PROVE  /\ family = "request" /\ p.n \in 1..Attempts /\ p = Allocated(p.n)
         /\ Partial(p.n) \in Paths /\ KindOf(p) = "alloc"
<1>1. CASE p \in {Generations, Generation, Manifest} \cup Layout
  BY SMTT(30), <1>1 DEF Path, In, Generations, Generation, Manifest, Layout
<1>2. CASE p \in {Group, App, Processes, Process, AppRecord, Seen}
  BY <1>2 DEF Path, In, Group, App, Processes, Process, AppRecord, Seen
<1>3. ASSUME NEW n, p \in {Attempt(n), Record(n), Partial(n), Launch(n)}
      PROVE  FALSE
  BY <1>3 DEF Path, Attempt, Record, Partial, Launch
<1>4. ASSUME NEW q, p = Observation(q)  PROVE FALSE
  BY <1>4 DEF Path, Observation
<1>5. PICK n \in 1..Attempts : family = "request" /\ p = Allocated(n)
  BY <1>1, <1>2, <1>3, <1>4, PathsAre
<1>6. p.n = n
  BY <1>5 DEF Allocated, Path
<1>. QED
  BY <1>5, <1>6, PathsAre, KindsOf

\* An application's record is the one of the windows family.
LEMMA AppRecordIs ==
  ASSUME family \in Families, NEW p \in Paths, p.name = "application-record"
  PROVE  family = "windows" /\ p = AppRecord
<1>1. CASE p \in {Generations, Generation, Manifest} \cup Layout
  BY <1>1 DEF Path, In, Generations, Generation, Manifest, Layout
<1>2. CASE p = Group
  BY <1>2 DEF Path, In, Group
<1>3. ASSUME NEW n, p \in {Attempt(n), Record(n), Partial(n), Allocated(n), Launch(n)}
      PROVE  FALSE
  BY <1>3 DEF Path, Attempt, Record, Partial, Allocated, Launch
<1>4. ASSUME NEW q, p = Observation(q)  PROVE FALSE
  BY <1>4 DEF Path, Observation
<1>5. CASE p \in {App, Processes, Process, Seen}
  BY <1>5 DEF Path, In, App, Processes, Process, Seen
<1>. QED
  BY <1>1, <1>2, <1>3, <1>4, <1>5, PathsAre

\* A request's paths are told apart by its attempt.
LEMMA AllocatedNamed ==
  ASSUME NEW n
  PROVE  /\ Allocated(n).name = "allocated" /\ Allocated(n).n = n
         /\ \A m : Partial(m) = Partial(n) => m = n
         /\ \A m : Record(m) = Record(n) => m = n
  BY DEF Allocated, Partial, Record, Path

\* The values of a path are of its kind.
LEMMA HoldsAre ==
  ASSUME NEW p, NEW v \in Holds(p)
  PROVE  v # Absent /\ v.rev \in Nat /\ v.kind = KindOf(p) /\ v.kind # "absent" /\ v \in Values
<1>1. KindOf(p) \in {"manifest", "record", "alloc", "app", "file", "dir"}
  BY DEF KindOf
<1>2. CASE KindOf(p) = "manifest"
  BY <1>2 DEF Holds, ManifestValues, Absent, Values
<1>3. CASE KindOf(p) = "record"
  BY <1>3 DEF Holds, RecordValues, Absent, Values
<1>4. CASE KindOf(p) = "alloc"
  BY <1>4 DEF Holds, AllocValues, Absent, Values
<1>5. CASE KindOf(p) = "app"
  BY <1>5 DEF Holds, AppValues, Absent, Values
<1>6. CASE KindOf(p) = "file"
  BY <1>6 DEF Holds, Plain, Absent, Values
<1>7. CASE KindOf(p) = "dir"
  BY <1>7 DEF Holds, Dir, Absent, Values
<1>. QED
  BY <1>1, <1>2, <1>3, <1>4, <1>5, <1>6, <1>7

\* The values of a path, by its kind.
LEMMA HoldsBy ==
  ASSUME NEW p
  PROVE  /\ KindOf(p) = "dir" => Holds(p) = {Dir}
         /\ KindOf(p) = "file" => Holds(p) = {Plain}
         /\ KindOf(p) = "manifest" => Holds(p) = ManifestValues
         /\ KindOf(p) = "record" => Holds(p) = RecordValues
         /\ KindOf(p) = "alloc" => Holds(p) = AllocValues
         /\ KindOf(p) = "app" => Holds(p) = AppValues
  BY DEF Holds

\* What a path needs is in the tree too, and of a directory it is its own one.
LEMMA NeedsIn ==
  ASSUME family \in Families, NEW p \in Paths
  PROVE  /\ Needs(p) \subseteq Paths
         /\ Parent(p) # Root => Parent(p) \in Needs(p)
<1>1. Parent(p) = Root \/ Parent(p) \in Paths
  BY ParentIn
<1>2. Layout \subseteq Paths
  BY PathsAre
<1>3. p.name = "allocated" => Partial(p.n) \in Paths
  BY AllocatedIs
<1>4. p.name = "application-record" => Processes \in Paths
  BY AppRecordIs, PathsAre
<1>. QED
  BY <1>1, <1>2, <1>3, <1>4 DEF Needs

\* The typing of the disk, path by path.
LEMMA DiskAt ==
  ASSUME DiskTyped, NEW p \in Paths
  PROVE  /\ disk[p] = [now |-> disk[p].now, safe |-> disk[p].safe]
         /\ disk[p].now = Absent \/ disk[p].now \in Holds(p)
         /\ disk[p].safe = Absent \/ disk[p].safe \in Holds(p)
         /\ acked[p] = Absent \/ acked[p] \in Holds(p)
         /\ disk[p].now.rev \in Nat /\ disk[p].safe.rev \in Nat /\ acked[p].rev \in Nat
         /\ disk[p].now \in Values /\ disk[p].safe \in Values
<1>1. /\ disk[p] \in [now : Values, safe : Values]
      /\ disk[p].now = Absent \/ disk[p].now \in Holds(p)
      /\ disk[p].safe = Absent \/ disk[p].safe \in Holds(p)
      /\ acked[p] = Absent \/ acked[p] \in Holds(p)
  BY DEF DiskTyped, MayHold
<1>2. Absent.rev \in Nat
  BY DEF Absent
<1>. QED
  BY <1>1, <1>2, HoldsAre

\* What is there stands: every directory above it is safe.
LEMMA VisibleStands ==
  ASSUME family \in Families, DiskTyped, Linked, NEW p \in Paths, Visible(p)
  PROVE  Standing(p)
<1>1. ASSUME NEW x \in Paths, Visible(x)
      PROVE  \/ Parent(x) = Root
             \/ Parent(x) \in Paths /\ disk[Parent(x)].safe = Dir /\ Visible(Parent(x))
  <2>1. SUFFICES ASSUME Parent(x) # Root
                 PROVE  Parent(x) \in Paths /\ disk[Parent(x)].safe = Dir /\ Visible(Parent(x))
    OBVIOUS
  <2>2. Parent(x) \in Paths /\ KindOf(Parent(x)) = "dir"
    BY <2>1, ParentIn
  <2>3. disk[Parent(x)].safe # Absent /\ Visible(Parent(x))
    BY <1>1, <2>1, <2>2 DEF Linked, Needs
  <2>. QED
    BY <2>2, <2>3, DiskAt, HoldsBy
<1>2. Parent(Root) = Root
  BY Parents
<1>3. PICK d1, d2, d3, d4, d5 :
        d1 = Parent(p) /\ d2 = Parent(d1) /\ d3 = Parent(d2) /\ d4 = Parent(d3) /\ d5 = Parent(d4)
  OBVIOUS
<1>4. d1 = Root \/ (d1 \in Paths /\ disk[d1].safe = Dir /\ Visible(d1))
  BY <1>1, <1>3
<1>5. d2 = Root \/ (d2 \in Paths /\ disk[d2].safe = Dir /\ Visible(d2))
  BY <1>1, <1>2, <1>3, <1>4
<1>6. d3 = Root \/ (d3 \in Paths /\ disk[d3].safe = Dir /\ Visible(d3))
  BY <1>1, <1>2, <1>3, <1>5
<1>7. d4 = Root \/ (d4 \in Paths /\ disk[d4].safe = Dir /\ Visible(d4))
  BY <1>1, <1>2, <1>3, <1>6
<1>8. d5 = Root \/ (d5 \in Paths /\ disk[d5].safe = Dir /\ Visible(d5))
  BY <1>1, <1>2, <1>3, <1>7
<1>9. Ancestors(p) = {d1, d2, d3, d4, d5} \ {Root}
  BY <1>3, UpFrom DEF Above, Grandparent
<1>. QED
  BY <1>4, <1>5, <1>6, <1>7, <1>8, <1>9 DEF Standing

(***************************************************************************)
(* The steps of a call, put together pair by pair.                         *)
(***************************************************************************)
LEMMA GoodEmpty == Good(<<>>)
  BY DEF Good

\* What holds of a sequence holds of it with more behind.
LEMMA ReadyStays ==
  ASSUME NEW t, NEW u, NEW k \in Nat, NEW l \in Nat, k <= l, NEW p,
         \A j \in 1..(k - 1) : u[j] = t[j]
  PROVE  /\ MadeBefore(t, k, p) => MadeBefore(u, l, p)
         /\ CreatedBefore(t, k, p) => CreatedBefore(u, l, p)
         /\ Ready(t, k, p) => Ready(u, l, p)
<1>1. MadeBefore(t, k, p) => MadeBefore(u, l, p)
  BY DEF MadeBefore
<1>2. CreatedBefore(t, k, p) => CreatedBefore(u, l, p)
  BY DEF CreatedBefore
<1>3. k > 1 => u[1] = t[1] /\ l > 1
  OBVIOUS
<1>. QED
  BY <1>1, <1>2, <1>3 DEF Ready

Grown(t, u, do, p) ==
  /\ Len(u) = Len(t) + 2
  /\ MadeBefore(u, Len(u) + 1, p)
  /\ do = "create" => \A x : p \in Needs(x) => CreatedBefore(u, Len(u) + 1, x)
  /\ \A d : MadeBefore(t, Len(t) + 1, d) => MadeBefore(u, Len(u) + 1, d)
  /\ \A d : CreatedBefore(t, Len(t) + 1, d) => CreatedBefore(u, Len(u) + 1, d)
  /\ \A d : Ready(t, Len(t) + 1, d) => Ready(u, Len(u) + 1, d)

\* A pair: an entry is made, and its directory synced.
LEMMA GrowPair ==
  ASSUME family \in Families, NEW t, Good(t), NEW p \in Paths, NEW do \in {"mkdir", "create", "put"},
         NEW v \in Holds(p), do = "mkdir" => v = Dir,
         \A d \in Needs(p) : Ready(t, Len(t) + 1, d),
         v.rev >= acked[p].rev \/ CreatedBefore(t, Len(t) + 1, p),
         NEW u, u = t \o <<Step(do, p, v), Sync(Parent(p))>>
  PROVE  Good(u) /\ Grown(t, u, do, p)
<1>1. t \in Seq(AnyStep) /\ Len(t) \in Nat
  BY DEF Good
<1>2. Dir \in Values /\ v \in Values
  BY HoldsAre DEF Values
<1>3. Step(do, p, v) \in AnyStep /\ Sync(Parent(p)) \in AnyStep
  BY <1>2, ParentIn DEF AnyStep, Step, Sync
<1>4. /\ u \in Seq(AnyStep) /\ Len(u) = Len(t) + 2
      /\ \A k \in 1..Len(t) : u[k] = t[k]
      /\ u[Len(t) + 1] = Step(do, p, v) /\ u[Len(t) + 2] = Sync(Parent(p))
  BY <1>1, <1>3
<1>5. /\ Step(do, p, v).do = do /\ Step(do, p, v).path = p /\ Step(do, p, v).value = v
      /\ Sync(Parent(p)).do = "sync"
  BY DEF Step, Sync
<1>6. ASSUME NEW k \in 1..(Len(t) + 1), NEW d
      PROVE  /\ MadeBefore(t, k, d) => MadeBefore(u, k, d)
             /\ CreatedBefore(t, k, d) => CreatedBefore(u, k, d)
             /\ Ready(t, k, d) => Ready(u, k, d)
  <2>1. \A j \in 1..(k - 1) : u[j] = t[j]
    BY <1>1, <1>4
  <2>2. k \in Nat /\ k <= k
    BY <1>1
  <2>. QED
    BY <2>1, <2>2, ReadyStays
<1>7. ASSUME NEW k \in 1..Len(u)
      PROVE  StepOK(u, k)
  <2>1. CASE k \in 1..Len(t)
    <3>1. StepOK(t, k) /\ u[k] = t[k]
      BY <1>4, <2>1 DEF Good
    <3>2. k < Len(t) => u[k + 1] = t[k + 1] /\ k < Len(u)
      BY <1>1, <1>4, <2>1
    <3>3. k \in 1..(Len(t) + 1)
      BY <1>1, <2>1
    <3>4. \A d : /\ MadeBefore(t, k, d) => MadeBefore(u, k, d)
                 /\ CreatedBefore(t, k, d) => CreatedBefore(u, k, d)
                 /\ Ready(t, k, d) => Ready(u, k, d)
      BY <1>6, <3>3
    <3>5. ASSUME Makes(u[k])
          PROVE  k < Len(t) /\ u[k + 1] = t[k + 1] /\ k < Len(u)
      BY <3>1, <3>2, <3>5 DEF StepOK
    <3>. QED
      BY <3>1, <3>4, <3>5 DEF StepOK
  <2>2. CASE k = Len(t) + 1
    <3>1. u[k] = Step(do, p, v) /\ k < Len(u) /\ u[k + 1] = Sync(Parent(p)) /\ do # "mark"
      BY <1>1, <1>4, <2>2
    <3>2. \A d : /\ MadeBefore(t, k, d) => MadeBefore(u, k, d)
                 /\ CreatedBefore(t, k, d) => CreatedBefore(u, k, d)
                 /\ Ready(t, k, d) => Ready(u, k, d)
      <4>1. k \in 1..(Len(t) + 1)
        BY <1>1, <2>2
      <4>. QED
        BY <1>6, <4>1
    <3>. QED
      BY <1>5, <2>2, <3>1, <3>2 DEF StepOK
  <2>3. CASE k = Len(t) + 2
    BY <1>4, <1>5, <2>3 DEF StepOK, Makes
  <2>. QED
    BY <1>1, <1>4, <2>1, <2>2, <2>3
<1>8. Good(u)
  BY <1>4, <1>7 DEF Good
<1>9. /\ Len(t) + 1 \in 1..(Len(u) + 1 - 1) /\ Len(u) + 1 \in Nat /\ Len(t) + 1 \in Nat
      /\ Len(t) + 1 <= Len(u) + 1 /\ \A j \in 1..(Len(t) + 1 - 1) : u[j] = t[j]
  BY <1>1, <1>4
<1>10. MadeBefore(u, Len(u) + 1, p)
  BY <1>4, <1>5, <1>9 DEF MadeBefore, Makes
<1>11. do = "create" => \A x : p \in Needs(x) => CreatedBefore(u, Len(u) + 1, x)
  BY <1>4, <1>5, <1>9 DEF CreatedBefore
<1>12. \A d : /\ MadeBefore(t, Len(t) + 1, d) => MadeBefore(u, Len(u) + 1, d)
              /\ CreatedBefore(t, Len(t) + 1, d) => CreatedBefore(u, Len(u) + 1, d)
              /\ Ready(t, Len(t) + 1, d) => Ready(u, Len(u) + 1, d)
  <2>1. PICK k, l : k = Len(t) + 1 /\ l = Len(u) + 1
    OBVIOUS
  <2>2. k \in Nat /\ l \in Nat /\ k <= l /\ \A j \in 1..(k - 1) : u[j] = t[j]
    BY <1>9, <2>1
  <2>3. \A d : /\ MadeBefore(t, k, d) => MadeBefore(u, l, d)
               /\ CreatedBefore(t, k, d) => CreatedBefore(u, l, d)
               /\ Ready(t, k, d) => Ready(u, l, d)
    BY <2>2, ReadyStays
  <2>. QED
    BY <2>1, <2>3
<1>. QED
  BY <1>4, <1>8, <1>10, <1>11, <1>12 DEF Grown

\* What the paths of a behaviour need.
LEMMA NeedsAre ==
  /\ Needs(Generations) = {} /\ Needs(Generation) = {Generations}
  /\ Needs(In("requests")) = {Generation} /\ Needs(In("applications")) = {Generation}
  /\ Needs(In("logs")) = {Generation} /\ Needs(In("record.lock")) = {Generation}
  /\ Needs(In("events.jsonl")) = {Generation} /\ Needs(In("worker.log")) = {In("logs")}
  /\ Needs(Manifest) = {Generation} \cup Layout
  /\ Needs(Group) = {In("requests")} /\ Needs(App) = {In("applications")} /\ Needs(Processes) = {App}
  /\ Needs(AppRecord) = {App, Processes} /\ Needs(Process) = {Processes} /\ Needs(Seen) = {Generation}
  /\ \A n : /\ Needs(Attempt(n)) = {Group} /\ Needs(Record(n)) = {Attempt(n)}
            /\ Needs(Partial(n)) = {Attempt(n)} /\ Needs(Launch(n)) = {Attempt(n)}
            /\ Needs(Allocated(n)) = {Attempt(n), Partial(n)}
  /\ \A q : Needs(Observation(q)) = {Seen}
<1>1. /\ Needs(Generations) = {} /\ Needs(Generation) = {Generations}
      /\ Needs(In("requests")) = {Generation} /\ Needs(In("applications")) = {Generation}
      /\ Needs(In("logs")) = {Generation} /\ Needs(In("record.lock")) = {Generation}
      /\ Needs(In("events.jsonl")) = {Generation} /\ Needs(In("worker.log")) = {In("logs")}
  <2>1. ASSUME NEW p, p # Manifest, p.name \notin {"allocated", "application-record"}
        PROVE  Needs(p) = {Parent(p)} \ {Root}
    BY <2>1 DEF Needs
  <2>2. \A p \in {Generations, Generation} \cup Layout :
          p # Manifest /\ p.name \notin {"allocated", "application-record"}
    BY DEF Path, In, Generations, Generation, Manifest, Layout
  <2>3. Generations # Root /\ Generation # Root /\ In("logs") # Root
    BY DEF Path, In, Root, Generations, Generation
  <2>. QED
    BY <2>1, <2>2, <2>3, Parents DEF Layout
<1>2. Needs(Manifest) = {Generation} \cup Layout
  BY Parents DEF Needs, Path, In, Root, Generation, Manifest, Layout
<1>3. /\ Needs(Group) = {In("requests")} /\ Needs(App) = {In("applications")} /\ Needs(Processes) = {App}
      /\ Needs(AppRecord) = {App, Processes} /\ Needs(Process) = {Processes} /\ Needs(Seen) = {Generation}
  BY Parents DEF Needs, Path, In, Root, Group, App, Processes, AppRecord, Process, Seen,
       Generation, Manifest
<1>4. ASSUME NEW n
      PROVE  /\ Needs(Attempt(n)) = {Group} /\ Needs(Record(n)) = {Attempt(n)}
             /\ Needs(Partial(n)) = {Attempt(n)} /\ Needs(Launch(n)) = {Attempt(n)}
             /\ Needs(Allocated(n)) = {Attempt(n), Partial(n)}
  <2>1. /\ Attempt(n) # Root /\ Group # Root /\ Partial(n) # Root
        /\ Attempt(n) # Manifest /\ Record(n) # Manifest /\ Partial(n) # Manifest /\ Launch(n) # Manifest
        /\ Allocated(n) # Manifest
        /\ Allocated(n).name = "allocated" /\ Allocated(n).n = n
        /\ {Attempt(n).name, Record(n).name, Partial(n).name, Launch(n).name}
             \cap {"allocated", "application-record"} = {}
    BY DEF Path, In, Root, Attempt, Record, Partial, Allocated, Launch, Group, Manifest
  <2>. QED
    BY <2>1, Parents DEF Needs
<1>5. ASSUME NEW q
      PROVE  Needs(Observation(q)) = {Seen}
  <2>1. /\ Seen # Root /\ Observation(q) # Manifest
        /\ Observation(q).name \notin {"allocated", "application-record"}
    BY DEF Path, In, Root, Seen, Observation, Manifest
  <2>. QED
    BY <2>1, Parents DEF Needs
<1>. QED
  BY <1>1, <1>2, <1>3, <1>4, <1>5

\* The steps so far, and paths they make.
Laying(t, S) ==
  /\ Good(t) /\ Len(t) \in Nat /\ \A d \in S : MadeBefore(t, Len(t) + 1, d)
  /\ \A k \in 1..Len(t) : Makes(t[k]) => t[k].path \in S

\* Before the first pair.
LEMMA LayingFirst == Laying(<<>>, {})
  BY GoodEmpty DEF Laying

PairOf(t, u, k, s) ==
  /\ Len(u) = Len(t) + 2
  /\ (k \in 1..Len(t) /\ u[k] = t[k]) \/ (k = Len(t) + 1 /\ u[k] = s)
\* The steps of a sequence that got a pair.
LEMMA PairAt ==
  ASSUME NEW t, Good(t), NEW do \in {"mkdir", "create", "put"}, NEW p, NEW v,
         NEW u, u = t \o <<Step(do, p, v), Sync(Parent(p))>>, NEW k \in 1..Len(u), Makes(u[k])
  PROVE  PairOf(t, u, k, Step(do, p, v))
<1>1. PICK a, b : a = Step(do, p, v) /\ b = Sync(Parent(p))
  OBVIOUS
<1>2. u = t \o <<a, b>> /\ t \in Seq(AnyStep) /\ Len(t) \in Nat
  BY <1>1 DEF Good
<1>3. /\ Len(u) = Len(t) + 2 /\ u[Len(t) + 1] = a /\ u[Len(t) + 2] = b
      /\ \A j \in 1..Len(t) : u[j] = t[j]
  BY <1>2
<1>4. ~Makes(b) /\ a.path = p
  BY <1>1 DEF Sync, Step, Makes
<1>5. k \in 1..Len(t) \/ k = Len(t) + 1 \/ k = Len(t) + 2
  BY <1>2, <1>3
<1>. QED
  BY <1>1, <1>3, <1>4, <1>5 DEF PairOf

\* A pair in a generation of which nothing was answered for yet.
LEMMA LayNext ==
  ASSUME family \in Families, \A x \in Paths : acked[x] = Absent,
         NEW t, NEW S, Laying(t, S), NEW p \in Paths, NEW do \in {"mkdir", "create", "put"},
         NEW v \in Holds(p), do = "mkdir" => v = Dir, Needs(p) \subseteq S,
         NEW u, u = t \o <<Step(do, p, v), Sync(Parent(p))>>
  PROVE  Laying(u, S \cup {p})
<1>1. /\ Good(t) /\ Len(t) \in Nat /\ \A d \in S : MadeBefore(t, Len(t) + 1, d)
      /\ \A k \in 1..Len(t) : Makes(t[k]) => t[k].path \in S
  BY DEF Laying
<1>2. \A d \in Needs(p) : Ready(t, Len(t) + 1, d)
  BY <1>1 DEF Ready
<1>3. v.rev \in Nat /\ acked[p] = Absent /\ Absent.rev = 0
  BY HoldsAre DEF Absent
<1>4. v.rev >= acked[p].rev
  BY <1>3
<1>5. /\ Good(u) /\ Len(u) = Len(t) + 2 /\ MadeBefore(u, Len(u) + 1, p)
      /\ \A d : MadeBefore(t, Len(t) + 1, d) => MadeBefore(u, Len(u) + 1, d)
  <2>1. Good(u) /\ Grown(t, u, do, p)
    BY <1>1, <1>2, <1>4, GrowPair
  <2>. QED
    BY <2>1 DEF Grown
<1>6. Len(u) \in Nat
  BY <1>1, <1>5
<1>7. ASSUME NEW k \in 1..Len(u), Makes(u[k])
      PROVE  u[k].path \in S \cup {p}
  <2>1. PairOf(t, u, k, Step(do, p, v))
    BY <1>1, <1>7, PairAt
  <2>. QED
    BY <1>1, <1>7, <2>1 DEF PairOf, Step
<1>. QED
  BY <1>1, <1>5, <1>6, <1>7 DEF Laying

\* What the steps make, they answer for.
LEMMA MadeIsAnswered ==
  ASSUME NEW t, Len(t) \in Nat, NEW p, MadeBefore(t, Len(t) + 1, p)
  PROVE  Answered(t, p)
<1>1. PICK j \in 1..(Len(t) + 1 - 1) : Makes(t[j]) /\ t[j].path = p
  BY DEF MadeBefore
<1>2. j \in 1..Len(t)
  BY <1>1
<1>. QED
  BY <1>1, <1>2 DEF Answered

\* Store(create=True).
LEMMA CreateGood ==
  ASSUME family \in Families, \A x \in Paths : acked[x] = Absent
  PROVE  /\ Good(Create) /\ Answered(Create, Manifest)
         /\ \A k \in 1..Len(Create) : Makes(Create[k]) =>
              /\ Create[k].path \in {Generations, Generation, Manifest} \cup Layout
              /\ Create[k].path = Manifest => k = Len(Create) - 1 /\ Create[k].value = StartingManifest
<1>. DEFINE A1 == MkdirDurable(Generations)
            A2 == A1 \o Exclusive(Generation)
            A3 == A2 \o Exclusive(In("requests"))
            A4 == A3 \o Exclusive(In("applications"))
            A5 == A4 \o Exclusive(In("logs"))
            A6 == A5 \o NewFile(In("record.lock"))
            A7 == A6 \o NewFile(In("events.jsonl"))
            A8 == A7 \o NewFile(In("worker.log"))
            A9 == A8 \o Write(Manifest, StartingManifest)
            S5 == {Generations, Generation, In("requests"), In("applications"), In("logs")}
<1>1. Create = A9
  BY DEF Create
<1>2. /\ {Generations, Generation, Manifest} \subseteq Paths /\ Layout \subseteq Paths
      /\ Dir \in Holds(Generations) /\ Dir \in Holds(Generation)
      /\ Dir \in Holds(In("requests")) /\ Dir \in Holds(In("applications")) /\ Dir \in Holds(In("logs"))
      /\ Plain \in Holds(In("record.lock")) /\ Plain \in Holds(In("events.jsonl"))
      /\ Plain \in Holds(In("worker.log"))
  BY PathsAre, KindsOf, HoldsBy
<1>3. StartingManifest \in Holds(Manifest)
  <2>1. StartingManifest \in ManifestValues
    BY DEF StartingManifest, ManifestValues, Codes
  <2>. QED
    BY <2>1, KindsOf, HoldsBy
<1>4. Laying(A1, {Generations})
  <2>1. A1 = <<>> \o <<Step("mkdir", Generations, Dir), Sync(Parent(Generations))>>
    BY DEF MkdirDurable
  <2>2. Laying(A1, {} \cup {Generations})
    <3>1. Needs(Generations) \subseteq {}
      BY NeedsAre
    <3>. QED
      BY <1>2, <2>1, <3>1, LayingFirst, LayNext
  <2>. QED
    BY <2>2
<1>5. Laying(A2, {Generations, Generation})
  <2>1. PICK t, u : t = A1 /\ u = A2
    OBVIOUS
  <2>2. u = t \o <<Step("create", Generation, Dir), Sync(Parent(Generation))>>
    BY <2>1 DEF Exclusive
  <2>3. Needs(Generation) \subseteq {Generations} /\ Generation \in Paths
    BY <1>2, NeedsAre DEF Layout
  <2>4. Laying(u, {Generations} \cup {Generation})
    BY <1>2, <1>4, <2>1, <2>2, <2>3, LayNext
  <2>. QED
    BY <2>1, <2>4
<1>6. Laying(A3, {Generations, Generation, In("requests")})
  <2>1. PICK t, u : t = A2 /\ u = A3
    OBVIOUS
  <2>2. u = t \o <<Step("create", In("requests"), Dir), Sync(Parent(In("requests")))>>
    BY <2>1 DEF Exclusive
  <2>3. Needs(In("requests")) \subseteq {Generations, Generation} /\ In("requests") \in Paths
    BY <1>2, NeedsAre DEF Layout
  <2>4. Laying(u, {Generations, Generation} \cup {In("requests")})
    BY <1>2, <1>5, <2>1, <2>2, <2>3, LayNext
  <2>. QED
    BY <2>1, <2>4
<1>7. Laying(A4, {Generations, Generation, In("requests"), In("applications")})
  <2>1. PICK t, u : t = A3 /\ u = A4
    OBVIOUS
  <2>2. u = t \o <<Step("create", In("applications"), Dir), Sync(Parent(In("applications")))>>
    BY <2>1 DEF Exclusive
  <2>3. Needs(In("applications")) \subseteq {Generations, Generation, In("requests")} /\ In("applications") \in Paths
    BY <1>2, NeedsAre DEF Layout
  <2>4. Laying(u, {Generations, Generation, In("requests")} \cup {In("applications")})
    BY <1>2, <1>6, <2>1, <2>2, <2>3, LayNext
  <2>. QED
    BY <2>1, <2>4
<1>8. Laying(A5, S5)
  <2>1. PICK t, u : t = A4 /\ u = A5
    OBVIOUS
  <2>2. u = t \o <<Step("create", In("logs"), Dir), Sync(Parent(In("logs")))>>
    BY <2>1 DEF Exclusive
  <2>3. Needs(In("logs")) \subseteq {Generations, Generation, In("requests"), In("applications")} /\ In("logs") \in Paths
    BY <1>2, NeedsAre DEF Layout
  <2>4. Laying(u, {Generations, Generation, In("requests"), In("applications")} \cup {In("logs")})
    BY <1>2, <1>7, <2>1, <2>2, <2>3, LayNext
  <2>. QED
    BY <2>1, <2>4
<1>9. Laying(A6, S5 \cup {In("record.lock")})
  <2>1. PICK t, u : t = A5 /\ u = A6
    OBVIOUS
  <2>2. u = t \o <<Step("create", In("record.lock"), Plain), Sync(Parent(In("record.lock")))>>
    BY <2>1 DEF NewFile
  <2>3. Needs(In("record.lock")) \subseteq S5 /\ In("record.lock") \in Paths
    BY <1>2, NeedsAre DEF Layout
  <2>. QED
    BY <1>2, <1>8, <2>1, <2>2, <2>3, LayNext
<1>10. Laying(A7, S5 \cup {In("record.lock")} \cup {In("events.jsonl")})
  <2>1. PICK t, u : t = A6 /\ u = A7
    OBVIOUS
  <2>2. u = t \o <<Step("create", In("events.jsonl"), Plain), Sync(Parent(In("events.jsonl")))>>
    BY <2>1 DEF NewFile
  <2>3. Needs(In("events.jsonl")) \subseteq S5 \cup {In("record.lock")} /\ In("events.jsonl") \in Paths
    BY <1>2, NeedsAre DEF Layout
  <2>. QED
    BY <1>2, <1>9, <2>1, <2>2, <2>3, LayNext
<1>11. Laying(A8, S5 \cup {In("record.lock")} \cup {In("events.jsonl")} \cup {In("worker.log")})
  <2>1. PICK t, u : t = A7 /\ u = A8
    OBVIOUS
  <2>2. u = t \o <<Step("create", In("worker.log"), Plain), Sync(Parent(In("worker.log")))>>
    BY <2>1 DEF NewFile
  <2>3. Needs(In("worker.log")) \subseteq S5 \cup {In("record.lock")} \cup {In("events.jsonl")} /\ In("worker.log") \in Paths
    BY <1>2, NeedsAre DEF Layout
  <2>. QED
    BY <1>2, <1>10, <2>1, <2>2, <2>3, LayNext
<1>12. Laying(A9, S5 \cup {In("record.lock")} \cup {In("events.jsonl")} \cup {In("worker.log")} \cup {Manifest})
  <2>1. PICK t, u : t = A8 /\ u = A9
    OBVIOUS
  <2>2. u = t \o <<Step("put", Manifest, StartingManifest), Sync(Parent(Manifest))>>
    BY <2>1 DEF Write
  <2>3. Needs(Manifest) \subseteq S5 \cup {In("record.lock")} \cup {In("events.jsonl")} \cup {In("worker.log")}
    BY NeedsAre DEF Layout
  <2>. QED
    BY <1>2, <1>3, <1>11, <2>1, <2>2, <2>3, LayNext
<1>13. ASSUME NEW k \in 1..Len(A9), Makes(A9[k])
       PROVE  /\ A9[k].path \in {Generations, Generation, Manifest} \cup Layout
              /\ A9[k].path = Manifest => k = Len(A9) - 1 /\ A9[k].value = StartingManifest
  <2>1. PICK t, u : t = A8 /\ u = A9
    OBVIOUS
  <2>2. u = t \o <<Step("put", Manifest, StartingManifest), Sync(Parent(Manifest))>>
    BY <2>1 DEF Write
  <2>3. Good(t) /\ \A j \in 1..Len(t) : Makes(t[j]) => t[j].path \in {Generations, Generation} \cup Layout
    BY <1>11, <2>1 DEF Laying, Layout
  <2>4. k \in 1..Len(u) /\ Makes(u[k])
    BY <1>13, <2>1
  <2>5. PairOf(t, u, k, Step("put", Manifest, StartingManifest))
    BY <2>2, <2>3, <2>4, PairAt
  <2>6. \A l \in {Generations, Generation} \cup Layout : l # Manifest
    BY DEF Path, In, Generations, Generation, Manifest, Layout
  <2>7. Len(t) \in Nat /\ Len(u) = Len(t) + 2 /\ Len(u) - 1 = Len(t) + 1
    <3>1. Len(t) \in Nat /\ Len(u) = Len(t) + 2
      BY <1>11, <2>1, <2>5 DEF Laying, PairOf
    <3>. QED
      BY <3>1
  <2>8. /\ u[k].path \in {Generations, Generation, Manifest} \cup Layout
        /\ u[k].path = Manifest => k = Len(u) - 1 /\ u[k].value = StartingManifest
    <3>1. CASE k \in 1..Len(t) /\ u[k] = t[k]
      BY <2>3, <2>4, <2>6, <3>1
    <3>2. CASE k = Len(t) + 1 /\ u[k] = Step("put", Manifest, StartingManifest)
      BY <2>7, <3>2 DEF Step
    <3>. QED
      BY <2>5, <3>1, <3>2 DEF PairOf
  <2>. QED
    BY <2>1, <2>8
<1>. HIDE DEF A9
<1>. QED
  BY <1>1, <1>12, <1>13, MadeIsAnswered DEF Laying

(***************************************************************************)
(* The steps of each call are good when it begins.                         *)
(***************************************************************************)
\* What was answered for is there, and what it needs is safe.
LEMMA AnsweredIsThere ==
  ASSUME DiskInv, NEW p \in Paths, acked[p] # Absent
  PROVE  Visible(p) /\ \A d \in Needs(p) : disk[d].safe # Absent
  BY DEF DiskInv, Linked, Kept

\* A put over what is there.
LEMMA RewriteGood ==
  ASSUME family \in Families, DiskInv, NEW p \in Paths, Visible(p), NEW v \in Holds(p),
         v.rev >= disk[p].now.rev
  PROVE  Good(Write(p, v)) /\ Answered(Write(p, v), p)
<1>1. \A d \in Needs(p) : Ready(<<>>, Len(<<>>) + 1, d)
  BY DEF Ready, DiskInv, Linked
<1>2. v.rev \in Nat /\ disk[p].now.rev \in Nat /\ acked[p].rev \in Nat
  BY HoldsAre, DiskAt DEF DiskInv
<1>3. v.rev >= acked[p].rev
  <2>1. CASE acked[p] = Absent
    BY <1>2, <2>1 DEF Absent
  <2>2. CASE acked[p] # Absent
    BY <1>2, <2>2 DEF DiskInv, Kept
  <2>. QED
    BY <2>1, <2>2
<1>4. PICK t, u : t = <<>> /\ u = t \o <<Step("put", p, v), Sync(Parent(p))>>
  OBVIOUS
<1>5. Good(u) /\ Grown(t, u, "put", p)
  BY <1>1, <1>3, <1>4, GoodEmpty, GrowPair
<1>6. Write(p, v) = u
  BY <1>4 DEF Write
<1>7. Len(u) \in Nat /\ MadeBefore(u, Len(u) + 1, p)
  BY <1>4, <1>5 DEF Grown
<1>. QED
  BY <1>5, <1>6, <1>7, MadeIsAnswered

\* Directories and plain files have one revision.
LEMMA PlainRevision ==
  ASSUME DiskTyped, NEW p \in Paths, KindOf(p) \in {"dir", "file"}, NEW v \in Holds(p)
  PROVE  v.rev >= acked[p].rev
<1>1. acked[p] = Absent \/ acked[p] \in Holds(p)
  BY DiskAt
<1>. QED
  BY <1>1, HoldsBy DEF Absent, Dir, Plain

\* What generation_update writes.
LEMMA UpdatedValue ==
  ASSUME NEW m \in ManifestValues, NEW call \in UpdateCalls
  PROVE  /\ Updated(m, call) \in ManifestValues /\ Updated(m, call).rev = m.rev + 1
         /\ Updated(m, call).failure = FirstFailure(m.failure, call.failure)
         /\ Updated(m, call).cleanup = IF call.cleanup = None THEN m.cleanup ELSE call.cleanup
         /\ FirstFailure(m.failure, call.failure) # None => Updated(m, call).outcome = "failed"
         /\ FirstFailure(m.failure, call.failure) # None /\ (m.failure # None => m.state = "failed") =>
              Updated(m, call).state = "failed"
<1>. DEFINE failure == FirstFailure(m.failure, call.failure)
            terminal == m.state \in {"stopped", "failed"}
            state == IF call.state = None \/ (terminal /\ call.state \in {"running", "ready", "stopping"})
                     THEN m.state ELSE IF failure # None THEN "failed" ELSE call.state
            outcome == IF failure # None THEN "failed" ELSE IF state = "stopped" THEN "stopped" ELSE m.outcome
            cleanup == IF call.cleanup = None THEN m.cleanup ELSE call.cleanup
<1>1. /\ m.kind = "manifest" /\ m.rev \in Nat /\ m.state \in {"starting", "ready", "stopped", "failed"}
      /\ m.failure \in Codes /\ m.outcome \in {"pending", "stopped", "failed"}
      /\ m.cleanup \in {"not_started", "uncertain", "complete"}
      /\ m = [kind |-> m.kind, rev |-> m.rev, state |-> m.state, failure |-> m.failure,
              outcome |-> m.outcome, cleanup |-> m.cleanup]
  BY DEF ManifestValues
<1>2. /\ call.state \in {None, "ready", "stopped", "failed"} /\ call.failure \in Codes
      /\ call.cleanup \in {None, "uncertain", "complete"} /\ (call.failure # None => call.state = "failed")
  BY DEF UpdateCalls
<1>3. Updated(m, call) = [m EXCEPT !.rev = m.rev + 1, !.failure = failure, !.state = state,
                                   !.cleanup = cleanup, !.outcome = outcome]
  BY DEF Updated
<1>4. failure \in Codes /\ (failure = m.failure \/ failure = call.failure)
      /\ (failure # None => m.failure # None \/ call.failure # None)
  BY <1>1, <1>2 DEF FirstFailure
<1>5. state \in {"starting", "ready", "stopped", "failed"}
  BY <1>1, <1>2 DEF None
<1>6. cleanup \in {"not_started", "uncertain", "complete"}
  BY <1>1, <1>2
<1>7. outcome \in {"pending", "stopped", "failed"} /\ (failure # None => outcome = "failed")
  BY <1>1
<1>8. failure # None /\ (m.failure # None => m.state = "failed") => state = "failed"
  BY <1>1, <1>2, <1>4 DEF None
<1>. HIDE DEF failure, state, outcome, cleanup
<1>9. PICK f, s, o, c : f = failure /\ s = state /\ o = outcome /\ c = cleanup
  OBVIOUS
<1>10. Updated(m, call) = [kind |-> m.kind, rev |-> m.rev + 1, state |-> s, failure |-> f,
                           outcome |-> o, cleanup |-> c]
  BY <1>1, <1>3, <1>9
<1>11. Updated(m, call) \in ManifestValues
  BY <1>1, <1>4, <1>5, <1>6, <1>7, <1>9, <1>10 DEF ManifestValues
<1>12. /\ Updated(m, call).rev = m.rev + 1 /\ Updated(m, call).failure = f /\ Updated(m, call).cleanup = c
       /\ Updated(m, call).outcome = o /\ Updated(m, call).state = s
  BY <1>10
<1>. QED
  BY <1>7, <1>8, <1>9, <1>11, <1>12 DEF failure, cleanup

\* A write of other fields keeps those the failure is in.
LEMMA NextManifest ==
  ASSUME NEW m \in ManifestValues
  PROVE  /\ Next1(m) \in ManifestValues /\ Next1(m).rev = m.rev + 1
         /\ Next1(m).state = m.state /\ Next1(m).failure = m.failure
         /\ Next1(m).outcome = m.outcome /\ Next1(m).cleanup = m.cleanup
<1>1. /\ m.kind = "manifest" /\ m.rev \in Nat /\ m.state \in {"starting", "ready", "stopped", "failed"}
      /\ m.failure \in Codes /\ m.outcome \in {"pending", "stopped", "failed"}
      /\ m.cleanup \in {"not_started", "uncertain", "complete"}
      /\ m = [kind |-> m.kind, rev |-> m.rev, state |-> m.state, failure |-> m.failure,
              outcome |-> m.outcome, cleanup |-> m.cleanup]
  BY DEF ManifestValues
<1>2. Next1(m) = [kind |-> m.kind, rev |-> m.rev + 1, state |-> m.state, failure |-> m.failure,
                  outcome |-> m.outcome, cleanup |-> m.cleanup]
  BY <1>1 DEF Next1
<1>. QED
  BY <1>1, <1>2 DEF ManifestValues

\* What a call on the manifest writes.
Written(call) == IF call.op = "update" THEN Updated(Now(Manifest), call) ELSE Next1(Now(Manifest))
\* The steps of a call on the manifest.
LEMMA ManifestSteps ==
  ASSUME family \in Families, DiskInv, acked[Manifest] # Absent, NEW call \in ManifestCalls
  PROVE  /\ Good(Steps(call)) /\ Answered(Steps(call), Target(call)) /\ Target(call) = Manifest
         /\ Steps(call) = Write(Manifest, Written(call)) /\ Visible(Manifest) /\ Now(Manifest) \in ManifestValues
<1>1. Manifest \in Paths
  BY PathsAre
<1>2. Visible(Manifest)
  BY <1>1, AnsweredIsThere
<1>3. Now(Manifest) \in ManifestValues /\ Holds(Manifest) = ManifestValues
  BY <1>1, <1>2, DiskAt, KindsOf, HoldsBy DEF DiskInv, Now, Visible
<1>4. Now(Manifest).rev \in Nat /\ Now(Manifest) = disk[Manifest].now
  BY <1>3 DEF ManifestValues, Now
<1>5. ASSUME NEW v \in ManifestValues, v.rev = Now(Manifest).rev + 1
      PROVE  Good(Write(Manifest, v)) /\ Answered(Write(Manifest, v), Manifest)
  BY <1>1, <1>2, <1>3, <1>4, <1>5, RewriteGood
<1>6. CASE call \in UpdateCalls
  <2>1. call.op = "update"
    BY <1>6 DEF UpdateCalls
  <2>2. Steps(call) = Write(Manifest, Updated(Now(Manifest), call)) /\ Target(call) = Manifest
    BY <2>1 DEF Steps, Target, GenerationUpdate
  <2>. QED
    BY <1>2, <1>3, <1>5, <1>6, <2>1, <2>2, UpdatedValue DEF Written
<1>7. CASE call \notin UpdateCalls
  <2>1. call.op \in {"identity", "provenance", "summarize"}
    BY <1>7 DEF ManifestCalls
  <2>2. Steps(call) = Write(Manifest, Next1(Now(Manifest))) /\ Target(call) = Manifest
    BY <2>1 DEF Steps, Target, WorkerIdentity, Provenance, SummarizeApplications
  <2>. QED
    BY <1>2, <1>3, <1>5, <2>1, <2>2, NextManifest DEF Written
<1>. QED
  BY <1>6, <1>7

\* A put of what was not there, or is of one revision.
LEMMA PutGood ==
  ASSUME family \in Families, DiskInv, NEW p \in Paths, NEW do \in {"mkdir", "create", "put"},
         NEW v \in Holds(p), do = "mkdir" => v = Dir, KindOf(p) \in {"dir", "file"},
         NEW t, Good(t), Len(t) \in Nat, \A d \in Needs(p) : Ready(t, Len(t) + 1, d),
         NEW u, u = t \o <<Step(do, p, v), Sync(Parent(p))>>
  PROVE  Good(u) /\ Grown(t, u, do, p) /\ Len(u) \in Nat
<1>1. v.rev >= acked[p].rev
  BY PlainRevision DEF DiskInv
<1>2. Good(u) /\ Grown(t, u, do, p)
  BY <1>1, GrowPair
<1>3. Len(u) = Len(t) + 2
  BY <1>2 DEF Grown
<1>. QED
  BY <1>2, <1>3

\* Before the first step of a call whose directories are safe.
LEMMA NothingYet ==
  ASSUME NEW p, \A d \in Needs(p) : disk[d].safe # Absent
  PROVE  /\ Good(<<>>) /\ Len(<<>>) \in Nat /\ \A d \in Needs(p) : Ready(<<>>, Len(<<>>) + 1, d)
  BY GoodEmpty DEF Ready

\* One new file, in a directory that is safe.
LEMMA NewGood ==
  ASSUME family \in Families, DiskInv, NEW p \in Paths, KindOf(p) \in {"dir", "file"},
         NEW do \in {"mkdir", "create", "put"}, NEW v \in Holds(p), do = "mkdir" => v = Dir,
         \A d \in Needs(p) : disk[d].safe # Absent,
         NEW u, u = <<Step(do, p, v), Sync(Parent(p))>>
  PROVE  Good(u) /\ Grown(<<>>, u, do, p) /\ Len(u) \in Nat /\ Answered(u, p)
<1>1. PICK t : t = <<>>
  OBVIOUS
<1>2. u = t \o <<Step(do, p, v), Sync(Parent(p))>>
  BY <1>1
<1>3. Good(t) /\ Len(t) \in Nat /\ \A d \in Needs(p) : Ready(t, Len(t) + 1, d)
  BY <1>1, NothingYet
<1>4. Good(u) /\ Grown(t, u, do, p) /\ Len(u) \in Nat
  BY <1>2, <1>3, PutGood
<1>5. Answered(u, p)
  BY <1>4, MadeIsAnswered DEF Grown
<1>. QED
  BY <1>1, <1>4, <1>5

\* A record behind the directory it is created in.
LEMMA RecordGood ==
  ASSUME family \in Families, DiskInv, NEW p \in Paths, NEW v \in Holds(p),
         NEW t, Good(t), Len(t) \in Nat, \A d \in Needs(p) : Ready(t, Len(t) + 1, d),
         CreatedBefore(t, Len(t) + 1, p), NEW u, u = t \o Write(p, v)
  PROVE  Good(u) /\ Answered(u, p)
<1>1. u = t \o <<Step("put", p, v), Sync(Parent(p))>>
  BY DEF Write
<1>2. Good(u) /\ Grown(t, u, "put", p)
  BY <1>1, GrowPair
<1>3. Len(u) = Len(t) + 2 /\ MadeBefore(u, Len(u) + 1, p)
  BY <1>2 DEF Grown
<1>4. Len(u) \in Nat
  BY <1>3
<1>. QED
  BY <1>2, <1>3, <1>4, MadeIsAnswered

\* What a transition writes.
LEMMA TransitionValue ==
  ASSUME NEW v \in RecordValues, NEW new \in PhaseNames, NEW end \in {"pending", "success", "unknown"}
  PROVE  LET w == [Next1(v) EXCEPT !.phase = new, !.outcome = end]
         IN w \in RecordValues /\ w.rev = v.rev + 1 /\ w.phase = new
<1>1. /\ v.kind = "record" /\ v.rev \in Nat
      /\ v = [kind |-> v.kind, rev |-> v.rev, phase |-> v.phase, outcome |-> v.outcome]
  BY DEF RecordValues
<1>2. PICK w, y : w = [y EXCEPT !.phase = new, !.outcome = end] /\ y = Next1(v)
  OBVIOUS
<1>3. y = [kind |-> v.kind, rev |-> v.rev + 1, phase |-> v.phase, outcome |-> v.outcome]
  BY <1>1, <1>2 DEF Next1
<1>4. w = [kind |-> v.kind, rev |-> v.rev + 1, phase |-> new, outcome |-> end]
  <2>1. w = [[kind |-> v.kind, rev |-> v.rev + 1, phase |-> v.phase, outcome |-> v.outcome]
               EXCEPT !.phase = new, !.outcome = end]
    BY <1>2, <1>3, Zenon
  <2>. QED
    BY <2>1
<1>5. w \in RecordValues /\ w.rev = v.rev + 1 /\ w.phase = new
  BY <1>1, <1>4 DEF RecordValues
<1>. QED
  BY <1>2, <1>5

\* What artifact_state writes.
LEMMA SettledValue ==
  ASSUME NEW v \in AllocValues
  PROVE  LET w == [Next1(v) EXCEPT !.state = "complete"] IN w \in AllocValues /\ w.rev = v.rev + 1
<1>1. /\ v.kind = "alloc" /\ v.rev \in Nat /\ v = [kind |-> v.kind, rev |-> v.rev, state |-> v.state]
  BY DEF AllocValues
<1>2. PICK w, y : w = [y EXCEPT !.state = "complete"] /\ y = Next1(v)
  OBVIOUS
<1>3. y = [kind |-> v.kind, rev |-> v.rev + 1, state |-> v.state]
  BY <1>1, <1>2 DEF Next1
<1>4. w = [kind |-> v.kind, rev |-> v.rev + 1, state |-> "complete"]
  BY <1>2, <1>3
<1>5. w \in AllocValues /\ w.rev = v.rev + 1
  BY <1>1, <1>4 DEF AllocValues
<1>. QED
  BY <1>2, <1>5

\* Whether the store knows the request of the call.
Granted(call) ==
  /\ call.op = "request" \/ acked[Record(call.n)] # Absent
  /\ call.op = "settle" => Visible(Allocated(call.n))

\* The steps of a call on a request's records.
LEMMA RequestSteps ==
  ASSUME family \in Families, family = "request", DiskInv, acked[Manifest] # Absent,
         NEW call \in RequestCalls, Granted(call)
  PROVE  Good(Steps(call)) /\ Answered(Steps(call), Target(call)) /\ Target(call) \in Paths
<1>1. call.n \in 1..Attempts /\ call.op \in {"request", "allocate", "launch", "transition", "settle"}
  BY DEF RequestCalls
<1>2. PICK n \in 1..Attempts : n = call.n
  BY <1>1
<1>3. /\ Manifest \in Paths /\ Group \in Paths /\ Attempt(n) \in Paths /\ Record(n) \in Paths
      /\ Partial(n) \in Paths /\ Allocated(n) \in Paths /\ Launch(n) \in Paths
  BY PathsAre
<1>4. /\ Holds(Group) = {Dir} /\ Holds(Attempt(n)) = {Dir} /\ Holds(Record(n)) = RecordValues
      /\ Holds(Partial(n)) = {Plain} /\ Holds(Launch(n)) = {Plain} /\ Holds(Allocated(n)) = AllocValues
  BY KindsOf, HoldsBy
<1>5. disk[In("requests")].safe # Absent
  BY <1>3, AnsweredIsThere, NeedsAre DEF Layout
<1>6. call.op # "request" => Visible(Record(n)) /\ disk[Attempt(n)].safe # Absent
  BY <1>2, <1>3, AnsweredIsThere, NeedsAre DEF Granted
<1>7. CASE call.op = "request"
  <2>1. PICK t1, t2, u : t1 = MkdirDurable(Group) /\ t2 = t1 \o Exclusive(Attempt(n))
                         /\ u = t2 \o Write(Record(n), NewRecord)
    OBVIOUS
  <2>2. Good(t1) /\ Grown(<<>>, t1, "mkdir", Group) /\ Len(t1) \in Nat
    <3>1. \A d \in Needs(Group) : disk[d].safe # Absent
      BY <1>5, NeedsAre
    <3>2. t1 = <<Step("mkdir", Group, Dir), Sync(Parent(Group))>>
      BY <2>1 DEF MkdirDurable
    <3>3. KindOf(Group) \in {"dir", "file"}
      BY KindsOf
    <3>. QED
      BY <1>3, <1>4, <3>1, <3>2, <3>3, NewGood
  <2>3. Good(t2) /\ Grown(t1, t2, "create", Attempt(n)) /\ Len(t2) \in Nat
    <3>1. \A d \in Needs(Attempt(n)) : Ready(t1, Len(t1) + 1, d)
      BY <2>2, NeedsAre DEF Grown, Ready
    <3>2. t2 = t1 \o <<Step("create", Attempt(n), Dir), Sync(Parent(Attempt(n)))>>
      BY <2>1 DEF Exclusive
    <3>3. KindOf(Attempt(n)) \in {"dir", "file"}
      BY KindsOf
    <3>. QED
      BY <1>3, <1>4, <2>2, <3>1, <3>2, <3>3, PutGood
  <2>4. Good(u) /\ Answered(u, Record(n))
    <3>1. /\ \A d \in Needs(Record(n)) : Ready(t2, Len(t2) + 1, d)
          /\ CreatedBefore(t2, Len(t2) + 1, Record(n))
      BY <2>3, NeedsAre DEF Grown, Ready
    <3>2. NewRecord \in RecordValues
      BY DEF NewRecord, RecordValues, PhaseNames
    <3>. QED
      BY <1>3, <1>4, <2>1, <2>3, <3>1, <3>2, RecordGood
  <2>5. Steps(call) = u /\ Target(call) = Record(n)
    BY <1>2, <1>7, <2>1 DEF Steps, Target, RequestAttempt
  <2>. QED
    BY <1>3, <2>4, <2>5
<1>8. CASE call.op = "allocate"
  <2>1. PICK t1, u : t1 = NewFile(Partial(n))
                     /\ u = t1 \o Write(Allocated(n), [kind |-> "alloc", rev |-> 0, state |-> "allocated"])
    OBVIOUS
  <2>2. Good(t1) /\ Grown(<<>>, t1, "create", Partial(n)) /\ Len(t1) \in Nat
    <3>1. \A d \in Needs(Partial(n)) : disk[d].safe # Absent
      BY <1>6, <1>8, NeedsAre
    <3>2. t1 = <<Step("create", Partial(n), Plain), Sync(Parent(Partial(n)))>>
      BY <2>1 DEF NewFile
    <3>3. KindOf(Partial(n)) \in {"dir", "file"}
      BY KindsOf
    <3>. QED
      BY <1>3, <1>4, <3>1, <3>2, <3>3, NewGood
  <2>3. Good(u) /\ Answered(u, Allocated(n))
    <3>1. /\ \A d \in Needs(Allocated(n)) : Ready(t1, Len(t1) + 1, d)
          /\ CreatedBefore(t1, Len(t1) + 1, Allocated(n))
      BY <1>6, <1>8, <2>2, NeedsAre DEF Grown, Ready
    <3>2. [kind |-> "alloc", rev |-> 0, state |-> "allocated"] \in AllocValues
      BY DEF AllocValues
    <3>. QED
      BY <1>3, <1>4, <2>1, <2>2, <3>1, <3>2, RecordGood
  <2>4. Steps(call) = u /\ Target(call) = Allocated(n)
    BY <1>2, <1>8, <2>1 DEF Steps, Target, Allocate
  <2>. QED
    BY <1>3, <2>3, <2>4
<1>9. CASE call.op = "launch"
  <2>1. Steps(call) = Write(Launch(n), Plain) /\ Target(call) = Launch(n)
    BY <1>2, <1>9 DEF Steps, Target, RecordLaunch
  <2>2. PICK u : u = Write(Launch(n), Plain)
    OBVIOUS
  <2>3. u = <<Step("put", Launch(n), Plain), Sync(Parent(Launch(n)))>>
    BY <2>2 DEF Write
  <2>4. \A d \in Needs(Launch(n)) : disk[d].safe # Absent
    BY <1>6, <1>9, NeedsAre
  <2>5. KindOf(Launch(n)) \in {"dir", "file"}
    BY KindsOf
  <2>6. Good(u) /\ Answered(u, Launch(n))
    BY <1>3, <1>4, <2>3, <2>4, <2>5, NewGood
  <2>. QED
    BY <1>3, <2>1, <2>2, <2>6
<1>10. CASE call.op = "transition"
  <2>1. call.phase \in PhaseNames /\ call.outcome \in {"pending", "success", "unknown"}
    BY <1>10 DEF RequestCalls
  <2>2. Now(Record(n)) \in RecordValues /\ Visible(Record(n))
    BY <1>3, <1>4, <1>6, <1>10, DiskAt DEF DiskInv, Now, Visible
  <2>3. PICK v : v = [Next1(Now(Record(n))) EXCEPT !.phase = call.phase, !.outcome = call.outcome]
    OBVIOUS
  <2>4. v \in RecordValues /\ v.rev = Now(Record(n)).rev + 1 /\ Now(Record(n)).rev \in Nat
    <3>1. PICK w, new, end : w = Now(Record(n)) /\ new = call.phase /\ end = call.outcome
      OBVIOUS
    <3>2. w \in RecordValues /\ new \in PhaseNames /\ end \in {"pending", "success", "unknown"}
      BY <2>1, <2>2, <3>1
    <3>3. v = [Next1(w) EXCEPT !.phase = new, !.outcome = end]
      BY <2>3, <3>1
    <3>4. v \in RecordValues /\ v.rev = w.rev + 1
      BY <3>2, <3>3, TransitionValue
    <3>5. w.rev \in Nat
      BY <3>2 DEF RecordValues
    <3>. QED
      BY <3>1, <3>4, <3>5
  <2>5. v.rev >= disk[Record(n)].now.rev
    BY <2>4 DEF Now
  <2>6. Good(Write(Record(n), v)) /\ Answered(Write(Record(n), v), Record(n))
    BY <1>3, <1>4, <2>2, <2>4, <2>5, RewriteGood
  <2>7. Steps(call) = Write(Record(n), v) /\ Target(call) = Record(n)
    BY <1>2, <1>10, <2>3 DEF Steps, Target, Transition
  <2>. QED
    BY <1>3, <2>6, <2>7
<1>11. CASE call.op = "settle"
  <2>1. call.state = "complete"
    BY <1>11 DEF RequestCalls
  <2>2. Visible(Allocated(n)) /\ Now(Allocated(n)) \in AllocValues
    BY <1>2, <1>3, <1>4, <1>11, DiskAt DEF DiskInv, Now, Visible, Granted
  <2>3. PICK v : v = [Next1(Now(Allocated(n))) EXCEPT !.state = "complete"]
    OBVIOUS
  <2>4. v \in AllocValues /\ v.rev = Now(Allocated(n)).rev + 1 /\ Now(Allocated(n)).rev \in Nat
    BY <2>2, <2>3, SettledValue DEF AllocValues
  <2>5. v.rev >= disk[Allocated(n)].now.rev
    BY <2>4 DEF Now
  <2>6. Good(Write(Allocated(n), v)) /\ Answered(Write(Allocated(n), v), Allocated(n))
    BY <1>3, <1>4, <2>2, <2>4, <2>5, RewriteGood
  <2>7. Steps(call) = Write(Allocated(n), v) /\ Target(call) = Allocated(n)
    BY <1>2, <1>11, <2>1, <2>3 DEF Steps, Target, ArtifactState
  <2>. QED
    BY <1>3, <2>6, <2>7
<1>. QED
  BY <1>1, <1>7, <1>8, <1>9, <1>10, <1>11

\* What an application's record names, and that it reads back, by its five window fields.
LEMMA AppShape ==
  ASSUME NEW v \in AppValues
  PROVE  /\ v.kind = "app" /\ v.rev \in Nat /\ v.state \in {"prepared", "running", "all-exited"}
         /\ v.windows \in Named /\ v.publication \in {None, "pending", "confirmed"}
         /\ v.confirmed \in References /\ v.previous \in References /\ v.candidate \in References
         /\ v = [kind |-> v.kind, rev |-> v.rev, state |-> v.state, windows |-> v.windows,
                 publication |-> v.publication, confirmed |-> v.confirmed, previous |-> v.previous,
                 candidate |-> v.candidate]
  BY DEF AppValues

\* A record of an application, field by field.
LEMMA AppBuilt ==
  ASSUME NEW r \in Nat, NEW s \in {"prepared", "running", "all-exited"}, NEW ws \in Named,
         NEW p \in {None, "pending", "confirmed"}, NEW c \in References, NEW b \in References,
         NEW n \in References
  PROVE  [kind |-> "app", rev |-> r, state |-> s, windows |-> ws, publication |-> p,
          confirmed |-> c, previous |-> b, candidate |-> n] \in AppValues
  BY DEF AppValues

\* A change of the application's state leaves its windows alone.
LEMMA AppUpdateValue ==
  ASSUME NEW v \in AppValues, NEW new \in {"running", "all-exited"}, NEW w, w = [Next1(v) EXCEPT !.state = new]
  PROVE  /\ w \in AppValues /\ w.rev = v.rev + 1 /\ w.windows = v.windows /\ w.publication = v.publication
         /\ w.confirmed = v.confirmed /\ w.previous = v.previous /\ w.candidate = v.candidate
<1>1. PICK k, r, ws, p, c, b, n :
        /\ k = v.kind /\ r = v.rev + 1 /\ ws = v.windows /\ p = v.publication
        /\ c = v.confirmed /\ b = v.previous /\ n = v.candidate
  OBVIOUS
<1>2. v = [kind |-> k, rev |-> v.rev, state |-> v.state, windows |-> ws, publication |-> p,
           confirmed |-> c, previous |-> b, candidate |-> n]
  BY <1>1, AppShape
<1>3. PICK y : y = Next1(v)
  OBVIOUS
<1>4. y = [kind |-> k, rev |-> r, state |-> v.state, windows |-> ws, publication |-> p,
           confirmed |-> c, previous |-> b, candidate |-> n]
  BY <1>1, <1>2, <1>3 DEF Next1
<1>5. w = [kind |-> k, rev |-> r, state |-> new, windows |-> ws, publication |-> p,
           confirmed |-> c, previous |-> b, candidate |-> n]
  BY <1>3, <1>4
<1>6. r \in Nat
  BY <1>1, AppShape
<1>7. /\ k = "app" /\ new \in {"prepared", "running", "all-exited"} /\ ws \in Named /\ p \in {None, "pending", "confirmed"}
      /\ c \in References /\ b \in References /\ n \in References
  BY <1>1, AppShape
<1>8. w \in AppValues
  <2>1. [kind |-> "app", rev |-> r, state |-> new, windows |-> ws, publication |-> p,
         confirmed |-> c, previous |-> b, candidate |-> n] \in AppValues
    BY <1>6, <1>7, AppBuilt
  <2>2. k = "app"
    BY <1>7
  <2>. QED
    BY <1>5, <2>1, <2>2
<1>. QED
  BY <1>1, <1>5, <1>8

\* What application_windows writes names the windows of the call, and reads back.
LEMMA WindowsValue ==
  ASSUME NEW v \in AppValues, NEW call \in PublishCalls, NEW w, w = Windows(v, call)
  PROVE  /\ w \in AppValues /\ w.rev = v.rev + 1
         /\ NamesOf(w) = {call.previous, call.candidate}
         /\ \A r \in ReadBack(w) : r = Whole(r.query)
<1>1. /\ call.previous \in Named /\ call.candidate \in Named /\ call.state \in {"pending", "confirmed"}
  BY DEF PublishCalls, Named
<1>2. PICK k, r, s : k = v.kind /\ r = v.rev + 1 /\ s = v.state
  OBVIOUS
<1>3. PICK a, b, st : a = call.previous /\ b = call.candidate /\ st = call.state
  OBVIOUS
<1>4. /\ \A q \in Named : Whole(q) \in References /\ Pointer(q) \in References
      /\ \A q : Whole(q).query = q /\ Pointer(q).query = q
      /\ \A q : [Pointer(q) EXCEPT !.windows = q] = Whole(q)
      /\ \A q : [Whole(q) EXCEPT !.windows = q] = Whole(q)
  BY DEF Whole, Pointer, References, Named
<1>5. k = "app" /\ r \in Nat /\ s \in {"prepared", "running", "all-exited"}
  BY <1>2, AppShape
<1>6. CASE st = "confirmed"
  <2>1. w = [kind |-> k, rev |-> r, state |-> s, windows |-> b, publication |-> st,
             confirmed |-> Pointer(b), previous |-> Whole(a), candidate |-> Pointer(b)]
    <3>1. w = [v EXCEPT !.rev = r, !.publication = st, !.windows = b, !.confirmed = Pointer(b),
                        !.previous = Whole(a), !.candidate = Pointer(b)]
      BY <1>2, <1>3, <1>6 DEF Windows
    <3>2. v = [kind |-> k, rev |-> v.rev, state |-> s, windows |-> v.windows, publication |-> v.publication,
               confirmed |-> v.confirmed, previous |-> v.previous, candidate |-> v.candidate]
      BY <1>2, AppShape
    <3>3. w = [[kind |-> k, rev |-> v.rev, state |-> s, windows |-> v.windows, publication |-> v.publication,
                confirmed |-> v.confirmed, previous |-> v.previous, candidate |-> v.candidate]
                 EXCEPT !.rev = r, !.publication = st, !.windows = b, !.confirmed = Pointer(b),
                        !.previous = Whole(a), !.candidate = Pointer(b)]
      BY <3>1, <3>2, Zenon
    <3>. QED
      BY <3>3
  <2>2. w \in AppValues /\ w.rev = r /\ w.publication # "pending" /\ w.windows = b
        /\ w.confirmed = Pointer(b) /\ w.previous = Whole(a) /\ w.candidate = Pointer(b)
    BY <1>1, <1>3, <1>4, <1>5, <1>6, <2>1 DEF AppValues
  <2>3. NamesOf(w) = {a, b}
    BY <1>4, <2>2 DEF NamesOf
  <2>4. ReadBack(w) = {Whole(b), Whole(a)}
    BY <1>4, <2>2 DEF ReadBack
  <2>. QED
    BY <1>2, <1>3, <1>4, <2>2, <2>3, <2>4
<1>7. CASE st = "pending"
  <2>1. w = [kind |-> k, rev |-> r, state |-> s, windows |-> a, publication |-> st,
             confirmed |-> Pointer(a), previous |-> Pointer(a), candidate |-> Whole(b)]
    <3>1. w = [v EXCEPT !.rev = r, !.publication = st, !.windows = a, !.confirmed = Pointer(a),
                        !.previous = Pointer(a), !.candidate = Whole(b)]
      BY <1>2, <1>3, <1>7 DEF Windows
    <3>2. v = [kind |-> k, rev |-> v.rev, state |-> s, windows |-> v.windows, publication |-> v.publication,
               confirmed |-> v.confirmed, previous |-> v.previous, candidate |-> v.candidate]
      BY <1>2, AppShape
    <3>3. w = [[kind |-> k, rev |-> v.rev, state |-> s, windows |-> v.windows, publication |-> v.publication,
                confirmed |-> v.confirmed, previous |-> v.previous, candidate |-> v.candidate]
                 EXCEPT !.rev = r, !.publication = st, !.windows = a, !.confirmed = Pointer(a),
                        !.previous = Pointer(a), !.candidate = Whole(b)]
      BY <3>1, <3>2, Zenon
    <3>. QED
      BY <3>3
  <2>2. w \in AppValues /\ w.rev = r /\ w.publication = "pending" /\ w.windows = a
        /\ w.confirmed = Pointer(a) /\ w.previous = Pointer(a) /\ w.candidate = Whole(b)
    BY <1>1, <1>3, <1>4, <1>5, <1>7, <2>1 DEF AppValues
  <2>3. NamesOf(w) = {a, b}
    BY <1>4, <2>2 DEF NamesOf
  <2>4. ReadBack(w) = {Whole(b), Whole(a)}
    BY <1>4, <2>2 DEF ReadBack
  <2>. QED
    BY <1>2, <1>3, <1>4, <2>2, <2>3, <2>4
<1>. QED
  BY <1>1, <1>3, <1>6, <1>7

\* The flag of window_observation, among the steps.
LEMMA MarkGood ==
  ASSUME Seen \in Paths, NEW t, Good(t), Len(t) \in Nat, Ready(t, Len(t) + 1, Seen), NEW u, u = t \o <<Mark>>
  PROVE  Good(u) /\ Len(u) \in Nat /\ \A d : Ready(t, Len(t) + 1, d) => Ready(u, Len(u) + 1, d)
<1>1. Mark \in AnyStep /\ Mark.do = "mark"
  BY DEF Mark, Step, AnyStep, Values
<1>2. /\ u \in Seq(AnyStep) /\ Len(u) = Len(t) + 1 /\ u[Len(t) + 1] = Mark
      /\ \A k \in 1..Len(t) : u[k] = t[k]
  BY <1>1 DEF Good
<1>3. ASSUME NEW k \in 1..(Len(t) + 1), NEW d
      PROVE  /\ CreatedBefore(t, k, d) => CreatedBefore(u, k, d)
             /\ Ready(t, k, d) => Ready(u, k, d)
  <2>1. k \in Nat /\ k <= k /\ \A j \in 1..(k - 1) : u[j] = t[j]
    BY <1>2
  <2>. QED
    BY <2>1, ReadyStays
<1>4. ASSUME NEW k \in 1..Len(u)
      PROVE  StepOK(u, k)
  <2>1. CASE k \in 1..Len(t)
    <3>1. StepOK(t, k) /\ u[k] = t[k] /\ k \in 1..(Len(t) + 1)
      BY <1>2, <2>1 DEF Good
    <3>2. \A d : /\ CreatedBefore(t, k, d) => CreatedBefore(u, k, d)
                 /\ Ready(t, k, d) => Ready(u, k, d)
      BY <1>3, <3>1
    <3>3. ASSUME Makes(u[k])
          PROVE  k < Len(t) /\ u[k + 1] = t[k + 1] /\ k < Len(u)
      <4>1. k < Len(t)
        BY <3>1, <3>3 DEF StepOK
      <4>. QED
        BY <1>2, <2>1, <4>1
    <3>. QED
      BY <3>1, <3>2, <3>3 DEF StepOK
  <2>2. CASE k = Len(t) + 1
    <3>1. k \in 1..(Len(t) + 1)
      BY <2>2
    <3>2. u[k].do = "mark" /\ Ready(u, k, Seen)
      BY <1>1, <1>2, <1>3, <2>2, <3>1
    <3>. QED
      BY <3>2 DEF StepOK, Makes
  <2>. QED
    BY <1>2, <2>1, <2>2
<1>5. PICK k, l : k = Len(t) + 1 /\ l = Len(u) + 1
  OBVIOUS
<1>6. k \in Nat /\ l \in Nat /\ k <= l /\ \A j \in 1..(k - 1) : u[j] = t[j]
  BY <1>2, <1>5
<1>7. \A d : Ready(t, k, d) => Ready(u, l, d)
  BY <1>6, ReadyStays
<1>. QED
  BY <1>2, <1>4, <1>5, <1>7 DEF Good

\* The steps of a publication.
LEMMA ObserveGood ==
  ASSUME family \in Families, family = "windows", DiskInv, acked[Manifest] # Absent,
         known => Seen \in Paths /\ disk[Seen].safe # Absent, NEW q \in Queries
  PROVE  Good(Publication(q)) /\ Answered(Publication(q), Observation(q))
<1>1. Manifest \in Paths /\ Seen \in Paths /\ Observation(q) \in Paths
  BY PathsAre
<1>2. Dir \in Holds(Seen) /\ Plain \in Holds(Observation(q))
      /\ KindOf(Seen) \in {"dir", "file"} /\ KindOf(Observation(q)) \in {"dir", "file"}
  BY KindsOf, HoldsBy
<1>3. PICK t1 : t1 = IF known /\ Visible(Seen) THEN <<>> ELSE MkdirDurable(Seen)
  OBVIOUS
<1>4. Good(t1) /\ Len(t1) \in Nat /\ Ready(t1, Len(t1) + 1, Seen)
  <2>1. CASE known /\ Visible(Seen)
    <3>1. t1 = <<>> /\ disk[Seen].safe # Absent
      BY <1>3, <2>1
    <3>. QED
      BY <3>1, GoodEmpty DEF Ready
  <2>2. CASE ~(known /\ Visible(Seen))
    <3>1. t1 = <<Step("mkdir", Seen, Dir), Sync(Parent(Seen))>>
      BY <1>3, <2>2 DEF MkdirDurable
    <3>2. \A d \in Needs(Seen) : disk[d].safe # Absent
      BY <1>1, AnsweredIsThere, NeedsAre
    <3>3. Good(t1) /\ Grown(<<>>, t1, "mkdir", Seen) /\ Len(t1) \in Nat
      BY <1>1, <1>2, <3>1, <3>2, NewGood
    <3>. QED
      BY <3>3 DEF Grown, Ready
  <2>. QED
    BY <2>1, <2>2
<1>5. PICK t2 : t2 = t1 \o <<Mark>>
  OBVIOUS
<1>6. Good(t2) /\ Len(t2) \in Nat /\ Ready(t2, Len(t2) + 1, Seen)
  BY <1>1, <1>4, <1>5, MarkGood
<1>7. PICK u : u = t2 \o NewFile(Observation(q))
  OBVIOUS
<1>8. u = t2 \o <<Step("create", Observation(q), Plain), Sync(Parent(Observation(q)))>>
  BY <1>7 DEF NewFile
<1>9. \A d \in Needs(Observation(q)) : Ready(t2, Len(t2) + 1, d)
  BY <1>6, NeedsAre
<1>10. Good(u) /\ Grown(t2, u, "create", Observation(q)) /\ Len(u) \in Nat
  BY <1>1, <1>2, <1>6, <1>8, <1>9, PutGood
<1>11. Answered(u, Observation(q))
  BY <1>10, MadeIsAnswered DEF Grown
<1>12. Publication(q) = u
  BY <1>3, <1>5, <1>7 DEF Publication
<1>. QED
  BY <1>10, <1>11, <1>12

\* The steps of an application's preparation.
LEMMA PrepareGood ==
  ASSUME family \in Families, family = "windows", DiskInv, acked[Manifest] # Absent
  PROVE  Good(ApplicationPrepare) /\ Answered(ApplicationPrepare, AppRecord)
<1>1. /\ Manifest \in Paths /\ App \in Paths /\ Processes \in Paths /\ AppRecord \in Paths
      /\ Dir \in Holds(App) /\ Dir \in Holds(Processes) /\ Holds(AppRecord) = AppValues
      /\ KindOf(App) \in {"dir", "file"} /\ KindOf(Processes) \in {"dir", "file"}
  BY PathsAre, KindsOf, HoldsBy
<1>2. \A d \in Needs(App) : disk[d].safe # Absent
  BY <1>1, AnsweredIsThere, NeedsAre DEF Layout
<1>3. PICK t1, t2, u : t1 = Exclusive(App) /\ t2 = t1 \o Exclusive(Processes)
                       /\ u = t2 \o Write(AppRecord, NewApp)
  OBVIOUS
<1>4. Good(t1) /\ Grown(<<>>, t1, "create", App) /\ Len(t1) \in Nat
  <2>1. t1 = <<Step("create", App, Dir), Sync(Parent(App))>>
    BY <1>3 DEF Exclusive
  <2>. QED
    BY <1>1, <1>2, <2>1, NewGood
<1>5. Ready(t1, Len(t1) + 1, App) /\ CreatedBefore(t1, Len(t1) + 1, AppRecord)
  BY <1>4, NeedsAre DEF Grown, Ready
<1>6. Good(t2) /\ Grown(t1, t2, "create", Processes) /\ Len(t2) \in Nat
  <2>1. t2 = t1 \o <<Step("create", Processes, Dir), Sync(Parent(Processes))>>
    BY <1>3 DEF Exclusive
  <2>2. \A d \in Needs(Processes) : Ready(t1, Len(t1) + 1, d)
    BY <1>5, NeedsAre
  <2>. QED
    BY <1>1, <1>4, <2>1, <2>2, PutGood
<1>7. \A d \in Needs(AppRecord) : Ready(t2, Len(t2) + 1, d)
  BY <1>5, <1>6, NeedsAre DEF Grown, Ready
<1>8. CreatedBefore(t2, Len(t2) + 1, AppRecord)
  BY <1>5, <1>6 DEF Grown
<1>9. NewApp \in AppValues
  BY DEF NewApp, NoReference, AppValues, References, Named
<1>10. Good(u) /\ Answered(u, AppRecord)
  BY <1>1, <1>3, <1>6, <1>7, <1>8, <1>9, RecordGood
<1>11. ApplicationPrepare = u
  BY <1>3 DEF ApplicationPrepare
<1>. QED
  BY <1>10, <1>11

\* What a call on the application's record writes over what is there.
AppWritten(call) ==
  IF call.op = "app" THEN [Next1(Now(AppRecord)) EXCEPT !.state = call.state]
  ELSE Windows(Now(AppRecord), call)
\* The steps of a call on an application's records.
LEMMA WindowSteps ==
  ASSUME family \in Families, family = "windows", DiskInv, acked[Manifest] # Absent,
         known => Seen \in Paths /\ disk[Seen].safe # Absent,
         NEW call \in WindowsCalls, InUse(call) => Visible(AppRecord)
  PROVE  /\ Good(Steps(call)) /\ Answered(Steps(call), Target(call)) /\ Target(call) \in Paths
         /\ call.op \in {"app", "windows"} =>
              Steps(call) = Write(AppRecord, AppWritten(call)) /\ Now(AppRecord) \in AppValues
<1>1. /\ AppRecord \in Paths /\ Process \in Paths /\ \A q \in Queries : Observation(q) \in Paths
      /\ Holds(AppRecord) = AppValues /\ Plain \in Holds(Process) /\ KindOf(Process) \in {"dir", "file"}
  BY PathsAre, KindsOf, HoldsBy
<1>2. call.op \in {"prepare", "processes", "app", "observe", "windows"}
  BY DEF WindowsCalls, PublishCalls
<1>3. CASE call.op = "prepare"
  <2>1. Steps(call) = ApplicationPrepare /\ Target(call) = AppRecord
    BY <1>3 DEF Steps, Target
  <2>. QED
    BY <1>1, <1>3, <2>1, PrepareGood
<1>4. CASE call.op = "observe"
  <2>1. call.q \in Queries
    BY <1>4 DEF WindowsCalls, PublishCalls
  <2>2. Steps(call) = Publication(call.q) /\ Target(call) = Observation(call.q)
    BY <1>4 DEF Steps, Target
  <2>. QED
    BY <1>1, <1>4, <2>1, <2>2, ObserveGood
<1>5. InUse(call) => Now(AppRecord) \in AppValues /\ Visible(AppRecord)
  BY <1>1, DiskAt DEF DiskInv, Now, Visible
<1>6. CASE call.op = "processes"
  <2>1. Steps(call) = Write(Process, Plain) /\ Target(call) = Process
    BY <1>6 DEF Steps, Target, ApplicationProcesses
  <2>2. \A d \in Needs(Process) : disk[d].safe # Absent
    BY <1>1, <1>5, <1>6, NeedsAre DEF DiskInv, Linked, InUse
  <2>3. PICK u : u = Write(Process, Plain)
    OBVIOUS
  <2>4. u = <<Step("put", Process, Plain), Sync(Parent(Process))>>
    BY <2>3 DEF Write
  <2>5. Good(u) /\ Answered(u, Process)
    BY <1>1, <2>2, <2>4, NewGood
  <2>. QED
    BY <1>1, <1>6, <2>1, <2>3, <2>5
<1>7. ASSUME call.op \in {"app", "windows"}, NEW v \in AppValues, v.rev = Now(AppRecord).rev + 1
      PROVE  Good(Write(AppRecord, v)) /\ Answered(Write(AppRecord, v), AppRecord)
  <2>1. Visible(AppRecord) /\ Now(AppRecord).rev \in Nat /\ Now(AppRecord) = disk[AppRecord].now
    BY <1>5, <1>7, AppShape DEF InUse, Now
  <2>. QED
    BY <1>1, <1>7, <2>1, RewriteGood
<1>8. CASE call.op = "app"
  <2>1. call.state \in {"running", "all-exited"}
    BY <1>8 DEF WindowsCalls, PublishCalls
  <2>2. Steps(call) = Write(AppRecord, AppWritten(call)) /\ Target(call) = AppRecord
    BY <1>8 DEF Steps, Target, ApplicationUpdate, AppWritten
  <2>3. AppWritten(call) = [Next1(Now(AppRecord)) EXCEPT !.state = call.state]
    BY <1>8 DEF AppWritten
  <2>4. AppWritten(call) \in AppValues /\ AppWritten(call).rev = Now(AppRecord).rev + 1
    BY ZenonT(30), <1>5, <1>8, <2>1, <2>3, AppUpdateValue DEF InUse
  <2>. QED
    BY <1>1, <1>5, <1>7, <1>8, <2>2, <2>4 DEF InUse
<1>9. CASE call.op = "windows"
  <2>1. call \in PublishCalls
    BY <1>9 DEF WindowsCalls, PublishCalls
  <2>2. Steps(call) = Write(AppRecord, AppWritten(call)) /\ Target(call) = AppRecord
    BY <1>9 DEF Steps, Target, ApplicationWindows, AppWritten
  <2>3. AppWritten(call) = Windows(Now(AppRecord), call)
    BY <1>9 DEF AppWritten
  <2>4. AppWritten(call) \in AppValues /\ AppWritten(call).rev = Now(AppRecord).rev + 1
    BY <1>5, <1>9, <2>1, <2>3, WindowsValue DEF InUse
  <2>. QED
    BY <1>1, <1>5, <1>7, <1>9, <2>2, <2>4 DEF InUse
<1>. QED
  BY <1>2, <1>3, <1>4, <1>6, <1>8, <1>9

(***************************************************************************)
(* A step is taken.                                                        *)
(***************************************************************************)
\* What every step does to the disk: nothing that is there goes, an entry made is
\* there, and a directory synced makes what is in it safe.
Forward(s) ==
  /\ \A x \in Paths : disk[x].safe # Absent => disk'[x].safe # Absent
  /\ \A x \in Paths : disk[x].now # Absent => disk'[x].now # Absent
  /\ Makes(s) => disk'[s.path].now # Absent
  /\ \A x \in Paths : s = Sync(Parent(x)) /\ disk[x].now # Absent => disk'[x].safe # Absent

\* The steps left after the first.
LEMMA TailOf ==
  ASSUME NEW t, Good(t), t # <<>>, NEW u, u = Tail(t)
  PROVE  /\ Len(t) \in Nat /\ Len(t) >= 1 /\ Head(t) = t[1] /\ t[1] \in AnyStep /\ StepOK(t, 1)
         /\ u \in Seq(AnyStep) /\ Len(u) = Len(t) - 1 /\ \A k \in 1..Len(u) : u[k] = t[k + 1]
<1>1. t \in Seq(AnyStep) /\ \A k \in 1..Len(t) : StepOK(t, k)
  BY DEF Good
<1>2. Len(t) \in Nat /\ Len(t) >= 1 /\ Head(t) = t[1] /\ t[1] \in AnyStep
  BY <1>1
<1>3. u \in Seq(AnyStep) /\ Len(u) = Len(t) - 1 /\ \A k \in 1..Len(u) : u[k] = t[k + 1]
  BY <1>1
<1>. QED
  BY <1>1, <1>2, <1>3

\* What was ready before a step is ready after it.
LEMMA ReadyStep ==
  ASSUME NEW t, Good(t), t # <<>>, NEW u, u = Tail(t), Forward(t[1]),
         NEW k \in 1..Len(u), Makes(t[1]) => k > 1, NEW d \in Paths, Ready(t, k + 1, d)
  PROVE  Ready(u, k, d)'
<1>1. /\ Len(t) \in Nat /\ StepOK(t, 1) /\ Len(u) = Len(t) - 1 /\ k \in Nat
      /\ \A j \in 1..Len(u) : u[j] = t[j + 1]
  BY TailOf
<1>2. CASE disk[d].safe # Absent
  BY <1>2 DEF Forward, Ready
<1>3. ASSUME NEW j \in 1..(k + 1 - 1), Makes(t[j]), t[j].path = d
      PROVE  Ready(u, k, d)'
  <2>1. CASE j = 1
    <3>1. k > 1 /\ disk'[d].now # Absent
      BY <1>3, <2>1 DEF Forward
    <3>2. u[1] = Sync(Parent(d))
      <4>1. 1 < Len(t) /\ t[1 + 1] = Sync(Parent(t[1].path))
        BY <1>1, <1>3, <2>1 DEF StepOK
      <4>2. 1 \in 1..Len(u)
        BY <1>1, <4>1
      <4>3. u[1] = t[1 + 1]
        BY <1>1, <4>2
      <4>. QED
        BY <1>3, <2>1, <4>1, <4>3
    <3>. QED
      BY <3>1, <3>2 DEF Ready, Visible
  <2>2. CASE j # 1
    <3>1. j - 1 \in 1..(k - 1) /\ j - 1 \in 1..Len(u) /\ (j - 1) + 1 = j
      BY <1>1, <2>2
    <3>2. u[j - 1] = t[j]
      BY <1>1, <3>1
    <3>3. MadeBefore(u, k, d)
      BY <1>3, <3>1, <3>2 DEF MadeBefore
    <3>. QED
      BY <3>3 DEF Ready, MadeBefore
  <2>. QED
    BY <2>1, <2>2
<1>4. CASE Visible(d) /\ t[1] = Sync(Parent(d))
  BY <1>4 DEF Ready, Forward, Visible
<1>. QED
  BY <1>2, <1>3, <1>4 DEF Ready, MadeBefore

\* The steps that are left stay good.
LEMMA GoodStep ==
  ASSUME family \in Families, family' = family, acked' = acked, DiskInv,
         NEW t, Good(t), t # <<>>, NEW u, u = Tail(t), Forward(t[1]), ~Impossible(t[1])
  PROVE  Good(u)'
<1>1. /\ Len(t) \in Nat /\ StepOK(t, 1) /\ Len(u) = Len(t) - 1 /\ u \in Seq(AnyStep)
      /\ \A j \in 1..Len(u) : u[j] = t[j + 1]
  BY TailOf
<1>2. Paths' = Paths
  BY DEF Paths
<1>3. ASSUME NEW k \in 1..Len(u)
      PROVE  StepOK(u, k)'
  <2>1. StepOK(t, k + 1) /\ u[k] = t[k + 1] /\ k + 1 \in 1..Len(t) /\ k \in Nat
    BY <1>1 DEF Good
  <2>2. u[k].do \in {"mkdir", "create", "put", "mark"} /\ Makes(t[1]) => k > 1
    <3>1. SUFFICES ASSUME Makes(t[1]), k = 1  PROVE u[k].do = "sync"
      BY <2>1
    <3>2. t[1 + 1] = Sync(Parent(t[1].path))
      BY <1>1, <3>1 DEF StepOK
    <3>. QED
      BY <2>1, <3>1, <3>2 DEF Sync, Step
  <2>3. ASSUME u[k].do \in {"mkdir", "create", "put", "mark"}, NEW d \in Paths, Ready(t, k + 1, d)
        PROVE  Ready(u, k, d)'
    BY <2>2, <2>3, ReadyStep
  <2>4. ASSUME Makes(u[k])
        PROVE  /\ u[k].path \in Paths' /\ u[k].value \in Holds(u[k].path)
               /\ u[k].do = "mkdir" => u[k].value = Dir
               /\ k < Len(u) /\ u[k + 1] = Sync(Parent(u[k].path))
               /\ \A d \in Needs(u[k].path) : Ready(u, k, d)'
               /\ u[k].value.rev >= acked'[u[k].path].rev \/ CreatedBefore(u, k, u[k].path)
    <3>1. /\ u[k].path \in Paths /\ u[k].value \in Holds(u[k].path)
          /\ u[k].do = "mkdir" => u[k].value = Dir
          /\ k + 1 < Len(t) /\ t[k + 1 + 1] = Sync(Parent(u[k].path))
          /\ \A d \in Needs(u[k].path) : Ready(t, k + 1, d)
          /\ u[k].value.rev >= acked[u[k].path].rev \/ CreatedBefore(t, k + 1, u[k].path)
      BY <2>1, <2>4 DEF StepOK
    <3>2. k < Len(u) /\ k + 1 \in 1..Len(u)
      BY <1>1, <3>1
    <3>3. u[k + 1] = Sync(Parent(u[k].path))
      BY <1>1, <3>1, <3>2
    <3>4. \A d \in Needs(u[k].path) : Ready(u, k, d)'
      BY <2>3, <2>4, <3>1, NeedsIn DEF Makes
    <3>5. ASSUME CreatedBefore(t, k + 1, u[k].path)
          PROVE  u[k].value.rev >= acked[u[k].path].rev \/ CreatedBefore(u, k, u[k].path)
      <4>1. PICK j \in 1..(k + 1 - 1) : t[j].do = "create" /\ t[j].path \in Needs(u[k].path)
        BY <3>5 DEF CreatedBefore
      <4>2. CASE j = 1
        <5>1. ~Visible(t[1].path) /\ t[1].path \in Paths
          BY <1>1, <4>1, <4>2 DEF Impossible, StepOK, Makes
        <5>2. disk[t[1].path].safe = Absent
          BY <5>1 DEF DiskInv, Linked
        <5>3. acked[u[k].path] = Absent
          BY <3>1, <4>1, <4>2, <5>2, AnsweredIsThere
        <5>4. u[k].value.rev \in Nat
          BY <3>1, HoldsAre
        <5>. QED
          BY <5>3, <5>4 DEF Absent
      <4>3. CASE j # 1
        <5>1. j - 1 \in 1..(k - 1) /\ j - 1 \in 1..Len(u) /\ (j - 1) + 1 = j
          BY <2>1, <4>3
        <5>2. u[j - 1] = t[j]
          BY <1>1, <5>1
        <5>. QED
          BY <4>1, <5>1, <5>2 DEF CreatedBefore
      <4>. QED
        BY <4>2, <4>3
    <3>. QED
      BY <1>2, <3>1, <3>2, <3>3, <3>4, <3>5
  <2>5. ASSUME u[k].do = "mark"
        PROVE  Seen \in Paths' /\ Ready(u, k, Seen)'
    <3>1. Seen \in Paths /\ Ready(t, k + 1, Seen)
      BY <2>1, <2>5 DEF StepOK
    <3>. QED
      BY <1>2, <2>3, <2>5, <3>1
  <2>6. CreatedBefore(u, k, u[k].path) => CreatedBefore(u, k, u[k].path)'
    BY DEF CreatedBefore
  <2>. QED
    BY <2>4, <2>5, <2>6 DEF StepOK
<1>4. AnyStep' = AnyStep
  BY <1>2 DEF AnyStep
<1>. QED
  BY <1>1, <1>3, <1>4 DEF Good

\* Where a step leaves a path: as it was, made, or synced.
Changes(s) ==
  /\ disk' \in [Paths -> [now : Values, safe : Values]]
  /\ \A x \in Paths :
       IF Makes(s) /\ s.path = x THEN disk'[x].now = s.value /\ disk'[x].safe = disk[x].safe
       ELSE IF s = Sync(Parent(x)) THEN disk'[x].now = disk[x].now /\ disk'[x].safe = disk[x].now
       ELSE disk'[x] = disk[x]

\* A step changes the disk as it says.
LEMMA DoChanges ==
  ASSUME family \in Families, DiskInv, Good(todo), Do
  PROVE  Changes(todo[1]) /\ todo # <<>> /\ todo' = Tail(todo) /\ ~Impossible(todo[1])
<1>1. /\ todo # <<>> /\ ~Impossible(Head(todo)) /\ disk' = Effect(Head(todo)) /\ todo' = Tail(todo)
  BY DEF Do
<1>2. PICK s : s = todo[1]
  OBVIOUS
<1>3. Head(todo) = s /\ s \in AnyStep /\ StepOK(todo, 1)
  BY <1>1, <1>2, TailOf
<1>4. disk \in [Paths -> [now : Values, safe : Values]]
  BY DEF DiskInv, DiskTyped
<1>5. disk' = Effect(s)
  BY <1>1, <1>3
<1>6. CASE s.do = "sync"
  <2>1. disk' = [x \in Paths |-> IF Parent(x) = s.path THEN [disk[x] EXCEPT !.safe = disk[x].now] ELSE disk[x]]
    BY <1>5, <1>6 DEF Effect
  <2>3. ASSUME NEW x \in Paths
        PROVE  /\ disk'[x] \in [now : Values, safe : Values]
               /\ s = Sync(Parent(x)) => disk'[x].now = disk[x].now /\ disk'[x].safe = disk[x].now
               /\ s # Sync(Parent(x)) => disk'[x] = disk[x]
    <3>1. disk[x] = [now |-> disk[x].now, safe |-> disk[x].safe] /\ disk[x].now \in Values
      BY <1>4
    <3>2. Parent(x) = s.path <=> s = Sync(Parent(x))
      <4>1. s = [do |-> "sync", path |-> s.path, value |-> Dir]
        BY <1>3, <1>6 DEF AnyStep
      <4>2. \A d : Sync(d) = [do |-> "sync", path |-> d, value |-> Dir]
        BY DEF Sync, Step
      <4>. QED
        BY <4>1, <4>2
    <3>3. CASE Parent(x) = s.path
      <4>1. disk'[x] = [disk[x] EXCEPT !.safe = disk[x].now]
        BY <2>1, <3>3
      <4>2. disk'[x] = [now |-> disk[x].now, safe |-> disk[x].now]
        BY <3>1, <4>1
      <4>. QED
        BY <3>1, <3>2, <3>3, <4>2
    <3>4. CASE Parent(x) # s.path
      BY <1>4, <2>1, <3>2, <3>4
    <3>. QED
      BY <3>3, <3>4
  <2>4. disk' \in [Paths -> [now : Values, safe : Values]]
    BY <2>1, <2>3
  <2>5. ~Makes(s)
    BY <1>6 DEF Makes
  <2>. QED
    BY <1>1, <1>2, <1>3, <2>3, <2>4, <2>5 DEF Changes
<1>7. CASE s.do = "mark"
  <2>1. disk' = disk
    BY <1>5, <1>7 DEF Effect
  <2>2. ~Makes(s) /\ \A x : s # Sync(x)
    BY <1>7 DEF Makes, Sync, Step
  <2>. QED
    BY <1>1, <1>2, <1>3, <1>4, <2>1, <2>2 DEF Changes
<1>8. CASE Makes(s)
  <2>1. s.path \in Paths /\ s.value \in Values /\ (s.do = "mkdir" => s.value = Dir)
    BY <1>2, <1>3, <1>8, HoldsAre DEF StepOK
  <2>2. disk' = [disk EXCEPT ![s.path].now = s.value]
    BY <1>5, <1>8, <2>1 DEF Effect, Makes
  <2>3. \A x : s # Sync(x)
    BY <1>8 DEF Makes, Sync, Step
  <2>4. disk[s.path] = [now |-> disk[s.path].now, safe |-> disk[s.path].safe] /\ disk[s.path].safe \in Values
    BY <1>4, <2>1
  <2>5. disk'[s.path] = [now |-> s.value, safe |-> disk[s.path].safe]
    BY <1>4, <2>1, <2>2, <2>4
  <2>6. \A x \in Paths : x # s.path => disk'[x] = disk[x]
    BY <1>4, <2>1, <2>2
  <2>7. disk' \in [Paths -> [now : Values, safe : Values]]
    BY <1>4, <2>1, <2>2, <2>4, <2>5, <2>6
  <2>. QED
    BY <1>1, <1>2, <1>3, <1>8, <2>3, <2>5, <2>6, <2>7 DEF Changes
<1>9. s.do \in {"sync", "mkdir", "create", "put", "mark"}
  BY <1>3 DEF AnyStep
<1>. QED
  BY <1>6, <1>7, <1>8, <1>9 DEF Makes

\* No step takes away what is there.
LEMMA GoesForward ==
  ASSUME DiskInv, NEW s, Changes(s), Makes(s) => s.path \in Paths /\ s.value \in Holds(s.path)
  PROVE  Forward(s)
<1>1. Makes(s) => s.value # Absent /\ disk'[s.path].now # Absent
  BY HoldsAre DEF Changes
<1>2. ASSUME NEW x \in Paths
      PROVE  /\ disk[x].safe # Absent => disk'[x].safe # Absent
             /\ disk[x].now # Absent => disk'[x].now # Absent
             /\ s = Sync(Parent(x)) /\ disk[x].now # Absent => disk'[x].safe # Absent
  <2>1. disk[x].safe # Absent => disk[x].now # Absent
    BY DEF DiskInv, Linked, Visible
  <2>2. s = Sync(Parent(x)) => ~Makes(s)
    BY DEF Sync, Step, Makes
  <2>3. CASE Makes(s) /\ s.path = x
    BY <1>1, <2>2, <2>3 DEF Changes
  <2>4. CASE ~(Makes(s) /\ s.path = x) /\ s = Sync(Parent(x))
    BY <2>1, <2>4 DEF Changes
  <2>5. CASE ~(Makes(s) /\ s.path = x) /\ s # Sync(Parent(x))
    BY <2>5 DEF Changes
  <2>. QED
    BY <2>3, <2>4, <2>5
<1>. QED
  BY <1>1, <1>2 DEF Forward

\* A good step keeps what holds of the disk.
LEMMA DoDisk ==
  ASSUME family \in Families, family' = family, acked' = acked, DiskInv, NEW t, Good(t), t # <<>>,
         Changes(t[1])
  PROVE  DiskInv' /\ Forward(t[1])
<1>1. StepOK(t, 1) /\ Len(t) \in Nat
  BY TailOf
<1>2. PICK s : s = t[1]
  OBVIOUS
<1>3. Makes(s) => /\ s.path \in Paths /\ s.value \in Holds(s.path)
                  /\ \A d \in Needs(s.path) : disk[d].safe # Absent
                  /\ s.value.rev >= acked[s.path].rev
  BY <1>1, <1>2 DEF StepOK, Ready, MadeBefore, CreatedBefore
<1>4. Forward(s)
  BY <1>2, <1>3, GoesForward
<1>5. Paths' = Paths
  BY DEF Paths
<1>6. ASSUME NEW x \in Paths
      PROVE  /\ disk'[x].now \in MayHold(x) /\ disk'[x].safe \in MayHold(x)
             /\ disk'[x].safe # Absent => disk'[x].now # Absent
             /\ disk'[x].now # Absent => \A d \in Needs(x) : disk'[d].safe # Absent
             /\ acked[x] # Absent =>
                  disk'[x].safe # Absent /\ disk'[x].safe.rev >= acked[x].rev /\ disk'[x].now.rev >= acked[x].rev
  <2>1. /\ disk[x].now \in MayHold(x) /\ disk[x].safe \in MayHold(x)
        /\ disk[x].safe # Absent => disk[x].now # Absent
        /\ disk[x].now # Absent => \A d \in Needs(x) : disk[d].safe # Absent
        /\ acked[x] # Absent =>
             disk[x].safe # Absent /\ disk[x].safe.rev >= acked[x].rev /\ disk[x].now.rev >= acked[x].rev
    BY DEF DiskInv, DiskTyped, Linked, Kept, Visible
  <2>2. Needs(x) \subseteq Paths
    BY NeedsIn
  <2>3. CASE Makes(s) /\ s.path = x
    <3>1. disk'[x].now = s.value /\ disk'[x].safe = disk[x].safe
      BY <1>2, <2>3 DEF Changes
    <3>2. s.value # Absent /\ s.value \in MayHold(x)
      BY <1>3, <2>3, HoldsAre DEF MayHold
    <3>3. \A d \in Needs(x) : disk'[d].safe # Absent
      BY <1>3, <1>4, <2>2, <2>3 DEF Forward
    <3>. QED
      BY <1>3, <2>1, <2>3, <3>1, <3>2, <3>3
  <2>4. CASE ~(Makes(s) /\ s.path = x) /\ s = Sync(Parent(x))
    <3>1. disk'[x].now = disk[x].now /\ disk'[x].safe = disk[x].now
      BY <1>2, <2>4 DEF Changes
    <3>2. \A d \in Needs(x) : disk[d].safe # Absent => disk'[d].safe # Absent
      BY <1>4, <2>2 DEF Forward
    <3>. QED
      BY <2>1, <3>1, <3>2
  <2>5. CASE ~(Makes(s) /\ s.path = x) /\ s # Sync(Parent(x))
    <3>1. disk'[x] = disk[x]
      BY <1>2, <2>5 DEF Changes
    <3>2. \A d \in Needs(x) : disk[d].safe # Absent => disk'[d].safe # Absent
      BY <1>4, <2>2 DEF Forward
    <3>. QED
      BY <2>1, <3>1, <3>2
  <2>. QED
    BY <2>3, <2>4, <2>5
<1>7. DiskTyped'
  <2>1. disk' \in [Paths -> [now : Values, safe : Values]] /\ acked' \in [Paths -> Values]
    BY DEF Changes, DiskInv, DiskTyped
  <2>2. \A x \in Paths : acked[x] \in MayHold(x)
    BY DEF DiskInv, DiskTyped
  <2>. QED
    BY <1>5, <1>6, <2>1, <2>2 DEF DiskTyped
<1>8. Linked'
  BY <1>5, <1>6 DEF Linked, Visible
<1>9. Kept'
  BY <1>5, <1>6 DEF Kept
<1>. QED
  BY <1>2, <1>4, <1>7, <1>8, <1>9 DEF DiskInv

\* What the steps answer for stays so, with one fewer.
LEMMA AnsweredStep ==
  ASSUME NEW t, Good(t), t # <<>>, NEW u, u = Tail(t), Changes(t[1]), Forward(t[1]),
         NEW p \in Paths, Answered(t, p)
  PROVE  Answered(u, p)'
<1>1. /\ Len(t) \in Nat /\ StepOK(t, 1) /\ Len(u) = Len(t) - 1 /\ Len(t) >= 1
      /\ \A j \in 1..Len(u) : u[j] = t[j + 1]
  BY TailOf
<1>2. ASSUME NEW k \in 1..Len(t), k # 1
      PROVE  k - 1 \in 1..Len(u) /\ u[k - 1] = t[k]
  <2>1. k - 1 \in 1..Len(u) /\ (k - 1) + 1 = k
    BY <1>1, <1>2
  <2>. QED
    BY <1>1, <2>1
<1>3. CASE Makes(t[1]) /\ t[1].path = p
  <2>1. disk'[p].now # Absent
    BY <1>3 DEF Forward
  <2>2. 1 < Len(t) /\ t[1 + 1] = Sync(Parent(p))
    BY <1>1, <1>3 DEF StepOK
  <2>3. 2 \in 1..Len(t) /\ 2 - 1 = 1 /\ 1 + 1 = 2
    BY <1>1, <2>2
  <2>4. 1 \in 1..Len(u) /\ u[1] = Sync(Parent(p))
    BY <1>2, <2>2, <2>3
  <2>. QED
    BY <2>1, <2>4 DEF Answered, Visible
<1>4. ASSUME NEW k \in 1..Len(t), Makes(t[k]), t[k].path = p, k # 1
      PROVE  Answered(u, p)'
  <2>1. k - 1 \in 1..Len(u) /\ u[k - 1] = t[k]
    BY <1>2, <1>4
  <2>2. \E j \in 1..Len(u) : Makes(u[j]) /\ u[j].path = p
    BY <1>4, <2>1
  <2>. QED
    BY <2>2 DEF Answered
<1>5. CASE Visible(p) /\ ~(Makes(t[1]) /\ t[1].path = p)
             /\ (disk[p].now = disk[p].safe \/ \E k \in 1..Len(t) : t[k] = Sync(Parent(p)))
  <2>1. disk'[p].now # Absent
    BY <1>5 DEF Forward, Visible
  <2>2. CASE t[1] = Sync(Parent(p))
    <3>1. disk'[p].now = disk'[p].safe
      BY <1>5, <2>2 DEF Changes
    <3>. QED
      BY <2>1, <3>1 DEF Answered, Visible
  <2>3. CASE t[1] # Sync(Parent(p)) /\ disk[p].now = disk[p].safe
    <3>1. disk'[p].now = disk'[p].safe
      BY <1>5, <2>3 DEF Changes
    <3>. QED
      BY <2>1, <3>1 DEF Answered, Visible
  <2>4. ASSUME t[1] # Sync(Parent(p)), NEW k \in 1..Len(t), t[k] = Sync(Parent(p))
        PROVE  Answered(u, p)'
    <3>1. k - 1 \in 1..Len(u) /\ u[k - 1] = t[k]
      BY <1>2, <2>4
    <3>2. \E j \in 1..Len(u) : u[j] = Sync(Parent(p))
      BY <2>4, <3>1
    <3>. QED
      BY <2>1, <3>2 DEF Answered, Visible
  <2>. QED
    BY <1>5, <2>2, <2>3, <2>4
<1>. QED
  BY <1>3, <1>4, <1>5 DEF Answered

(***************************************************************************)
(* What each action leaves alone.                                          *)
(***************************************************************************)
\* What the owner does between two turns of the writer.
OwnerActs ==
  \/ Readiness \/ RecordFailure \/ Quit \/ Observe \/ Allocations \/ Settle
  \/ Prepare \/ Persist \/ Query \/ Publish \/ Published \/ Abandon \/ CheckpointTurn

\* The owner touches neither the disk nor the call in progress.
LEMMA OwnerFrame ==
  ASSUME OwnerActs
  PROVE  role = "worker" /\ UNCHANGED <<disk, acked, known, todo, job, role, faults, family>>
<1>1. ASSUME Readiness \/ RecordFailure \/ Quit
      PROVE  role = "worker" /\ UNCHANGED <<disk, acked, known, todo, job, role, faults, family>>
  BY <1>1 DEF Readiness, RecordFailure, Quit, Up, Quiet, fs
<1>2. ASSUME Observe \/ Allocations \/ Settle
      PROVE  role = "worker" /\ UNCHANGED <<disk, acked, known, todo, job, role, faults, family>>
  BY <1>2 DEF Observe, Allocations, Settle, Up, Quiet, fs
<1>3. ASSUME Prepare \/ Persist \/ Query \/ Publish
      PROVE  role = "worker" /\ UNCHANGED <<disk, acked, known, todo, job, role, faults, family>>
  BY <1>3 DEF Prepare, Persist, Query, Publish, Up, Quiet, fs
<1>4. ASSUME Published \/ Abandon \/ CheckpointTurn
      PROVE  role = "worker" /\ UNCHANGED <<disk, acked, known, todo, job, role, faults, family>>
  BY <1>4 DEF Published, Abandon, CheckpointTurn, Up, Quiet, fs
<1>. QED
  BY <1>1, <1>2, <1>3, <1>4 DEF OwnerActs

\* Only a step, an answer and a power loss touch the disk or what was answered for.
LEMMA NextFrame ==
  ASSUME Next
  PROVE  /\ family' = family
         /\ Do \/ Return \/ PowerLoss \/ UNCHANGED <<disk, acked>>
<1>1. CASE OwnerActs
  BY <1>1, OwnerFrame
<1>2. CASE Take \/ Fail \/ Kill \/ WorkerStarts \/ Exit \/ Finalize \/ TakeFinal
  BY <1>2 DEF Take, Fail, Kill, WorkerStarts, Exit, Finalize, TakeFinal, fs
<1>3. CASE Do \/ Return \/ PowerLoss
  BY <1>3 DEF Do, Return, PowerLoss
<1>. QED
  BY <1>1, <1>2, <1>3 DEF Next, OwnerActs

\* What a call answers for is a path of the behaviour.
LEMMA TargetIn ==
  ASSUME family \in Families, NEW call \in Calls \cup {Creating}
  PROVE  Target(call) \in Paths
<1>0. family \in {"manifest", "request", "windows"}
  BY StoreAssumption
<1>1. CASE call = Creating
  BY <1>1, PathsAre DEF Creating, Target
<1>2. CASE family = "manifest" /\ call \in ManifestCalls
  <2>1. call.op \in {"update", "identity", "provenance", "summarize"}
    BY <1>2 DEF ManifestCalls, UpdateCalls
  <2>. QED
    BY <2>1, PathsAre DEF Target
<1>3. CASE family = "request" /\ call \in RequestCalls
  <2>1. call.op \in {"request", "transition", "allocate", "settle", "launch"} /\ call.n \in 1..Attempts
    BY <1>3 DEF RequestCalls
  <2>2. Record(call.n) \in Paths /\ Allocated(call.n) \in Paths /\ Launch(call.n) \in Paths
    BY <1>3, <2>1, PathsAre
  <2>. QED
    BY <2>1, <2>2 DEF Target
<1>4. CASE family = "windows" /\ call \in WindowsCalls
  <2>1. call.op \in {"prepare", "app", "windows", "processes", "observe"}
    BY <1>4 DEF WindowsCalls, PublishCalls
  <2>2. call.op = "observe" => call.q \in Queries
    BY <1>4 DEF WindowsCalls, PublishCalls
  <2>3. AppRecord \in Paths /\ Process \in Paths /\ \A q \in Queries : Observation(q) \in Paths
    BY <1>4, PathsAre
  <2>. QED
    BY <2>1, <2>2, <2>3 DEF Target
<1>. QED
  BY <1>0, <1>1, <1>2, <1>3, <1>4 DEF Calls

\* The disk is as it was.
LEMMA DiskFrame ==
  ASSUME DiskInv, UNCHANGED <<disk, acked, family>>
  PROVE  DiskInv'
<1>1. Paths' = Paths
  BY DEF Paths
<1>2. DiskTyped'
  BY <1>1 DEF DiskInv, DiskTyped
<1>3. Linked'
  BY <1>1 DEF DiskInv, Linked, Visible
<1>4. Kept'
  BY <1>1 DEF DiskInv, Kept
<1>. QED
  BY <1>2, <1>3, <1>4 DEF DiskInv

\* A call that is done has what it answers for on the disk, for sure.
LEMMA DoneIsSafe ==
  ASSUME NEW p, Answered(<<>>, p)
  PROVE  Visible(p) /\ disk[p].now = disk[p].safe
  BY DEF Answered

\* A call returns.
LEMMA ReturnDisk ==
  ASSUME family \in Families, DiskInv, NEW p \in Paths, Answered(<<>>, p),
         acked' = [acked EXCEPT ![p] = Now(p)], UNCHANGED <<disk, family>>
  PROVE  DiskInv' /\ \A x \in Paths : acked[x] # Absent => acked'[x] # Absent
<1>1. Paths' = Paths
  BY DEF Paths
<1>2. Visible(p) /\ disk[p].now = disk[p].safe
  BY DoneIsSafe
<1>3. acked \in [Paths -> Values] /\ disk[p].now \in MayHold(p) /\ disk[p].now \in Values
  BY DiskAt DEF DiskInv, DiskTyped
<1>4. acked' \in [Paths -> Values] /\ acked'[p] = disk[p].now /\ \A x \in Paths : x # p => acked'[x] = acked[x]
  BY <1>3 DEF Now
<1>5. DiskTyped'
  BY <1>1, <1>3, <1>4 DEF DiskInv, DiskTyped
<1>6. Linked'
  BY <1>1 DEF DiskInv, Linked, Visible
<1>7. disk[p].now.rev \in Nat
  BY DiskAt DEF DiskInv
<1>8. Kept'
  <2>1. ASSUME NEW x \in Paths, acked'[x] # Absent
        PROVE  disk[x].safe # Absent /\ disk[x].safe.rev >= acked'[x].rev /\ disk[x].now.rev >= acked'[x].rev
    <3>1. CASE x = p
      BY <1>2, <1>4, <1>7, <3>1 DEF Visible
    <3>2. CASE x # p
      BY <1>4, <2>1, <3>2 DEF DiskInv, Kept
    <3>. QED
      BY <3>1, <3>2
  <2>. QED
    BY <1>1, <2>1 DEF Kept
<1>. QED
  BY <1>2, <1>4, <1>5, <1>6, <1>8 DEF DiskInv, Visible

\* What a power loss can leave at a path.
LEMMA LossLeaves ==
  ASSUME family \in Families, DiskInv, PowerLoss
  PROVE  /\ disk' \in [Paths -> [now : Values, safe : Values]] /\ acked' = acked /\ family' = family
         /\ \A x \in Paths : disk'[x].now = disk'[x].safe /\ disk'[x].now \in {Absent, disk[x].now, disk[x].safe}
         /\ \A x \in Paths : disk[x].safe # Absent => disk'[x].now \in {disk[x].now, disk[x].safe}
         /\ \A x \in Paths : disk'[x].now # Absent => Visible(x)
<1>1. PICK kept \in SUBSET {p \in Paths : disk[p].now # disk[p].safe} :
        LET left == [p \in Paths |-> IF p \in kept THEN disk[p].now ELSE disk[p].safe]
            there(p) == \A d \in Ancestors(p) : left[d] = Dir
        IN disk' = [p \in Paths |-> LET v == IF there(p) THEN left[p] ELSE Absent IN [now |-> v, safe |-> v]]
  BY DEF PowerLoss
<1>2. PICK left : left = [p \in Paths |-> IF p \in kept THEN disk[p].now ELSE disk[p].safe]
  OBVIOUS
<1>3. disk' = [p \in Paths |-> [now  |-> IF \A d \in Ancestors(p) : left[d] = Dir THEN left[p] ELSE Absent,
                                safe |-> IF \A d \in Ancestors(p) : left[d] = Dir THEN left[p] ELSE Absent]]
  BY <1>1, <1>2
<1>4. ASSUME NEW x \in Paths
      PROVE  /\ left[x] \in {disk[x].now, disk[x].safe} /\ left[x] \in Values
             /\ left[x] # Absent => Visible(x)
             /\ disk[x].safe # Absent => left[x] # Absent
  <2>1. left[x] \in {disk[x].now, disk[x].safe}
    BY <1>2
  <2>2. disk[x].safe # Absent => Visible(x)
    BY DEF DiskInv, Linked
  <2>3. disk[x].now \in Values /\ disk[x].safe \in Values
    BY DiskAt DEF DiskInv
  <2>. QED
    BY <2>1, <2>2, <2>3 DEF Visible
<1>5. ASSUME NEW x \in Paths, Visible(x)
      PROVE  \A d \in Ancestors(x) : left[d] = Dir
  <2>1. Standing(x)
    BY <1>5, VisibleStands DEF DiskInv
  <2>2. ASSUME NEW d \in Ancestors(x)
        PROVE  left[d] = Dir
    <3>1. d \in Paths /\ KindOf(d) = "dir" /\ disk[d].safe = Dir
      BY <2>1, <2>2, AncestorsAre DEF Standing
    <3>2. Dir # Absent
      BY DEF Dir, Absent
    <3>3. disk[d].now # Absent
      BY <3>1, <3>2 DEF DiskInv, Linked, Visible
    <3>4. disk[d].now = Dir
      BY <3>1, <3>3, DiskAt, HoldsBy DEF DiskInv
    <3>. QED
      BY <1>4, <3>1, <3>4
  <2>. QED
    BY <2>2
<1>6. ASSUME NEW x \in Paths
      PROVE  /\ disk'[x] \in [now : Values, safe : Values]
             /\ disk'[x].now = disk'[x].safe /\ disk'[x].now \in {Absent, disk[x].now, disk[x].safe}
             /\ disk[x].safe # Absent => disk'[x].now \in {disk[x].now, disk[x].safe}
             /\ disk'[x].now # Absent => Visible(x)
  <2>1. PICK v : v = IF \A d \in Ancestors(x) : left[d] = Dir THEN left[x] ELSE Absent
    OBVIOUS
  <2>2. disk'[x] = [now |-> v, safe |-> v]
    BY <1>3, <2>1
  <2>3. v \in Values /\ v \in {Absent, disk[x].now, disk[x].safe} /\ (v # Absent => Visible(x))
    BY <1>4, <2>1 DEF Values
  <2>4. disk[x].safe # Absent => v = left[x]
    BY <1>4, <1>5, <2>1
  <2>. QED
    BY <1>4, <2>2, <2>3, <2>4
<1>7. disk' \in [Paths -> [now : Values, safe : Values]]
  BY <1>3, <1>6
<1>. QED
  BY <1>6, <1>7 DEF PowerLoss

\* A power loss keeps what was answered for.
LEMMA LossDisk ==
  ASSUME family \in Families, DiskInv, PowerLoss
  PROVE  DiskInv'
<1>1. /\ disk' \in [Paths -> [now : Values, safe : Values]] /\ acked' = acked /\ Paths' = Paths
      /\ \A x \in Paths : disk'[x].now = disk'[x].safe /\ disk'[x].now \in {Absent, disk[x].now, disk[x].safe}
      /\ \A x \in Paths : disk[x].safe # Absent => disk'[x].now \in {disk[x].now, disk[x].safe}
      /\ \A x \in Paths : disk'[x].now # Absent => Visible(x)
  BY LossLeaves DEF Paths
<1>2. \A x \in Paths : disk[x].safe # Absent => disk[x].now # Absent
  BY DEF DiskInv, Linked, Visible
<1>3. DiskTyped'
  <2>1. \A x \in Paths : disk[x].now \in MayHold(x) /\ disk[x].safe \in MayHold(x) /\ Absent \in MayHold(x)
    BY DEF DiskInv, DiskTyped, MayHold
  <2>2. acked \in [Paths -> Values] /\ \A x \in Paths : acked[x] \in MayHold(x)
    BY DEF DiskInv, DiskTyped
  <2>3. \A x \in Paths : disk'[x].now \in MayHold(x) /\ disk'[x].safe \in MayHold(x)
    BY <1>1, <2>1
  <2>. QED
    BY <1>1, <2>2, <2>3 DEF DiskTyped
<1>4. ASSUME NEW x \in Paths, disk'[x].now # Absent
      PROVE  \A d \in Needs(x) : disk'[d].safe # Absent
  <2>1. Needs(x) \subseteq Paths /\ \A d \in Needs(x) : disk[d].safe # Absent
    BY <1>1, <1>4, NeedsIn DEF DiskInv, Linked
  <2>. QED
    BY <1>1, <1>2, <2>1
<1>5. Linked'
  BY <1>1, <1>4 DEF Linked, Visible
<1>6. ASSUME NEW x \in Paths, acked[x] # Absent
      PROVE  disk'[x].safe # Absent /\ disk'[x].safe.rev >= acked[x].rev /\ disk'[x].now.rev >= acked[x].rev
  <2>1. disk[x].safe # Absent /\ disk[x].safe.rev >= acked[x].rev /\ disk[x].now.rev >= acked[x].rev
    BY <1>6 DEF DiskInv, Kept
  <2>2. disk'[x].now = disk[x].now \/ disk'[x].now = disk[x].safe
    BY <1>1, <2>1
  <2>. QED
    BY <1>1, <1>2, <2>1, <2>2
<1>7. Kept'
  BY <1>1, <1>6 DEF Kept
<1>. QED
  BY <1>3, <1>5, <1>7 DEF DiskInv

\* A step of a call that is under way.
LEMMA DoCall ==
  ASSUME family \in Families, DiskInv, CallInv, job \in Calls \cup {Idle, Creating}, Do
  PROVE  /\ DiskInv' /\ CallInv' /\ Forward(todo[1]) /\ Changes(todo[1]) /\ Good(todo) /\ todo # <<>>
         /\ todo' = Tail(todo)
         /\ UNCHANGED <<acked, job, queue, role, faults, family, owner>>
<1>1. UNCHANGED <<acked, job, queue, role, faults, family, owner>> /\ Busy
  BY DEF Do
<1>2. Good(todo) /\ Answered(todo, Target(job))
  BY <1>1 DEF CallInv
<1>3. Changes(todo[1]) /\ todo # <<>> /\ todo' = Tail(todo) /\ ~Impossible(todo[1])
  BY <1>2, DoChanges
<1>4. PICK t, u : t = todo /\ u = Tail(t)
  OBVIOUS
<1>5. Good(t) /\ t # <<>> /\ Changes(t[1]) /\ ~Impossible(t[1]) /\ todo' = u
  BY <1>2, <1>3, <1>4
<1>6. DiskInv' /\ Forward(t[1])
  BY <1>1, <1>5, DoDisk
<1>7. Good(u)'
  BY <1>1, <1>4, <1>5, <1>6, GoodStep
<1>8. PICK p : p = Target(job)
  OBVIOUS
<1>9. p \in Paths /\ Answered(t, p)
  BY <1>1, <1>2, <1>4, <1>8, TargetIn DEF Busy
<1>10. Answered(u, p)'
  BY <1>4, <1>5, <1>6, <1>9, AnsweredStep
<1>11. Target(job)' = p
  BY <1>1, <1>8 DEF Target
<1>12. known' => Seen \in Paths /\ disk'[Seen].safe # Absent
  <2>1. known' = (known \/ t[1].do = "mark")
    BY <1>2, <1>3, <1>4, TailOf DEF Do
  <2>2. CASE known
    BY <1>6, <2>2 DEF CallInv, Forward
  <2>3. CASE t[1].do = "mark"
    <3>1. Seen \in Paths /\ Ready(t, 1, Seen)
      BY <1>5, <2>3, TailOf DEF StepOK
    <3>2. disk[Seen].safe # Absent
      BY <3>1 DEF Ready, MadeBefore
    <3>. QED
      BY <1>6, <3>1, <3>2 DEF Forward
  <2>. QED
    BY <2>1, <2>2, <2>3
<1>13. CallInv'
  <2>1. Good(todo)'
    BY <1>5, <1>7
  <2>2. Answered(todo, Target(job))'
    BY <1>5, <1>10, <1>11
  <2>3. Busy' /\ Paths' = Paths
    BY <1>1 DEF Busy, Paths
  <2>. QED
    BY <1>12, <2>1, <2>2, <2>3 DEF CallInv
<1>. QED
  BY <1>1, <1>2, <1>3, <1>4, <1>6, <1>13

\* The call in progress stays as it was, or there is none.
LEMMA CallFrame ==
  ASSUME CallInv, UNCHANGED <<disk, acked, todo, job, family>>, known' \in {known, FALSE}
  PROVE  CallInv'
<1>1. Paths' = Paths
  BY DEF Paths
<1>2. Good(todo)' <=> Good(todo)
  <2>1. \A k : StepOK(todo, k)' <=> StepOK(todo, k)
    BY <1>1 DEF StepOK, Ready, MadeBefore, CreatedBefore, Visible
  <2>2. AnyStep' = AnyStep
    BY <1>1 DEF AnyStep
  <2>. QED
    BY <2>1, <2>2 DEF Good
<1>3. Busy' <=> Busy
  BY DEF Busy
<1>4. Target(job)' = Target(job)
  BY DEF Target
<1>5. Answered(todo, Target(job))' <=> Answered(todo, Target(job))
  BY <1>4 DEF Answered, Visible
<1>6. known' => Seen \in Paths' /\ disk'[Seen].safe # Absent
  <2>1. known => Seen \in Paths /\ disk[Seen].safe # Absent
    BY DEF CallInv
  <2>. QED
    BY <1>1, <2>1
<1>7. IF Busy' THEN Answered(todo, Target(job))' ELSE todo' = <<>>
  BY <1>3, <1>5 DEF CallInv
<1>. QED
  BY <1>2, <1>6, <1>7 DEF CallInv

\* No call is in progress any more.
LEMMA CallOver ==
  ASSUME todo' = <<>>, job' = Idle, known' => Seen \in Paths' /\ disk'[Seen].safe # Absent
  PROVE  CallInv'
<1>1. Good(todo)'
  BY DEF Good
<1>. QED
  BY <1>1 DEF CallInv, Busy

(***************************************************************************)
(* The owner.                                                              *)
(***************************************************************************)
\* The calls of each family.
LEMMA CallIs ==
  ASSUME family \in Families, NEW call \in Calls
  PROVE  /\ call # Creating /\ call # Idle /\ call.op \notin {"create", None}
         /\ family = "manifest" =>
              call \in ManifestCalls /\ call.op \in {"update", "identity", "provenance", "summarize"}
         /\ family = "request" =>
              /\ call \in RequestCalls /\ call.n \in 1..Attempts
              /\ call.op \in {"request", "transition", "allocate", "settle", "launch"}
         /\ family = "windows" =>
              call \in WindowsCalls /\ call.op \in {"prepare", "app", "windows", "processes", "observe"}
         /\ call.op = "observe" => call.q \in Queries
         /\ call.op = "windows" => call \in PublishCalls
<1>0. family \in {"manifest", "request", "windows"}
  BY StoreAssumption
<1>1. family = "manifest" =>
        call \in ManifestCalls /\ call.op \in {"update", "identity", "provenance", "summarize"}
  BY DEF Calls, ManifestCalls, UpdateCalls
<1>2. family = "request" =>
        /\ call \in RequestCalls /\ call.n \in 1..Attempts
        /\ call.op \in {"request", "transition", "allocate", "settle", "launch"}
  BY DEF Calls, RequestCalls
<1>3. family = "windows" =>
        /\ call \in WindowsCalls /\ call.op \in {"prepare", "app", "windows", "processes", "observe"}
        /\ call.op = "observe" => call.q \in Queries
        /\ call.op = "windows" => call \in PublishCalls
  <2>1. SUFFICES ASSUME family = "windows"
                 PROVE  /\ call \in WindowsCalls
                        /\ call.op \in {"prepare", "app", "windows", "processes", "observe"}
                        /\ call.op = "observe" => call.q \in Queries
                        /\ call.op = "windows" => call \in PublishCalls
    OBVIOUS
  <2>2. call \in WindowsCalls
    BY <2>1 DEF Calls
  <2>3. call.op \in {"prepare", "app", "windows", "processes", "observe"}
    BY <2>2 DEF WindowsCalls, PublishCalls
  <2>4. call.op = "observe" => call.q \in Queries
    BY <2>2 DEF WindowsCalls, PublishCalls
  <2>5. call.op = "windows" => call \in PublishCalls
    BY <2>2 DEF WindowsCalls
  <2>. QED
    BY <2>2, <2>3, <2>4, <2>5
<1>4. call.op \notin {"create", None}
  BY <1>0, <1>1, <1>2, <1>3 DEF None
<1>5. call # Creating /\ call # Idle
  BY <1>4 DEF Creating, Idle
<1>. QED
  BY <1>0, <1>1, <1>2, <1>3, <1>4, <1>5

\* An answer changes a ticket, and no more than one.
LEMMA ToldIs ==
  ASSUME tickets \in [1..Attempts -> Answers], published \in Remembered, life \in {"up", "failing", "quit"},
         NEW call, NEW word, (word = "ok" /\ Told(call, TRUE)) \/ (word = "failed" /\ Told(call, FALSE))
  PROVE  /\ made' = made /\ early' = early /\ life' \in {"up", "failing", "quit"}
         /\ tickets' \in [1..Attempts -> Answers]
         /\ \A n \in 1..Attempts : tickets'[n] = tickets[n] \/ (call.op = "request" /\ n = call.n /\ tickets'[n] = word)
         /\ published' \in Remembered
         /\ published'.current = published.current /\ published'.previous = published.previous
         /\ published'.query = published.query /\ published'.at = published.at
         /\ published'.checkpoint = published.checkpoint
         /\ \/ published'.ticket = published.ticket
            \/ /\ published'.ticket = word
               /\ \/ call.op = "observe" /\ published.at = "observe" /\ published.query = call.q
                  \/ published.at = "publish" /\ Pending(call, published.query)
<1>1. word \in Answers
  BY DEF Answers
<1>2. /\ made' = made /\ early' = early
      /\ tickets' = tickets \/ (call.op = "request" /\ tickets' = [tickets EXCEPT ![call.n] = word])
      /\ life' = life \/ life' = "failing"
      /\ \/ published' = published
         \/ /\ published' = [published EXCEPT !.ticket = word]
            /\ \/ call.op = "observe" /\ published.at = "observe" /\ published.query = call.q
               \/ published.at = "publish" /\ Pending(call, published.query)
  <2>1. CASE word = "ok" /\ Told(call, TRUE)
    BY <2>1 DEF Told, Pending
  <2>2. CASE word = "failed" /\ Told(call, FALSE)
    BY <2>2 DEF Told, Pending
  <2>. QED
    BY <2>1, <2>2
<1>3. /\ tickets' \in [1..Attempts -> Answers]
      /\ \A n \in 1..Attempts : tickets'[n] = tickets[n] \/ (call.op = "request" /\ n = call.n /\ tickets'[n] = word)
  BY <1>1, <1>2
<1>4. ASSUME published' = [published EXCEPT !.ticket = word]
      PROVE  /\ published' \in Remembered /\ published'.ticket = word
             /\ published'.current = published.current /\ published'.previous = published.previous
             /\ published'.query = published.query /\ published'.at = published.at
             /\ published'.checkpoint = published.checkpoint
  BY <1>1, <1>4 DEF Remembered
<1>. QED
  BY <1>2, <1>3, <1>4

\* What is queued is queued behind what is.
LEMMA QueueGrown ==
  ASSUME NEW q \in Seq(Calls), NEW c \in Seq(Calls), NEW u, u = q \o c
  PROVE  /\ u \in Seq(Calls) /\ Len(u) = Len(q) + Len(c) /\ Len(q) \in Nat /\ Len(c) \in Nat
         /\ \A i \in 1..Len(q) : u[i] = q[i] /\ i \in 1..Len(u)
         /\ \A i \in 1..Len(u) :
              \/ i \in 1..Len(q) /\ u[i] = q[i]
              \/ i - Len(q) \in 1..Len(c) /\ u[i] = c[i - Len(q)] /\ i > Len(q)
  OBVIOUS

\* The oldest call is taken.
LEMMA QueueTaken ==
  ASSUME NEW q \in Seq(Calls), q # <<>>, NEW u, u = Tail(q)
  PROVE  /\ u \in Seq(Calls) /\ Len(u) = Len(q) - 1 /\ Len(q) \in Nat /\ Len(q) >= 1 /\ 1 \in 1..Len(q)
         /\ Head(q) = q[1] /\ Head(q) \in Calls
         /\ \A i \in 1..Len(u) : u[i] = q[i + 1] /\ i + 1 \in 1..Len(q) /\ i + 1 \in (1 + 1)..Len(q)
  OBVIOUS

\* An update of the manifest, as the processes queue it.
LEMMA UpdateIs ==
  ASSUME family = "manifest", NEW state \in {None, "ready", "stopped", "failed"}, NEW failure \in Codes,
         NEW cleanup \in {None, "uncertain", "complete"}, failure # None => state = "failed"
  PROVE  /\ Update(state, failure, cleanup) \in Calls /\ Update(state, failure, cleanup).op = "update"
         /\ Update(state, failure, cleanup).failure = failure /\ Update(state, failure, cleanup).cleanup = cleanup
  BY DEF Update, UpdateCalls, ManifestCalls, Calls

\* The owner of the generation queues no complete record.
LEMMA ManifestActs ==
  ASSUME OwnerTyped, Readiness \/ RecordFailure \/ Quit
  PROVE  /\ family = "manifest" /\ UNCHANGED <<tickets, published>> /\ life' \in {"up", "failing", "quit"}
         /\ early' \in {None, "cause"}
         /\ \E c \in Seq(Calls) :
              queue' = queue \o c /\ \A i \in 1..Len(c) : c[i].op = "update" => c[i].cleanup # "complete"
<1>1. CASE Readiness
  <2>1. family = "manifest" /\ UNCHANGED <<tickets, published, life, early>>
        /\ queue' = queue \o <<Update("ready", None, None), [op |-> "provenance"]>>
    BY <1>1 DEF Readiness, Up, Queue
  <2>2. PICK a, b : a = Update("ready", None, None) /\ b = [op |-> "provenance"]
    OBVIOUS
  <2>3. None \in Codes /\ None \in {None, "uncertain", "complete"}
    BY DEF Codes
  <2>4. a \in Calls /\ a.cleanup = None
    BY <2>1, <2>2, <2>3, UpdateIs
  <2>5. b \in Calls /\ b.op = "provenance"
    BY <2>1, <2>2 DEF Calls, ManifestCalls
  <2>6. PICK c : c = <<a, b>>
    OBVIOUS
  <2>7. c \in Seq(Calls) /\ \A i \in 1..Len(c) : c[i].op = "update" => c[i].cleanup # "complete"
    BY <2>4, <2>5, <2>6 DEF None
  <2>8. queue' = queue \o c
    BY <2>1, <2>2, <2>6
  <2>. QED
    BY <2>1, <2>7, <2>8 DEF OwnerTyped
<1>2. CASE RecordFailure
  <2>1. family = "manifest" /\ UNCHANGED <<tickets, published>> /\ life' = "failing" /\ early' \in {None, "cause"}
        /\ queue' = queue \o <<Update("failed", "cause", "uncertain")>>
    BY <1>2 DEF RecordFailure, Up, Queue
  <2>2. PICK a : a = Update("failed", "cause", "uncertain")
    OBVIOUS
  <2>3. "cause" \in Codes
    BY DEF Codes
  <2>4. a \in Calls /\ a.cleanup = "uncertain"
    BY <2>1, <2>2, <2>3, UpdateIs
  <2>5. PICK c : c = <<a>>
    OBVIOUS
  <2>6. c \in Seq(Calls) /\ \A i \in 1..Len(c) : c[i].op = "update" => c[i].cleanup # "complete"
    BY <2>4, <2>5
  <2>7. queue' = queue \o c
    BY <2>1, <2>2, <2>5
  <2>. QED
    BY <2>1, <2>6, <2>7
<1>3. CASE Quit
  <2>1. PICK a : a = IF life = "failing" THEN Update("failed", "session_failed", "uncertain")
                     ELSE Update("stopped", None, "uncertain")
    OBVIOUS
  <2>2. family = "manifest" /\ UNCHANGED <<tickets, published, early>> /\ life' = "quit" /\ queue' = queue \o <<a>>
    BY <1>3, <2>1 DEF Quit, Queue
  <2>3. "session_failed" \in Codes /\ None \in Codes
    BY DEF Codes
  <2>4. a \in Calls /\ a.cleanup = "uncertain"
    BY <2>1, <2>2, <2>3, UpdateIs
  <2>5. PICK c : c = <<a>>
    OBVIOUS
  <2>6. c \in Seq(Calls) /\ \A i \in 1..Len(c) : c[i].op = "update" => c[i].cleanup # "complete"
    BY <2>4, <2>5
  <2>7. queue' = queue \o c
    BY <2>2, <2>5
  <2>. QED
    BY <2>2, <2>6, <2>7 DEF OwnerTyped
<1>. QED
  BY <1>1, <1>2, <1>3

\* What _ensure queues: the request, if it must, and then the call.
LEMMA EnsuredIs ==
  ASSUME OwnerTyped, family = "request", NEW call \in Calls, Ensured(<<call>>), call.n = TokenNo
  PROVE  /\ tickets' \in [1..Attempts -> Answers]
         /\ \A n \in 1..Attempts : tickets'[n] = tickets[n] \/ tickets'[n] = "queued"
         /\ \E c \in Seq(Calls) :
              /\ queue' = queue \o c /\ Len(c) >= 1 /\ c[Len(c)] = call
              /\ \A i \in 1..(Len(c) - 1) : c[i].op = "request"
<1>1. PICK n \in 1..Attempts : n = TokenNo
  BY DEF Ensured
<1>2. queue' = queue \o ((IF Fresh THEN <<[op |-> "request", n |-> n]>> ELSE <<>>) \o <<call>>)
      /\ tickets' = [tickets EXCEPT ![n] = IF Fresh THEN "queued" ELSE @]
  BY <1>1 DEF Ensured, Queue
<1>3. /\ tickets' \in [1..Attempts -> Answers]
      /\ \A m \in 1..Attempts : tickets'[m] = tickets[m] \/ tickets'[m] = "queued"
  <2>1. tickets \in [1..Attempts -> Answers] /\ "queued" \in Answers
    BY DEF OwnerTyped, Answers
  <2>. QED
    BY <1>1, <1>2, <2>1
<1>4. CASE Fresh
  <2>1. PICK a : a = [op |-> "request", n |-> n]
    OBVIOUS
  <2>2. a \in Calls /\ a.op = "request"
    BY <1>1, <2>1 DEF Calls, RequestCalls
  <2>3. PICK c : c = <<a>> \o <<call>>
    OBVIOUS
  <2>4. c \in Seq(Calls) /\ Len(c) = 2 /\ c[Len(c)] = call /\ \A i \in 1..(Len(c) - 1) : c[i].op = "request"
    BY <2>2, <2>3
  <2>5. queue' = queue \o c
    BY <1>2, <1>4, <2>1, <2>3
  <2>6. Len(c) >= 1
    BY <2>4
  <2>7. \E d \in Seq(Calls) :
          /\ queue' = queue \o d /\ Len(d) >= 1 /\ d[Len(d)] = call
          /\ \A i \in 1..(Len(d) - 1) : d[i].op = "request"
    BY <2>4, <2>5, <2>6, Zenon
  <2>. QED
    BY <1>3, <2>7
<1>5. CASE ~Fresh
  <2>1. PICK c : c = <<>> \o <<call>>
    OBVIOUS
  <2>2. c \in Seq(Calls) /\ Len(c) = 1 /\ c[Len(c)] = call /\ \A i \in 1..(Len(c) - 1) : c[i].op = "request"
    BY <2>1
  <2>3. queue' = queue \o c
    BY <1>2, <1>5, <2>1
  <2>4. Len(c) >= 1
    BY <2>2
  <2>5. \E d \in Seq(Calls) :
          /\ queue' = queue \o d /\ Len(d) >= 1 /\ d[Len(d)] = call
          /\ \A i \in 1..(Len(d) - 1) : d[i].op = "request"
    BY <2>2, <2>3, <2>4, Zenon
  <2>. QED
    BY <1>3, <2>5
<1>. QED
  BY <1>4, <1>5

\* A call of the request's own, and what it closes.
LEMMA RequestActs ==
  ASSUME OwnerTyped, Observe \/ Allocations \/ Settle
  PROVE  /\ family = "request" /\ UNCHANGED <<published, life, early>> /\ made \subseteq made'
         /\ tickets' \in [1..Attempts -> Answers]
         /\ \A n \in 1..Attempts : tickets'[n] = tickets[n] \/ tickets'[n] = "queued"
         /\ \E c \in Seq(Calls) :
              /\ queue' = queue \o c /\ Len(c) >= 1 /\ \A i \in 1..(Len(c) - 1) : c[i].op = "request"
              /\ c[Len(c)].op = "transition" =>
                   "terminal" \notin made /\ (Ends(c[Len(c)]) => "terminal" \in made')
              /\ c[Len(c)].op = "settle" => "complete" \notin made /\ "complete" \in made'
<1>1. CASE Observe
  <2>1. family = "request" /\ UNCHANGED <<published, life, early>>
    BY <1>1 DEF Observe, Up
  <2>2. PICK k \in DOMAIN Phases :
          /\ Phases[k] \notin made /\ \A l \in k..Len(Phases) : Phases[l] \notin made
          /\ made' = made \cup {Phases[k]}
          /\ \E outcome \in IF Phases[k] = "terminal" THEN {"success", "unknown"} ELSE {"pending"} :
               Ensured(<<[op |-> "transition", n |-> TokenNo, phase |-> Phases[k], outcome |-> outcome]>>)
    BY <1>1 DEF Observe
  <2>3. PICK outcome \in {"pending", "success", "unknown"} :
          Ensured(<<[op |-> "transition", n |-> TokenNo, phase |-> Phases[k], outcome |-> outcome]>>)
    BY <2>2
  <2>4. k \in 1..4 /\ Len(Phases) = 4 /\ Phases[4] = "terminal" /\ Phases[k] \in PhaseNames
    BY DEF Phases, PhaseNames
  <2>5. PICK call : call = [op |-> "transition", n |-> TokenNo, phase |-> Phases[k], outcome |-> outcome]
    OBVIOUS
  <2>6. TokenNo \in 1..Attempts
    BY <2>3 DEF Ensured
  <2>7. call \in Calls /\ call.op = "transition" /\ call.n = TokenNo /\ call.phase = Phases[k]
    BY <2>1, <2>4, <2>5, <2>6 DEF Calls, RequestCalls
  <2>8. Ensured(<<call>>)
    BY <2>3, <2>5
  <2>9. /\ tickets' \in [1..Attempts -> Answers]
        /\ \A n \in 1..Attempts : tickets'[n] = tickets[n] \/ tickets'[n] = "queued"
        /\ \E c \in Seq(Calls) :
             /\ queue' = queue \o c /\ Len(c) >= 1 /\ c[Len(c)] = call
             /\ \A i \in 1..(Len(c) - 1) : c[i].op = "request"
    BY <2>1, <2>7, <2>8, EnsuredIs
  <2>10. "terminal" \notin made /\ (Ends(call) => "terminal" \in made') /\ made \subseteq made'
    <3>1. 4 \in k..Len(Phases)
      BY <2>4
    <3>2. "terminal" \notin made
      BY <2>2, <2>4, <3>1
    <3>. QED
      BY <2>2, <2>7, <3>2 DEF Ends
  <2>. QED
    BY <2>1, <2>7, <2>9, <2>10
<1>2. CASE Allocations
  <2>1. family = "request" /\ UNCHANGED <<published, life, early>>
    BY <1>2 DEF Allocations, Up
  <2>2. PICK op \in {"allocate", "launch"} : made' = made \cup {op} /\ Ensured(<<[op |-> op, n |-> TokenNo]>>)
    BY <1>2 DEF Allocations
  <2>3. TokenNo \in 1..Attempts
    BY <2>2 DEF Ensured
  <2>4. PICK call : call = [op |-> op, n |-> TokenNo]
    OBVIOUS
  <2>5. call \in Calls /\ call.op \in {"allocate", "launch"} /\ call.n = TokenNo
    BY <2>1, <2>2, <2>3, <2>4 DEF Calls, RequestCalls
  <2>6. Ensured(<<call>>)
    BY <2>2, <2>4
  <2>7. /\ tickets' \in [1..Attempts -> Answers]
        /\ \A n \in 1..Attempts : tickets'[n] = tickets[n] \/ tickets'[n] = "queued"
        /\ \E c \in Seq(Calls) :
             /\ queue' = queue \o c /\ Len(c) >= 1 /\ c[Len(c)] = call
             /\ \A i \in 1..(Len(c) - 1) : c[i].op = "request"
    BY <2>1, <2>5, <2>6, EnsuredIs
  <2>. QED
    BY <2>1, <2>2, <2>5, <2>7
<1>3. CASE Settle
  <2>1. family = "request" /\ UNCHANGED <<published, life, early, tickets>> /\ "complete" \notin made
    BY <1>3 DEF Settle, Up
  <2>2. PICK n \in 1..Attempts :
          made' = made \cup {"complete"} /\ queue' = queue \o <<[op |-> "settle", n |-> n, state |-> "complete"]>>
    BY <1>3 DEF Settle, Queue
  <2>3. PICK call : call = [op |-> "settle", n |-> n, state |-> "complete"]
    OBVIOUS
  <2>4. call \in Calls /\ call.op = "settle"
    BY <2>1, <2>3 DEF Calls, RequestCalls
  <2>5. PICK c : c = <<call>>
    OBVIOUS
  <2>6. c \in Seq(Calls) /\ Len(c) = 1 /\ c[Len(c)] = call /\ \A i \in 1..(Len(c) - 1) : c[i].op = "request"
    BY <2>4, <2>5
  <2>7. queue' = queue \o c
    BY <2>2, <2>3, <2>5
  <2>8. Len(c) >= 1 /\ c[Len(c)].op # "transition" /\ "complete" \in made' /\ made \subseteq made'
    BY <2>2, <2>4, <2>6
  <2>9. \E d \in Seq(Calls) :
          /\ queue' = queue \o d /\ Len(d) >= 1 /\ \A i \in 1..(Len(d) - 1) : d[i].op = "request"
          /\ d[Len(d)].op = "transition" =>
               "terminal" \notin made /\ (Ends(d[Len(d)]) => "terminal" \in made')
          /\ d[Len(d)].op = "settle" => "complete" \notin made /\ "complete" \in made'
    BY <2>1, <2>6, <2>7, <2>8, Zenon
  <2>10. tickets' \in [1..Attempts -> Answers] /\ tickets' = tickets
    BY <2>1 DEF OwnerTyped
  <2>. QED
    BY <2>1, <2>8, <2>9, <2>10
<1>. QED
  BY <1>1, <1>2, <1>3

\* What the owner of an application queues, and what of it names windows.
Queues(c) ==
  \A i \in 1..Len(c) :
    /\ c[i].op = "prepare" => "prepare" \notin made /\ "prepare" \in made' /\ Len(c) = 1
    /\ InUse(c[i]) => acked[AppRecord] # Absent
    /\ Publishing(c[i]) =>
         /\ c[i].candidate \in made /\ (\A q \in NamedIn(c[i]) : Recoverable(q))
         /\ published.current # None => published.current \in NamedIn(c[i])
         /\ published.at # "publish"
         /\ c[i].state = "pending" =>
              i = Len(c) /\ published.at = "observe" /\ published'.at = "publish" /\ c[i].candidate = published'.query
\* What the owner's memory of the application becomes.
Remembers ==
  /\ published'.previous = published.previous \/ published'.previous = published.current
  /\ \/ published' = published
     \* Query.
     \/ /\ published.at = None /\ published'.at = "observe" /\ published'.query \in Queries \ made
        /\ published'.query \in made' /\ published'.ticket = "queued" /\ acked[AppRecord] # Absent
        /\ published'.current = published.current /\ published'.checkpoint = published.checkpoint
     \* Publish.
     \/ /\ published.at = "observe" /\ published.ticket = "ok" /\ published'.at = "publish"
        /\ published'.query = published.query /\ published'.ticket = "queued" /\ published'.checkpoint = None
        /\ published'.current = published.current
     \* Published.
     \/ /\ published.at = "publish" /\ published.ticket = "ok" /\ published'.at = None
        /\ published'.ticket = None /\ published'.current = published.query
        /\ published'.checkpoint = published.query /\ queue' = queue
     \* Abandon.
     \/ /\ published.at # None /\ published'.at = None /\ published'.ticket = None
        /\ published'.current = published.current /\ published'.checkpoint = published.checkpoint
     \* CheckpointTurn.
     \/ /\ published.checkpoint # None /\ published'.checkpoint = None /\ published'.at = published.at
        /\ published'.query = published.query /\ published'.ticket = published.ticket
        /\ published'.current = published.current

\* The owner's memory, moved on.
LEMMA AtIs ==
  ASSUME published \in Remembered, NEW at \in {None, "observe", "publish"}, NEW q \in Named
  PROVE  /\ At(at, q) \in Remembered /\ At(at, q).at = at /\ At(at, q).query = q /\ At(at, q).ticket = None
         /\ At(at, q).current = published.current /\ At(at, q).previous = published.previous
         /\ At(at, q).checkpoint = published.checkpoint
  BY DEF At, Remembered, Answers

\* A call that publishes windows.
LEMMA WindowsCallIs ==
  ASSUME family = "windows", NEW a \in Named, NEW b \in Queries, NEW s \in {"pending", "confirmed"}
  PROVE  /\ WindowsCall(a, b, s) \in Calls /\ Publishing(WindowsCall(a, b, s))
         /\ NamedIn(WindowsCall(a, b, s)) = {a, b} /\ WindowsCall(a, b, s).candidate = b
         /\ WindowsCall(a, b, s).state = s /\ WindowsCall(a, b, s).op = "windows"
<1>1. WindowsCall(a, b, s) \in PublishCalls
  BY DEF WindowsCall, PublishCalls
<1>2. WindowsCall(a, b, s) \in Calls
  BY <1>1, StoreAssumption DEF Calls, WindowsCalls
<1>. QED
  BY <1>2 DEF WindowsCall, Publishing, NamedIn

\* The outstanding checkpoint.
LEMMA CheckpointIs ==
  ASSUME family = "windows", OwnerTyped, Applied, published.at # "publish",
         published.current # None => acked[AppRecord] # Absent, NEW k, k = Checkpoint
  PROVE  /\ k \in Seq(Calls) /\ Len(k) \in {0, 1}
         /\ \A i \in 1..Len(k) :
              /\ k[i].op = "windows" /\ k[i].state = "confirmed" /\ k[i].candidate \in made
              /\ acked[AppRecord] # Absent
              /\ \A q \in NamedIn(k[i]) : Recoverable(q)
              /\ published.current \in NamedIn(k[i])
<1>1. CASE published.checkpoint = None
  BY <1>1 DEF Checkpoint
<1>2. CASE published.checkpoint # None
  <2>1. /\ published.checkpoint = published.current /\ published.previous \in Named
        /\ published.current \in Queries /\ published.current \in made
        /\ Recoverable(published.current) /\ Recoverable(published.previous)
    BY <1>2 DEF Applied, OwnerTyped, Remembered, Named
  <2>2. PICK a : a = WindowsCall(published.previous, published.checkpoint, "confirmed")
    OBVIOUS
  <2>3. /\ a \in Calls /\ a.op = "windows" /\ a.state = "confirmed" /\ a.candidate = published.current
        /\ NamedIn(a) = {published.previous, published.current}
    BY <2>1, <2>2, WindowsCallIs
  <2>4. k = <<a>>
    BY <1>2, <2>2 DEF Checkpoint
  <2>5. acked[AppRecord] # Absent
    BY <1>2, <2>1
  <2>. QED
    BY <2>1, <2>3, <2>4, <2>5
<1>. QED
  BY <1>1, <1>2

\* What the owner does about an application's windows.
LEMMA WindowActs ==
  ASSUME OwnerTyped, Applied, Once,
         Prepare \/ Persist \/ Query \/ Publish \/ Published \/ Abandon \/ CheckpointTurn
  PROVE  /\ family = "windows" /\ UNCHANGED <<tickets, life, early>> /\ made \subseteq made'
         /\ published' \in Remembered /\ Remembers
         /\ \E c \in Seq(Calls) : queue' = queue \o c /\ Queues(c)
<1>0. published \in Remembered /\ queue \in Seq(Calls)
  BY DEF OwnerTyped
<1>1. CASE Prepare
  <2>1. /\ family = "windows" /\ UNCHANGED <<tickets, life, early, published>> /\ "prepare" \notin made
        /\ made' = made \cup {"prepare"} /\ queue' = queue \o <<[op |-> "prepare"]>>
    BY <1>1 DEF Prepare, Up, Queue
  <2>2. PICK a, c : a = [op |-> "prepare"] /\ c = <<a>>
    OBVIOUS
  <2>3. a \in Calls /\ a.op = "prepare"
    BY <2>1, <2>2 DEF Calls, WindowsCalls
  <2>4. c \in Seq(Calls) /\ queue' = queue \o c /\ Len(c) = 1 /\ \A i \in 1..Len(c) : c[i] = a
    BY <2>1, <2>2, <2>3
  <2>5. Queues(c)
    BY <2>1, <2>3, <2>4 DEF Queues, InUse, Publishing
  <2>. QED
    BY <1>0, <2>1, <2>4, <2>5 DEF Remembers
<1>2. CASE Persist
  <2>1. family = "windows" /\ UNCHANGED <<tickets, life, early, published>> /\ acked[AppRecord] # Absent
    BY <1>2 DEF Persist, Up
  <2>2. PICK state \in {"running", "all-exited"} :
          /\ made' = made \cup {state}
          /\ queue' = queue \o (IF state = "running" THEN <<[op |-> "processes"], [op |-> "app", state |-> state]>>
                                ELSE <<[op |-> "app", state |-> state]>>)
    BY <1>2 DEF Persist, Queue
  <2>3. PICK a, b : a = [op |-> "processes"] /\ b = [op |-> "app", state |-> state]
    OBVIOUS
  <2>4. a \in Calls /\ b \in Calls /\ a.op = "processes" /\ b.op = "app"
    BY <2>1, <2>3 DEF Calls, WindowsCalls
  <2>5. PICK c : c = IF state = "running" THEN <<a, b>> ELSE <<b>>
    OBVIOUS
  <2>6. queue' = queue \o c
    BY <2>2, <2>3, <2>5
  <2>7. c \in Seq(Calls) /\ \A i \in 1..Len(c) : c[i] \in {a, b}
    BY <2>4, <2>5
  <2>8. Queues(c)
    BY <2>1, <2>4, <2>7 DEF Queues, InUse, Publishing
  <2>. QED
    BY <1>0, <2>1, <2>2, <2>6, <2>7, <2>8 DEF Remembers
<1>3. CASE Query
  <2>1. family = "windows" /\ UNCHANGED <<tickets, life, early>> /\ acked[AppRecord] # Absent /\ published.at = None
    BY <1>3 DEF Query, Up
  <2>2. PICK q \in Queries \ made :
          /\ made' = made \cup {q} /\ queue' = queue \o <<[op |-> "observe", q |-> q]>>
          /\ published' = [At("observe", q) EXCEPT !.ticket = "queued"]
    BY <1>3 DEF Query, Queue
  <2>3. PICK a, c : a = [op |-> "observe", q |-> q] /\ c = <<a>>
    OBVIOUS
  <2>4. a \in Calls /\ a.op = "observe"
    BY <2>1, <2>2, <2>3 DEF Calls, WindowsCalls
  <2>5. c \in Seq(Calls) /\ queue' = queue \o c /\ \A i \in 1..Len(c) : c[i] = a
    BY <2>2, <2>3, <2>4
  <2>6. Queues(c)
    BY <2>4, <2>5 DEF Queues, InUse, Publishing
  <2>7. PICK p : p = At("observe", q)
    OBVIOUS
  <2>8. /\ p \in Remembered /\ p.at = "observe" /\ p.query = q /\ p.current = published.current
        /\ p.previous = published.previous /\ p.checkpoint = published.checkpoint
    BY <1>0, <2>7, AtIs DEF Named
  <2>9. published' = [p EXCEPT !.ticket = "queued"] /\ "queued" \in Answers
    BY <2>2, <2>7 DEF Answers
  <2>10. /\ published' \in Remembered /\ published'.at = "observe" /\ published'.query = q
         /\ published'.current = published.current /\ published'.previous = published.previous
         /\ published'.checkpoint = published.checkpoint /\ published'.ticket = "queued"
    BY <2>8, <2>9 DEF Remembered
  <2>11. Remembers
    BY <2>1, <2>2, <2>10 DEF Remembers
  <2>. QED
    BY <2>1, <2>2, <2>5, <2>6, <2>10, <2>11
<1>4. CASE Publish
  <2>1. /\ family = "windows" /\ UNCHANGED <<tickets, made, life, early>>
        /\ published.at = "observe" /\ published.ticket = "ok"
        /\ queue' = queue \o (Checkpoint \o <<WindowsCall(published.current, published.query, "pending")>>)
        /\ published' = [At("publish", published.query) EXCEPT !.ticket = "queued", !.checkpoint = None]
    BY <1>4 DEF Publish, Up, Queue
  <2>2. /\ published.query \in Queries /\ published.query \in made /\ Recoverable(published.query)
        /\ Recoverable(published.current) /\ published.current \in Named
        /\ acked[AppRecord] # Absent /\ published.query \in Named
    BY <1>0, <2>1 DEF Applied, Once, Remembered, Named, None
  <2>3. PICK a, k, c : /\ a = WindowsCall(published.current, published.query, "pending") /\ k = Checkpoint
                       /\ c = k \o <<a>>
    OBVIOUS
  <2>4. /\ a \in Calls /\ a.op = "windows" /\ a.state = "pending" /\ a.candidate = published.query
        /\ NamedIn(a) = {published.current, published.query}
    BY <2>1, <2>2, <2>3, WindowsCallIs
  <2>5. /\ k \in Seq(Calls) /\ Len(k) \in {0, 1}
        /\ \A i \in 1..Len(k) :
             /\ k[i].op = "windows" /\ k[i].state = "confirmed" /\ k[i].candidate \in made
             /\ \A q \in NamedIn(k[i]) : Recoverable(q)
             /\ published.current \in NamedIn(k[i])
    BY <2>1, <2>2, <2>3, CheckpointIs
  <2>6. /\ c \in Seq(Calls) /\ queue' = queue \o c /\ Len(c) = Len(k) + 1
        /\ \A i \in 1..Len(c) : (i \in 1..Len(k) /\ c[i] = k[i]) \/ (i = Len(c) /\ c[i] = a)
    BY <2>1, <2>3, <2>4, <2>5
  <2>7. PICK p : p = At("publish", published.query)
    OBVIOUS
  <2>8. /\ p \in Remembered /\ p.at = "publish" /\ p.query = published.query /\ p.current = published.current
        /\ p.previous = published.previous
    BY <1>0, <2>2, <2>7, AtIs
  <2>9. published' = [p EXCEPT !.ticket = "queued", !.checkpoint = None] /\ "queued" \in Answers /\ None \in Named
    BY <2>1, <2>7 DEF Answers, Named
  <2>10. /\ published' \in Remembered /\ published'.at = "publish" /\ published'.query = published.query
         /\ published'.current = published.current /\ published'.previous = published.previous
         /\ published'.checkpoint = None /\ published'.ticket = "queued"
    BY <2>8, <2>9 DEF Remembered
  <2>11. Remembers
    BY <2>1, <2>10 DEF Remembers
  <2>12. ASSUME NEW i \in 1..Len(c)
         PROVE  /\ c[i].op = "windows" /\ c[i].candidate \in made /\ (\A q \in NamedIn(c[i]) : Recoverable(q))
                /\ published.current \in NamedIn(c[i])
                /\ c[i].state = "pending" => i = Len(c) /\ c[i].candidate = published.query
    <3>1. CASE i \in 1..Len(k) /\ c[i] = k[i]
      BY <2>5, <3>1
    <3>2. CASE i = Len(c) /\ c[i] = a
      BY <2>2, <2>4, <3>2
    <3>. QED
      BY <2>6, <3>1, <3>2
  <2>13. Queues(c)
    BY <2>1, <2>2, <2>10, <2>12 DEF Queues, InUse, Publishing
  <2>. QED
    BY <2>1, <2>6, <2>10, <2>11, <2>13
<1>5. CASE Published
  <2>1. /\ family = "windows" /\ UNCHANGED <<queue, tickets, made, life, early>>
        /\ published.at = "publish" /\ published.ticket = "ok"
        /\ published' = [At(None, None) EXCEPT !.current = published.query, !.previous = published.current,
                                              !.checkpoint = published.query]
    BY <1>5 DEF Published, Up, Durable
  <2>2. PICK p : p = At(None, None)
    OBVIOUS
  <2>3. p \in Remembered /\ p.at = None /\ p.ticket = None
    BY <1>0, <2>2, AtIs DEF Named
  <2>4. published' = [p EXCEPT !.current = published.query, !.previous = published.current,
                               !.checkpoint = published.query]
    BY <2>1, <2>2
  <2>5. published.query \in Named /\ published.current \in Named
    BY <1>0 DEF Remembered
  <2>6. /\ published' \in Remembered /\ published'.at = None /\ published'.ticket = None
        /\ published'.current = published.query /\ published'.previous = published.current
        /\ published'.checkpoint = published.query
    BY <2>3, <2>4, <2>5 DEF Remembered
  <2>7. Remembers
    BY <2>1, <2>6 DEF Remembers
  <2>8. <<>> \in Seq(Calls) /\ queue' = queue \o <<>> /\ Queues(<<>>)
    BY <1>0, <2>1 DEF Queues
  <2>. QED
    BY <2>1, <2>6, <2>7, <2>8
<1>6. CASE Abandon
  <2>1. /\ family = "windows" /\ UNCHANGED <<queue, tickets, made, life, early>> /\ published.at # None
        /\ published' = At(None, None)
    BY <1>6 DEF Abandon, Up
  <2>2. /\ published' \in Remembered /\ published'.at = None /\ published'.ticket = None
        /\ published'.current = published.current /\ published'.previous = published.previous
        /\ published'.checkpoint = published.checkpoint
    BY <1>0, <2>1, AtIs DEF Named
  <2>3. Remembers
    BY <2>1, <2>2 DEF Remembers
  <2>4. <<>> \in Seq(Calls) /\ queue' = queue \o <<>> /\ Queues(<<>>)
    BY <1>0, <2>1 DEF Queues
  <2>. QED
    BY <2>1, <2>2, <2>3, <2>4
<1>7. CASE CheckpointTurn
  <2>1. /\ family = "windows" /\ UNCHANGED <<tickets, made, life, early>> /\ published.checkpoint # None
        /\ queue' = queue \o Checkpoint /\ published' = [published EXCEPT !.checkpoint = None]
    BY <1>7 DEF CheckpointTurn, Up, Queue
  <2>2. published.at # "publish" /\ (published.current # None => acked[AppRecord] # Absent)
    BY <2>1 DEF Applied, Once
  <2>3. PICK k : k = Checkpoint
    OBVIOUS
  <2>4. /\ k \in Seq(Calls) /\ Len(k) \in {0, 1}
        /\ \A i \in 1..Len(k) :
             /\ k[i].op = "windows" /\ k[i].state = "confirmed" /\ k[i].candidate \in made
             /\ acked[AppRecord] # Absent
             /\ \A q \in NamedIn(k[i]) : Recoverable(q)
             /\ published.current \in NamedIn(k[i])
    BY <2>1, <2>2, <2>3, CheckpointIs
  <2>5. /\ published' \in Remembered /\ published'.at = published.at /\ published'.ticket = published.ticket
        /\ published'.current = published.current /\ published'.previous = published.previous
        /\ published'.checkpoint = None /\ published'.query = published.query
    BY <1>0, <2>1 DEF Remembered, Named
  <2>6. Remembers
    BY <2>1, <2>5 DEF Remembers
  <2>7. Queues(k)
    BY <2>2, <2>4 DEF Queues, InUse, Publishing
  <2>8. queue' = queue \o k
    BY <2>1, <2>3
  <2>. QED
    BY <2>1, <2>4, <2>5, <2>6, <2>7, <2>8
<1>. QED
  BY <1>1, <1>2, <1>3, <1>4, <1>5, <1>6, <1>7

\* The calls of the finalizer.
LEMMA FinalizeIs ==
  ASSUME DiskInv, OwnerTyped, Finalize
  PROVE  /\ family = "manifest" /\ role \in {"created", "down"} /\ role' = "finalizer"
         /\ UNCHANGED <<disk, acked, known, todo, job, faults, family, tickets, published, life, early>>
         /\ queue' \in Seq(Calls)
         /\ \A i \in 1..Len(queue') :
              queue'[i].op = "update" /\ queue'[i].cleanup = "complete" /\ early # None => queue'[i].failure # None
<1>1. /\ family = "manifest" /\ role \in {"created", "down"} /\ role' = "finalizer" /\ Complete
      /\ UNCHANGED <<disk, acked, known, todo, job, faults, family, tickets, published, life, early>>
  BY DEF Finalize, Attach, fs
<1>2. PICK state, disposed, code :
        /\ state \in {"stopped", "failed"} /\ disposed \in BOOLEAN
        /\ code = IF state # "failed" THEN None
                  ELSE IF Now(Manifest).failure # None THEN Now(Manifest).failure
                  ELSE IF early # None THEN early ELSE "session_failed"
        /\ Classified(state)
        /\ queue' = IF disposed
                    THEN <<Update(state, code, "uncertain"), [op |-> "summarize"], Update(state, code, "complete")>>
                    ELSE <<Update(state, code, "uncertain"), Update(state, None, "uncertain")>>
  BY DEF Finalize
<1>3. Now(Manifest) \in ManifestValues
  <2>1. Visible(Manifest) /\ Manifest \in Paths
    BY <1>1, PathsAre DEF Complete, OwnerTyped
  <2>. QED
    BY <2>1, DiskAt, KindsOf, HoldsBy DEF DiskInv, Now, Visible
<1>4. /\ code \in Codes /\ None \in Codes /\ (code # None => state = "failed")
      /\ (early # None => code # None)
  <2>1. Now(Manifest).failure \in Codes /\ early \in Codes
    BY <1>3 DEF ManifestValues, OwnerTyped, Codes
  <2>. QED
    BY <1>2, <2>1 DEF Codes, Classified, None
<1>5. PICK a, b, c, d : /\ a = Update(state, code, "uncertain") /\ b = [op |-> "summarize"]
                        /\ c = Update(state, code, "complete") /\ d = Update(state, None, "uncertain")
  OBVIOUS
<1>6. /\ a \in Calls /\ a.cleanup = "uncertain" /\ c \in Calls /\ c.failure = code
      /\ d \in Calls /\ d.cleanup = "uncertain"
  <2>1. state \in {None, "ready", "stopped", "failed"}
    BY <1>2
  <2>2. a \in Calls /\ a.cleanup = "uncertain"
    BY <1>1, <1>4, <1>5, <2>1, UpdateIs
  <2>3. c \in Calls /\ c.failure = code
    BY <1>1, <1>4, <1>5, <2>1, UpdateIs
  <2>4. d \in Calls /\ d.cleanup = "uncertain"
    BY <1>1, <1>4, <1>5, <2>1, UpdateIs
  <2>. QED
    BY <2>2, <2>3, <2>4
<1>7. b \in Calls /\ b.op = "summarize"
  BY <1>1, <1>5 DEF Calls, ManifestCalls
<1>8. queue' = <<a, b, c>> \/ queue' = <<a, d>>
  BY <1>2, <1>5
<1>9. CASE queue' = <<a, b, c>>
  <2>1. queue' \in Seq(Calls) /\ \A i \in 1..Len(queue') : queue'[i] \in {a, b, c}
    BY <1>6, <1>7, <1>9
  <2>. QED
    BY <1>1, <1>4, <1>6, <1>7, <2>1
<1>10. CASE queue' = <<a, d>>
  <2>1. queue' \in Seq(Calls) /\ \A i \in 1..Len(queue') : queue'[i] \in {a, d}
    BY <1>6, <1>10
  <2>. QED
    BY <1>1, <1>6, <2>1
<1>. QED
  BY <1>8, <1>9, <1>10

\* The owner queues calls of its family, and takes no answer for another.
LEMMA OwnerAdds ==
  ASSUME OwnerTyped, Applied, Once, OwnerActs
  PROVE  /\ life' \in {"up", "failing", "quit"} /\ early' \in {None, "cause"} /\ published' \in Remembered
         /\ tickets' \in [1..Attempts -> Answers]
         /\ \A n \in 1..Attempts : tickets'[n] = tickets[n] \/ (tickets'[n] = "queued" /\ family = "request")
         /\ \E c \in Seq(Calls) : queue' = queue \o c
<1>0. /\ tickets \in [1..Attempts -> Answers] /\ published \in Remembered /\ life \in {"up", "failing", "quit"}
      /\ early \in {None, "cause"}
  BY DEF OwnerTyped
<1>1. CASE Readiness \/ RecordFailure \/ Quit
  BY <1>0, <1>1, ManifestActs
<1>2. CASE Observe \/ Allocations \/ Settle
  BY <1>0, <1>2, RequestActs
<1>3. CASE Prepare \/ Persist \/ Query \/ Publish \/ Published \/ Abandon \/ CheckpointTurn
  BY <1>0, <1>3, WindowActs
<1>. QED
  BY <1>1, <1>2, <1>3 DEF OwnerActs

\* The writer takes a call, or refuses it.
LEMMA TakeIs ==
  ASSUME OwnerTyped, Take
  PROVE  /\ role = "worker" /\ ~Busy /\ queue # <<>> /\ queue' = Tail(queue) /\ Head(queue) \in Calls
         /\ UNCHANGED <<disk, acked, role, faults, family>>
         /\ \/ Refused(Head(queue)) /\ Told(Head(queue), FALSE) /\ UNCHANGED <<job, todo, known>>
            \/ /\ ~Refused(Head(queue)) /\ job' = Head(queue)
               /\ todo' = IF Final(Head(queue)) THEN <<>> ELSE Steps(Head(queue))
               /\ known' = IF Head(queue).op = "observe" THEN FALSE ELSE known
               /\ UNCHANGED owner
<1>1. queue \in Seq(Calls)
  BY DEF OwnerTyped
<1>2. queue # <<>> => Head(queue) \in Calls
  BY <1>1
<1>3. /\ role = "worker" /\ ~Busy /\ queue # <<>> /\ queue' = Tail(queue)
      /\ UNCHANGED <<disk, acked, role, faults, family>>
  BY DEF Take
<1>4. PICK call : call = Head(queue)
  OBVIOUS
<1>5. IF Refused(call)
      THEN Told(call, FALSE) /\ UNCHANGED <<job, todo, known>>
      ELSE /\ job' = call
           /\ todo' = IF Final(call) THEN <<>> ELSE Steps(call)
           /\ known' = IF call.op = "observe" THEN FALSE ELSE known
           /\ UNCHANGED owner
  BY <1>4 DEF Take
<1>. QED
  BY <1>2, <1>3, <1>4, <1>5

(***************************************************************************)
(* The invariant is kept: types, and who is at work.                       *)
(***************************************************************************)
\* The types are kept.
LEMMA OwnerStep ==
  ASSUME IInv, Next
  PROVE  OwnerTyped'
<1>0. /\ OwnerTyped /\ DiskInv /\ Applied /\ Once
      /\ family \in Families /\ role \in {"creator", "created", "worker", "down", "finalizer", "over"}
      /\ life \in {"up", "failing", "quit"} /\ known \in BOOLEAN /\ faults \in 0..Faults
      /\ tickets \in [1..Attempts -> Answers] /\ early \in {None, "cause"} /\ published \in Remembered
      /\ queue \in Seq(Calls) /\ job \in Calls \cup {Idle, Creating}
  BY DEF IInv, OwnerTyped
<1>1. family' = family /\ Calls' = Calls
  BY NextFrame DEF Calls
<1>2. CASE Take
  <2>1. PICK c : c = Head(queue)
    OBVIOUS
  <2>2. /\ queue' = Tail(queue) /\ queue # <<>> /\ c \in Calls /\ role' = role /\ faults' = faults
        /\ \/ Told(c, FALSE) /\ UNCHANGED <<job, todo, known>>
           \/ job' = c /\ known' \in {FALSE, known} /\ UNCHANGED owner
    BY <1>0, <1>2, <2>1, TakeIs
  <2>3. queue' \in Seq(Calls)
    BY <1>0, <2>2
  <2>4. CASE Told(c, FALSE) /\ UNCHANGED <<job, todo, known>>
    <3>1. /\ early' = early /\ life' \in {"up", "failing", "quit"} /\ tickets' \in [1..Attempts -> Answers]
          /\ published' \in Remembered
      BY <1>0, <2>4, ToldIs
    <3>. QED
      BY <1>0, <1>1, <2>2, <2>3, <2>4, <3>1 DEF OwnerTyped
  <2>5. CASE job' = c /\ known' \in {FALSE, known} /\ UNCHANGED owner
    <3>1. UNCHANGED <<tickets, made, published, life, early>>
      BY <2>5 DEF owner
    <3>. QED
      BY <1>0, <1>1, <2>2, <2>3, <2>5, <3>1 DEF OwnerTyped
  <2>. QED
    BY <2>2, <2>4, <2>5
<1>3. CASE Do
  <2>1. UNCHANGED <<job, queue, role, faults, tickets, made, published, life, early>> /\ known' \in BOOLEAN
    BY <1>0, <1>3 DEF Do, owner
  <2>. QED
    BY <1>0, <1>1, <2>1 DEF OwnerTyped
<1>4. ASSUME Return \/ Fail
      PROVE  OwnerTyped'
  <2>1. /\ job' = Idle /\ known' = known /\ queue' = queue /\ role' \in {"created", "over", role}
        /\ faults' \in 0..Faults
    <3>1. CASE Return
      BY <1>0, <3>1 DEF Return
    <3>2. CASE Fail
      <4>1. /\ job' = Idle /\ known' = known /\ queue' = queue /\ role' \in {"created", "over", role}
            /\ faults < Faults /\ faults' = faults + 1
        BY <3>2 DEF Fail, Struck, fs
      <4>. QED
        BY <1>0, <4>1, StoreAssumption
    <3>. QED
      BY <1>4, <3>1, <3>2
  <2>2. Told(job, TRUE) \/ Told(job, FALSE)
    BY <1>4 DEF Return, Fail
  <2>3. /\ early' = early /\ life' \in {"up", "failing", "quit"} /\ tickets' \in [1..Attempts -> Answers]
        /\ published' \in Remembered
    BY <1>0, <2>2, ToldIs
  <2>. QED
    BY <1>0, <1>1, <2>1, <2>3 DEF OwnerTyped
<1>5. ASSUME Kill \/ PowerLoss
      PROVE  OwnerTyped'
  <2>1. /\ job' = Idle /\ known' = FALSE /\ queue' = <<>> /\ role' \in {"down", "over"} /\ faults' \in 0..Faults
        /\ UNCHANGED <<tickets, made, published, life, early>>
    BY <1>0, <1>5, StoreAssumption DEF Kill, PowerLoss, Struck, Ended, owner
  <2>2. queue' \in Seq(Calls)
    <3>1. <<>> \in Seq(Calls)
      OBVIOUS
    <3>. QED
      BY <2>1, <3>1
  <2>3. job' \in Calls \cup {Idle, Creating}
    BY <2>1, Zenon
  <2>4. known' \in BOOLEAN
    BY <2>1, Zenon
  <2>5. family' \in Families /\ Calls' = Calls /\ queue' \in Seq(Calls')
    BY <1>0, <1>1, <2>2
  <2>. QED
    BY <1>0, <1>1, <2>1, <2>2, <2>3, <2>4, <2>5 DEF OwnerTyped
<1>6. CASE WorkerStarts
  <2>1. /\ role' = "worker" /\ UNCHANGED <<job, known, faults, tickets, made, published, life, early>>
        /\ queue' = IF family = "manifest" THEN <<[op |-> "identity"]>> ELSE <<>>
    BY <1>6 DEF WorkerStarts, Attach, fs, owner
  <2>2. PICK a : a = [op |-> "identity"]
    OBVIOUS
  <2>3. family = "manifest" => a \in Calls
    BY <2>2 DEF Calls, ManifestCalls
  <2>4. queue' \in Seq(Calls)
    BY <2>1, <2>2, <2>3
  <2>. QED
    BY <1>0, <1>1, <2>1, <2>4 DEF OwnerTyped
<1>7. CASE Exit
  <2>1. /\ role' = "down" /\ known' = FALSE /\ UNCHANGED <<job, queue, faults, tickets, made, published, life, early>>
    BY <1>7 DEF Exit, owner
  <2>. QED
    BY <1>0, <1>1, <2>1 DEF OwnerTyped
<1>8. CASE OwnerActs
  <2>1. UNCHANGED <<known, job, role, faults>>
    BY <1>8, OwnerFrame
  <2>2. /\ life' \in {"up", "failing", "quit"} /\ early' \in {None, "cause"} /\ published' \in Remembered
        /\ tickets' \in [1..Attempts -> Answers] /\ \E c \in Seq(Calls) : queue' = queue \o c
    BY <1>0, <1>8, OwnerAdds
  <2>3. queue' \in Seq(Calls)
    BY <1>0, <2>2, QueueGrown
  <2>. QED
    BY <1>0, <1>1, <2>1, <2>2, <2>3 DEF OwnerTyped
<1>9. CASE Finalize
  <2>1. /\ role' = "finalizer" /\ UNCHANGED <<known, job, faults, tickets, published, life, early>>
        /\ queue' \in Seq(Calls)
    BY <1>0, <1>9, FinalizeIs
  <2>. QED
    BY <1>0, <1>1, <2>1 DEF OwnerTyped
<1>10. CASE TakeFinal
  <2>1. /\ UNCHANGED <<known, faults, tickets, made, published, life, early>>
        /\ \/ role' = "down" /\ UNCHANGED <<queue, job, todo>>
           \/ queue # <<>> /\ job' = Head(queue) /\ queue' = Tail(queue) /\ role' = role
    BY <1>10 DEF TakeFinal, owner, fs
  <2>2. queue # <<>> => Head(queue) \in Calls /\ Tail(queue) \in Seq(Calls)
    BY <1>0
  <2>3. queue' \in Seq(Calls) /\ job' \in Calls \cup {Idle, Creating} /\ role' \in {"down", role}
    BY <1>0, <2>1, <2>2
  <2>. QED
    BY <1>0, <1>1, <2>1, <2>3 DEF OwnerTyped
<1>. QED
  BY <1>2, <1>3, <1>4, <1>5, <1>6, <1>7, <1>8, <1>9, <1>10 DEF Next, OwnerActs

\* Who is at work, with what was answered for so far.
LEMMA StaffedStep ==
  ASSUME IInv, Next, OwnerTyped', \A x \in Paths : acked[x] # Absent => acked'[x] # Absent
  PROVE  Staffed'
<1>0. /\ OwnerTyped /\ DiskInv /\ Applied /\ Once /\ CallInv /\ tickets \in [1..Attempts -> Answers]
      /\ queue \in Seq(Calls) /\ job \in Calls \cup {Idle, Creating} /\ family \in Families
      /\ published \in Remembered /\ life \in {"up", "failing", "quit"}
  BY DEF IInv, OwnerTyped
<1>1. /\ role = "creator" <=> job = Creating
      /\ Busy => role \in {"creator", "worker", "finalizer"}
      /\ queue # <<>> => role \in {"worker", "finalizer"}
      /\ role = "finalizer" => family = "manifest"
      /\ role \in {"created", "worker", "down", "finalizer"} => acked[Manifest] # Absent
      /\ \A n \in 1..Attempts : tickets[n] = "ok" => family = "request" /\ acked[Record(n)] # Absent
      /\ family # "request" => \A n \in 1..Attempts : tickets[n] = None
  BY DEF IInv, Staffed
<1>2. family' = family
  BY NextFrame
<1>3. /\ acked[Manifest] # Absent => acked'[Manifest] # Absent
      /\ \A n \in 1..Attempts : tickets[n] = "ok" => acked'[Record(n)] # Absent
  BY <1>0, <1>1, PathsAre
<1>4. \A c \in Calls : c # Creating /\ c # Idle /\ c.op # "create" /\ (c.op = "request" => family = "request")
  BY <1>0, CallIs, StoreAssumption
<1>5. Idle # Creating /\ Idle.op \notin {"create", "request"} /\ Creating.op \notin {"request"} /\ Creating.op = "create"
  BY DEF Idle, Creating, None
<1>6. ASSUME job' = Idle, queue' = <<>>, role' \in {"created", "down", "over"}, role' # "over" => acked[Manifest] # Absent,
             UNCHANGED tickets
      PROVE  Staffed'
  BY <1>1, <1>2, <1>3, <1>5, <1>6 DEF Staffed, Busy
<1>7. CASE Take
  <2>1. PICK c : c = Head(queue)
    OBVIOUS
  <2>2. /\ c \in Calls /\ role' = role /\ role = "worker" /\ acked' = acked
        /\ \/ Told(c, FALSE) /\ UNCHANGED <<job, todo, known>>
           \/ job' = c /\ UNCHANGED owner
    BY <1>0, <1>7, <2>1, TakeIs
  <2>3. \A n \in 1..Attempts : tickets'[n] = tickets[n] \/ (family = "request" /\ tickets'[n] = "failed")
    <3>1. CASE Told(c, FALSE)
      BY ZenonT(30), <1>0, <1>4, <2>2, <3>1, ToldIs
    <3>2. CASE UNCHANGED owner
      BY <3>2 DEF owner
    <3>. QED
      BY <2>2, <3>1, <3>2
  <2>4. job' # Creating
    BY <1>1, <1>4, <2>2
  <2>. QED
    BY <1>1, <1>2, <2>2, <2>3, <2>4 DEF Staffed
<1>8. CASE Do
  BY <1>1, <1>2, <1>8 DEF Do, owner, Staffed, Busy
<1>9. CASE Return
  <2>1. /\ job' = Idle /\ Told(job, TRUE) /\ queue' = queue /\ Busy /\ todo = <<>>
        /\ role' = IF job.op = "create" THEN "created" ELSE role
        /\ acked' = [acked EXCEPT ![Target(job)] = Now(Target(job))]
    BY <1>9 DEF Return
  <2>2. Target(job) \in Paths /\ Now(Target(job)) # Absent
    <3>1. Target(job) \in Paths
      BY <1>0, <2>1, TargetIn DEF Busy
    <3>2. Answered(<<>>, Target(job))
      BY <1>0, <2>1 DEF CallInv
    <3>. QED
      BY <3>1, <3>2, DoneIsSafe DEF Visible, Now
  <2>3. acked'[Target(job)] # Absent
    BY <1>0, <2>1, <2>2 DEF DiskInv, DiskTyped
  <2>4. job.op = "create" <=> role = "creator"
    BY <1>0, <1>1, <1>4, <1>5
  <2>5. ASSUME NEW n \in 1..Attempts, tickets'[n] = "ok"
        PROVE  family = "request" /\ acked'[Record(n)] # Absent
    <3>1. tickets'[n] = tickets[n] \/ (job.op = "request" /\ n = job.n)
      BY <1>0, <2>1, ToldIs
    <3>2. CASE job.op = "request" /\ n = job.n
      <4>1. job \in Calls
        BY <1>0, <1>5, <3>2
      <4>2. Target(job) = Record(n)
        BY <3>2 DEF Target
      <4>. QED
        BY <1>4, <2>3, <3>2, <4>1, <4>2
    <3>. QED
      BY <1>1, <1>3, <2>5, <3>1, <3>2
  <2>6. ASSUME family # "request", NEW n \in 1..Attempts
        PROVE  tickets'[n] = None
    <3>1. tickets'[n] = tickets[n] \/ job.op = "request"
      BY <1>0, <2>1, ToldIs
    <3>. QED
      BY <1>0, <1>1, <1>4, <1>5, <2>6, <3>1
  <2>7. job.op = "create" => acked'[Manifest] # Absent
    BY <2>3 DEF Target
  <2>8. role' \in {"created", "worker", "finalizer"} /\ role' # "creator"
    BY <1>1, <2>1, <2>4
  <2>9. queue' # <<>> => role' \in {"worker", "finalizer"}
    BY <1>1, <2>1, <2>4
  <2>10. role' = "finalizer" => family = "manifest"
    BY <1>1, <2>1
  <2>11. acked'[Manifest] # Absent
    BY <1>1, <1>3, <2>1, <2>4, <2>7
  <2>. QED
    BY <1>2, <1>5, <2>1, <2>5, <2>6, <2>8, <2>9, <2>10, <2>11 DEF Staffed, Busy
<1>10. CASE Fail
  <2>1. /\ job' = Idle /\ Told(job, FALSE) /\ queue' = queue /\ Busy /\ acked' = acked
        /\ role' = IF job.op = "create" THEN "over" ELSE role
    BY <1>10 DEF Fail, fs
  <2>2. job.op = "create" <=> role = "creator"
    BY <1>0, <1>1, <1>4, <1>5
  <2>3. \A n \in 1..Attempts : tickets'[n] = tickets[n] \/ (family = "request" /\ tickets'[n] = "failed")
    <3>1. \A n \in 1..Attempts : tickets'[n] = tickets[n] \/ (job.op = "request" /\ tickets'[n] = "failed")
      BY <1>0, <2>1, ToldIs
    <3>. QED
      BY <1>0, <1>4, <1>5, <3>1
  <2>4. role' \in {"over", "worker", "finalizer"} /\ (role' # "over" => role' = role) /\ (role' = "over" => role = "creator")
    BY <1>1, <2>1, <2>2
  <2>. QED
    BY <1>1, <1>2, <1>5, <2>1, <2>3, <2>4 DEF Staffed, Busy
<1>11. CASE Kill \/ PowerLoss
  <2>1. job' = Idle /\ queue' = <<>> /\ role' \in {"down", "over"} /\ UNCHANGED tickets
        /\ (role' = "down" => role \in {"worker", "finalizer"})
    BY <1>11 DEF Kill, PowerLoss, Ended, owner
  <2>. QED
    BY <1>1, <1>6, <2>1
<1>12. CASE WorkerStarts
  <2>1. role = "created" /\ role' = "worker" /\ UNCHANGED <<job, tickets>>
    BY <1>12 DEF WorkerStarts, Attach, owner
  <2>. QED
    BY <1>1, <1>2, <1>3, <2>1 DEF Staffed
<1>13. CASE Exit
  <2>1. role' = "down" /\ role = "worker" /\ queue' = <<>> /\ ~Busy /\ UNCHANGED <<job, tickets>>
    BY <1>13 DEF Exit, owner
  <2>. QED
    BY <1>1, <1>6, <2>1 DEF Busy
<1>14. CASE OwnerActs
  <2>1. UNCHANGED <<job, role>> /\ role = "worker"
    BY <1>14, OwnerFrame
  <2>2. \A n \in 1..Attempts : tickets'[n] = tickets[n] \/ (tickets'[n] = "queued" /\ family = "request")
    BY <1>0, <1>14, OwnerAdds
  <2>. QED
    BY <1>1, <1>2, <1>3, <2>1, <2>2 DEF Staffed, Busy
<1>15. CASE Finalize
  <2>1. role' = "finalizer" /\ role \in {"created", "down"} /\ UNCHANGED <<job, tickets>> /\ family = "manifest"
    BY <1>0, <1>15, FinalizeIs
  <2>. QED
    BY <1>1, <1>2, <1>3, <2>1 DEF Staffed, Busy
<1>16. CASE TakeFinal
  <2>1. UNCHANGED tickets /\ role = "finalizer" /\ ~Busy
        /\ \/ role' = "down" /\ queue = <<>> /\ UNCHANGED <<queue, job, todo>>
           \/ queue # <<>> /\ job' = Head(queue) /\ role' = role
    BY <1>16 DEF TakeFinal, owner
  <2>2. CASE role' = "down" /\ queue = <<>> /\ UNCHANGED <<queue, job, todo>>
    BY <1>1, <1>6, <2>1, <2>2 DEF Busy
  <2>3. CASE queue # <<>> /\ job' = Head(queue) /\ role' = role
    <3>1. job' \in Calls
      BY <1>0, <2>3
    <3>. QED
      BY <1>1, <1>2, <1>3, <1>4, <2>1, <2>3, <3>1 DEF Staffed, Busy
  <2>. QED
    BY <2>1, <2>2, <2>3
<1>. QED
  BY <1>7, <1>8, <1>9, <1>10, <1>11, <1>12, <1>13, <1>14, <1>15, <1>16 DEF Next, OwnerActs

(***************************************************************************)
(* The invariant is kept: the disk, and the call in progress.              *)
(***************************************************************************)
LEMMA GoodFrame ==
  ASSUME UNCHANGED <<disk, acked, family>>, NEW t, Good(t), NEW p, Answered(t, p)
  PROVE  Good(t)' /\ Answered(t, p)'
<1>1. Paths' = Paths
  BY DEF Paths
<1>2. \A k : StepOK(t, k)' <=> StepOK(t, k)
  BY <1>1 DEF StepOK, Ready, MadeBefore, CreatedBefore, Visible
<1>3. AnyStep' = AnyStep
  BY <1>1 DEF AnyStep
<1>4. Good(t)'
  BY <1>2, <1>3 DEF Good
<1>5. Answered(t, p)'
  BY DEF Answered, Visible
<1>. QED
  BY <1>4, <1>5

\* No call that is taken is over already.
LEMMA NotFinal ==
  ASSUME IInv, role = "worker", queue # <<>>, Granted(Head(queue)) \/ family # "request"
  PROVE  ~Final(Head(queue))
<1>0. queue \in Seq(Calls) /\ DiskInv /\ family \in Families
  BY DEF IInv, OwnerTyped
<1>1. PICK c : c = Head(queue) /\ c = queue[1] /\ c \in Calls
  BY <1>0
<1>2. 1 \in 1..Len(queue)
  BY <1>0
<1>3. CASE family # "request"
  <2>1. c.op \notin {"transition", "settle"}
    BY <1>0, <1>1, <1>3, CallIs, StoreAssumption
  <2>. QED
    BY <1>1, <2>1 DEF Final
<1>4. CASE family = "request"
  <2>1. Last /\ role # "over"
    BY DEF IInv
  <2>2. PICK n \in 1..Attempts : n = c.n
    BY <1>0, <1>1, <1>4, CallIs
  <2>3. Record(n) \in Paths /\ Allocated(n) \in Paths
    BY <1>0, <1>4, PathsAre
  <2>4. ASSUME c.op = "transition"
        PROVE  disk[Record(n)].now.phase # "terminal"
    <3>1. disk[Record(n)].now.kind = "record"
      <4>1. acked[Record(n)] # Absent
        BY <1>1, <1>4, <2>2, <2>4 DEF Granted
      <4>2. Visible(Record(n))
        BY <1>0, <2>3, <4>1, AnsweredIsThere
      <4>. QED
        BY <1>0, <2>3, <4>2, DiskAt, HoldsAre, KindsOf DEF DiskInv, Visible
    <3>2. ~Over
      BY <1>1, <1>2, <1>4, <2>1, <2>4 DEF Last
    <3>. QED
      BY <3>1, <3>2 DEF Over, Terminal
  <2>5. ASSUME c.op = "settle"
        PROVE  disk[Allocated(n)].now.state = "allocated"
    <3>1. disk[Allocated(n)].now.kind = "alloc"
      <4>1. Visible(Allocated(n))
        BY <1>1, <1>4, <2>2, <2>5 DEF Granted
      <4>. QED
        BY <1>0, <2>3, <4>1, DiskAt, HoldsAre, KindsOf DEF DiskInv, Visible
    <3>2. ~Closed
      BY <1>1, <1>2, <1>4, <2>1, <2>5 DEF Last
    <3>. QED
      BY <3>1, <3>2 DEF Closed, Settled
  <2>. QED
    BY <1>1, <2>2, <2>4, <2>5 DEF Final, Now
<1>. QED
  BY <1>3, <1>4

\* A call that is taken begins with steps that are good, and that answer it.
LEMMA TakenSteps ==
  ASSUME IInv, Take, ~Refused(Head(queue))
  PROVE  /\ Good(Steps(Head(queue))) /\ Answered(Steps(Head(queue)), Target(Head(queue)))
         /\ todo' = Steps(Head(queue)) /\ job' = Head(queue) /\ role = "worker"
         /\ acked[Manifest] # Absent /\ UNCHANGED owner /\ known' \in {known, FALSE}
         /\ family = "request" => Granted(Head(queue))
         /\ family = "windows" /\ InUse(Head(queue)) => Visible(AppRecord)
<1>0. /\ queue \in Seq(Calls) /\ DiskInv /\ family \in Families /\ OwnerTyped
      /\ family \in {"manifest", "request", "windows"}
      /\ known => Seen \in Paths /\ disk[Seen].safe # Absent
  BY StoreAssumption DEF IInv, OwnerTyped, CallInv
<1>1. PICK c : c = Head(queue)
  OBVIOUS
<1>2. /\ role = "worker" /\ queue # <<>> /\ c \in Calls /\ job' = c
      /\ todo' = IF Final(c) THEN <<>> ELSE Steps(c)
      /\ UNCHANGED owner /\ known' \in {known, FALSE}
  <2>1. /\ role = "worker" /\ ~Busy /\ queue # <<>> /\ Head(queue) \in Calls
        /\ \/ Refused(Head(queue)) /\ Told(Head(queue), FALSE) /\ UNCHANGED <<job, todo, known>>
           \/ /\ ~Refused(Head(queue)) /\ job' = Head(queue)
              /\ todo' = IF Final(Head(queue)) THEN <<>> ELSE Steps(Head(queue))
              /\ known' = IF Head(queue).op = "observe" THEN FALSE ELSE known
              /\ UNCHANGED owner
    BY <1>0, TakeIs
  <2>. QED
    BY <1>1, <2>1
<1>3. acked[Manifest] # Absent
  BY <1>2 DEF IInv, Staffed
<1>4. ~Refused(c)
  BY <1>1
<1>5. family = "request" => Granted(c) /\ c \in RequestCalls
  <2>1. SUFFICES ASSUME family = "request"  PROVE Granted(c) /\ c \in RequestCalls
    OBVIOUS
  <2>2. c.n \in 1..Attempts /\ c.op \in {"request", "transition", "allocate", "settle", "launch"} /\ c \in RequestCalls
    BY <1>0, <1>2, <2>1, CallIs
  <2>3. c.op # "request" => tickets[c.n] = "ok"
    BY <1>4, <2>2 DEF Refused
  <2>4. c.op # "request" => acked[Record(c.n)] # Absent
    BY <2>2, <2>3 DEF IInv, Staffed
  <2>. QED
    BY <1>4, <2>2, <2>4 DEF Granted, Refused
<1>6. ~Final(c)
  BY <1>1, <1>2, <1>5, NotFinal
<1>7. family = "windows" => c \in WindowsCalls /\ (InUse(c) => Visible(AppRecord))
  BY <1>0, <1>2, <1>4, CallIs DEF InUse, Refused
<1>8. Good(Steps(c)) /\ Answered(Steps(c), Target(c))
  <2>1. CASE family = "manifest"
    <3>1. c \in ManifestCalls
      BY <1>0, <1>2, <2>1, CallIs
    <3>. QED
      BY <1>0, <1>3, <3>1, ManifestSteps
  <2>2. CASE family = "request"
    BY <1>0, <1>3, <1>5, <2>2, RequestSteps
  <2>3. CASE family = "windows"
    BY <1>0, <1>3, <1>7, <2>3, WindowSteps
  <2>. QED
    BY <1>0, <2>1, <2>2, <2>3
<1>. QED
  BY <1>1, <1>2, <1>3, <1>5, <1>6, <1>7, <1>8

\* The finalizer takes a call.
LEMMA TakenFinal ==
  ASSUME IInv, TakeFinal, queue # <<>>
  PROVE  /\ Good(Steps(Head(queue))) /\ Answered(Steps(Head(queue)), Target(Head(queue)))
         /\ todo' = Steps(Head(queue)) /\ job' = Head(queue) /\ queue' = Tail(queue) /\ role' = role
         /\ Head(queue) \in ManifestCalls /\ family = "manifest" /\ acked[Manifest] # Absent
<1>0. queue \in Seq(Calls) /\ DiskInv /\ family \in Families
  BY DEF IInv, OwnerTyped
<1>1. job' = Head(queue) /\ todo' = Steps(Head(queue)) /\ queue' = Tail(queue) /\ role' = role /\ role = "finalizer"
  BY DEF TakeFinal
<1>2. family = "manifest" /\ acked[Manifest] # Absent
  BY <1>1 DEF IInv, Staffed
<1>3. PICK c : c = Head(queue) /\ c \in Calls
  BY <1>0
<1>4. c \in ManifestCalls
  BY <1>0, <1>2, <1>3, CallIs
<1>5. Good(Steps(c)) /\ Answered(Steps(c), Target(c))
  BY <1>0, <1>2, <1>4, ManifestSteps
<1>. QED
  BY <1>1, <1>2, <1>3, <1>4, <1>5

\* What is answered is on the disk for sure; every step keeps it so.
LEMMA DiskStep ==
  ASSUME IInv, Next
  PROVE  DiskInv' /\ CallInv' /\ \A x \in Paths : acked[x] # Absent => acked'[x] # Absent
<1>0. /\ OwnerTyped /\ DiskInv /\ CallInv /\ family \in Families /\ job \in Calls \cup {Idle, Creating}
      /\ family' = family
  BY NextFrame DEF IInv, OwnerTyped
<1>1. known => Seen \in Paths' /\ disk[Seen].safe # Absent
  <2>1. Paths' = Paths
    BY <1>0 DEF Paths
  <2>. QED
    BY <2>1 DEF IInv, CallInv
<1>2. ASSUME UNCHANGED <<disk, acked>>
      PROVE  DiskInv' /\ \A x \in Paths : acked[x] # Absent => acked'[x] # Absent
  BY <1>0, <1>2, DiskFrame
<1>3. CASE Take
  <2>0. UNCHANGED <<disk, acked>>
    BY <1>3 DEF Take
  <2>1. PICK c : c = Head(queue)
    OBVIOUS
  <2>2. CASE Refused(c)
    <3>1. UNCHANGED <<job, todo, known>>
      BY <1>3, <2>1, <2>2 DEF Take
    <3>2. known' \in {known, FALSE}
      BY <3>1
    <3>. QED
      BY <1>0, <1>2, <2>0, <3>1, <3>2, CallFrame
  <2>3. CASE ~Refused(c)
    <3>1. /\ Good(Steps(c)) /\ Answered(Steps(c), Target(c)) /\ todo' = Steps(c) /\ job' = c
          /\ known' \in {known, FALSE}
      BY <1>3, <2>1, <2>3, TakenSteps
    <3>2. PICK t, p : t = Steps(c) /\ p = Target(c)
      OBVIOUS
    <3>3. Good(t)' /\ Answered(t, p)'
      BY <1>0, <2>0, <3>1, <3>2, GoodFrame
    <3>4. Good(todo)' /\ Answered(todo, Target(job))'
      <4>1. Target(job)' = p
        BY <3>1, <3>2 DEF Target
      <4>2. todo' = t
        BY <3>1, <3>2
      <4>. QED
        BY <3>3, <4>1, <4>2
    <3>5. Busy'
      <4>1. queue \in Seq(Calls) /\ queue # <<>>
        BY <1>0, <1>3 DEF OwnerTyped, Take
      <4>2. c \in Calls
        BY <2>1, <4>1
      <4>. QED
        BY <1>0, <3>1, <4>2, CallIs DEF Busy
    <3>6. known' => Seen \in Paths' /\ disk'[Seen].safe # Absent
      BY <1>1, <2>0, <3>1
    <3>. QED
      BY <1>2, <2>0, <3>4, <3>5, <3>6 DEF CallInv
  <2>. QED
    BY <2>2, <2>3
<1>4. CASE Do
  <2>1. acked' = acked
    BY <1>4 DEF Do
  <2>. QED
    BY <1>0, <1>4, <2>1, DoCall
<1>5. CASE Return
  <2>1. /\ Busy /\ todo = <<>> /\ acked' = [acked EXCEPT ![Target(job)] = Now(Target(job))]
        /\ job' = Idle /\ UNCHANGED <<disk, known, todo>>
    BY <1>5 DEF Return
  <2>2. PICK p : p = Target(job)
    OBVIOUS
  <2>3. p \in Paths /\ Answered(<<>>, p)
    BY <1>0, <2>1, <2>2, TargetIn DEF CallInv, Busy
  <2>4. DiskInv' /\ \A x \in Paths : acked[x] # Absent => acked'[x] # Absent
    BY <1>0, <2>1, <2>2, <2>3, ReturnDisk
  <2>5. CallInv'
    BY <1>1, <2>1, CallOver
  <2>. QED
    BY <2>4, <2>5
<1>6. CASE Fail
  <2>1. job' = Idle /\ todo' = <<>> /\ UNCHANGED <<disk, acked, known>>
    BY <1>6 DEF Fail, fs
  <2>2. CallInv'
    BY <1>1, <2>1, CallOver
  <2>. QED
    BY <1>2, <2>1, <2>2
<1>7. CASE Kill
  <2>1. job' = Idle /\ todo' = <<>> /\ known' = FALSE /\ UNCHANGED <<disk, acked>>
    BY <1>7 DEF Kill, Ended
  <2>2. CallInv'
    BY <2>1, CallOver
  <2>. QED
    BY <1>2, <2>1, <2>2
<1>8. CASE PowerLoss
  <2>1. job' = Idle /\ todo' = <<>> /\ known' = FALSE /\ UNCHANGED acked
    BY <1>8 DEF PowerLoss
  <2>2. CallInv'
    BY <2>1, CallOver
  <2>. QED
    BY <1>0, <1>8, <2>1, <2>2, LossDisk
<1>9. CASE TakeFinal
  <2>0. UNCHANGED <<disk, acked, known>> /\ known' \in {known, FALSE}
    BY <1>9 DEF TakeFinal, fs
  <2>1. CASE queue = <<>>
    <3>1. UNCHANGED <<job, todo>>
      BY <1>9, <2>1 DEF TakeFinal
    <3>. QED
      BY <1>0, <1>2, <2>0, <3>1, CallFrame
  <2>2. CASE queue # <<>>
    <3>0. PICK c : c = Head(queue)
      OBVIOUS
    <3>1. Good(Steps(c)) /\ Answered(Steps(c), Target(c)) /\ todo' = Steps(c) /\ job' = c
      BY <1>9, <2>2, <3>0, TakenFinal
    <3>2. PICK t, p : t = Steps(c) /\ p = Target(c)
      OBVIOUS
    <3>3. Good(t)' /\ Answered(t, p)'
      BY <1>0, <2>0, <3>1, <3>2, GoodFrame
    <3>4. Good(todo)' /\ Answered(todo, Target(job))'
      <4>1. Target(job)' = p
        BY <3>1, <3>2 DEF Target
      <4>2. todo' = t
        BY <3>1, <3>2
      <4>. QED
        BY <3>3, <4>1, <4>2
    <3>5. Busy'
      <4>1. queue \in Seq(Calls)
        BY <1>0 DEF OwnerTyped
      <4>2. c \in Calls
        BY <2>2, <3>0, <4>1
      <4>. QED
        BY <1>0, <3>1, <4>2, CallIs DEF Busy
    <3>6. known' => Seen \in Paths' /\ disk'[Seen].safe # Absent
      BY <1>1, <2>0
    <3>. QED
      BY <1>2, <2>0, <3>4, <3>5, <3>6 DEF CallInv
  <2>. QED
    BY <2>1, <2>2
<1>10. CASE OwnerActs \/ WorkerStarts \/ Exit \/ Finalize
  <2>1. UNCHANGED <<disk, acked, todo, job>> /\ known' \in {known, FALSE}
    BY <1>10, OwnerFrame DEF WorkerStarts, Exit, Finalize, fs
  <2>. QED
    BY <1>0, <1>2, <2>1, CallFrame
<1>. QED
  BY <1>3, <1>4, <1>5, <1>6, <1>7, <1>8, <1>9, <1>10 DEF Next, OwnerActs

(***************************************************************************)
(* The invariant is kept: requests.                                        *)
(***************************************************************************)
\* The elements of two pairs.
LEMMA TwoPairs ==
  ASSUME NEW a, NEW b, NEW c, NEW d, NEW u, u = <<a, b>> \o <<c, d>>, NEW k \in 1..Len(u)
  PROVE  u[k] \in {a, b, c, d}
<1>1. Len(u) = 4 /\ u[1] = a /\ u[2] = b /\ u[3] = c /\ u[4] = d
  OBVIOUS
<1>. QED
  BY <1>1

\* The elements of three pairs.
LEMMA ThreePairs ==
  ASSUME NEW a, NEW b, NEW c, NEW d, NEW e, NEW f, NEW u, u = (<<a, b>> \o <<c, d>>) \o <<e, f>>, NEW k \in 1..Len(u)
  PROVE  u[k] \in {a, b, c, d, e, f}
<1>1. PICK t : t = <<a, b>> \o <<c, d>>
  OBVIOUS
<1>2. Len(t) = 4 /\ t[1] = a /\ t[2] = b /\ t[3] = c /\ t[4] = d /\ t \in Seq({a, b, c, d})
  BY <1>1
<1>3. u = t \o <<e, f>>
  BY <1>1
<1>4. Len(u) = 6 /\ u[5] = e /\ u[6] = f /\ \A j \in 1..4 : u[j] = t[j]
  BY <1>2, <1>3
<1>5. k \in 1..4 \/ k = 5 \/ k = 6
  BY <1>4
<1>6. k \in 1..4 => t[k] \in {a, b, c, d}
  BY <1>2
<1>. QED
  BY <1>4, <1>5, <1>6

\* Only the terminal transition writes a terminal record, only artifact_state a settled one.
LEMMA RequestWrites ==
  ASSUME family \in Families, family = "request", DiskInv, NEW call \in RequestCalls, Granted(call),
         NEW u, u = Steps(call), NEW k \in 1..Len(u), Makes(u[k])
  PROVE  (Terminal(u[k].value) => Ends(call)) /\ (Settled(u[k].value) => call.op = "settle")
<1>1. call.n \in 1..Attempts /\ call.op \in {"request", "allocate", "launch", "transition", "settle"}
  BY DEF RequestCalls
<1>2. PICK n \in 1..Attempts : n = call.n
  BY <1>1
<1>3. /\ Record(n) \in Paths /\ Allocated(n) \in Paths
      /\ Holds(Record(n)) = RecordValues /\ Holds(Allocated(n)) = AllocValues
  BY PathsAre, KindsOf, HoldsBy
<1>4. /\ \A v \in {Dir, Plain} : ~Terminal(v) /\ ~Settled(v)
      /\ ~Terminal(NewRecord) /\ ~Settled(NewRecord)
  BY DEF Terminal, Settled, Dir, Plain, NewRecord
<1>5. \A do, p, v : Step(do, p, v).value = v /\ Sync(p).value = Dir
  BY DEF Step, Sync
<1>6. CASE call.op = "request"
  <2>1. u = (<<Step("mkdir", Group, Dir), Sync(Parent(Group))>>
               \o <<Step("create", Attempt(n), Dir), Sync(Parent(Attempt(n)))>>)
               \o <<Step("put", Record(n), NewRecord), Sync(Parent(Record(n)))>>
    BY <1>2, <1>6 DEF Steps, RequestAttempt, MkdirDurable, Exclusive, Write
  <2>2. u[k] \in {Step("mkdir", Group, Dir), Sync(Parent(Group)), Step("create", Attempt(n), Dir),
                  Sync(Parent(Attempt(n))), Step("put", Record(n), NewRecord), Sync(Parent(Record(n)))}
    BY <2>1, ThreePairs
  <2>3. u[k].value \in {Dir, NewRecord}
    BY <1>5, <2>2
  <2>. QED
    BY <1>4, <2>3
<1>7. CASE call.op = "allocate"
  <2>0. PICK v : v = [kind |-> "alloc", rev |-> 0, state |-> "allocated"]
    OBVIOUS
  <2>1. u = <<Step("create", Partial(n), Plain), Sync(Parent(Partial(n)))>>
              \o <<Step("put", Allocated(n), v), Sync(Parent(Allocated(n)))>>
    BY <1>2, <1>7, <2>0 DEF Steps, Allocate, NewFile, Write
  <2>2. u[k] \in {Step("create", Partial(n), Plain), Sync(Parent(Partial(n))),
                  Step("put", Allocated(n), v), Sync(Parent(Allocated(n)))}
    BY <2>1, TwoPairs
  <2>3. u[k].value \in {Dir, Plain, v}
    BY <1>5, <2>2
  <2>4. ~Terminal(v) /\ ~Settled(v)
    BY <2>0 DEF Terminal, Settled
  <2>. QED
    BY <1>4, <2>3, <2>4
<1>8. CASE call.op = "launch"
  <2>1. u = <<Step("put", Launch(n), Plain), Sync(Parent(Launch(n)))>>
    BY <1>2, <1>8 DEF Steps, RecordLaunch, Write
  <2>2. u[k].value \in {Dir, Plain}
    BY <1>5, <2>1
  <2>. QED
    BY <1>4, <2>2
<1>9. CASE call.op = "transition"
  <2>1. call.phase \in PhaseNames /\ call.outcome \in {"pending", "success", "unknown"}
    BY <1>9 DEF RequestCalls
  <2>2. Now(Record(n)) \in RecordValues
    <3>1. acked[Record(n)] # Absent
      BY <1>2, <1>9 DEF Granted
    <3>2. Visible(Record(n))
      BY <1>3, <3>1, AnsweredIsThere
    <3>. QED
      BY <1>3, <3>2, DiskAt DEF Now, Visible, DiskInv
  <2>3. PICK w : w = [Next1(Now(Record(n))) EXCEPT !.phase = call.phase, !.outcome = call.outcome]
    OBVIOUS
  <2>4. w \in RecordValues /\ w.phase = call.phase
    <3>1. PICK v, new, end : v = Now(Record(n)) /\ new = call.phase /\ end = call.outcome
      OBVIOUS
    <3>2. w = [Next1(v) EXCEPT !.phase = new, !.outcome = end]
      BY <2>3, <3>1
    <3>3. v \in RecordValues /\ new \in PhaseNames /\ end \in {"pending", "success", "unknown"}
      BY <2>1, <2>2, <3>1
    <3>4. w \in RecordValues /\ w.phase = new
      BY <3>2, <3>3, TransitionValue
    <3>. QED
      BY <3>1, <3>4
  <2>5. u = <<Step("put", Record(n), w), Sync(Parent(Record(n)))>>
    BY <1>2, <1>9, <2>3 DEF Steps, Transition, Write
  <2>6. u[k].value \in {Dir, w}
    BY <1>5, <2>5
  <2>7. ~Settled(w) /\ (Terminal(w) => Ends(call))
    BY <1>9, <2>4 DEF Settled, Terminal, Ends, RecordValues
  <2>. QED
    BY <1>4, <2>6, <2>7
<1>10. CASE call.op = "settle"
  <2>1. Now(Allocated(n)) \in AllocValues
    <3>1. Visible(Allocated(n))
      BY <1>2, <1>10 DEF Granted
    <3>. QED
      BY <1>3, <3>1, DiskAt DEF Now, Visible, DiskInv
  <2>2. PICK w : w = [Next1(Now(Allocated(n))) EXCEPT !.state = "complete"]
    OBVIOUS
  <2>3. w \in AllocValues
    BY <2>1, <2>2, SettledValue
  <2>4. call.state = "complete"
    BY <1>10 DEF RequestCalls
  <2>5. u = <<Step("put", Allocated(n), w), Sync(Parent(Allocated(n)))>>
    BY <1>2, <1>10, <2>2, <2>4 DEF Steps, ArtifactState, Write
  <2>6. u[k].value \in {Dir, w}
    BY <1>5, <2>5
  <2>7. ~Terminal(w)
    BY <2>3 DEF Terminal, AllocValues
  <2>. QED
    BY <1>4, <1>10, <2>6, <2>7
<1>. QED
  BY <1>1, <1>6, <1>7, <1>8, <1>9, <1>10

\* What is over, or closed, was so before a step, an answer or a failure.
LEMMA OverBefore ==
  ASSUME IInv, family = "request", Next, role' # "over", ~Take, ~OwnerActs
  PROVE  (Over' => Over) /\ (Closed' => Closed) /\ made' = made
<1>0. /\ OwnerTyped /\ DiskInv /\ CallInv /\ family \in Families /\ job \in Calls \cup {Idle, Creating}
      /\ published \in Remembered /\ tickets \in [1..Attempts -> Answers] /\ life \in {"up", "failing", "quit"}
  BY DEF IInv, OwnerTyped
<1>1. ~Ends(Idle) /\ Idle.op # "settle"
  BY DEF Ends, Idle, None
<1>2. \A n \in 1..Attempts : Record(n) \in Paths /\ Allocated(n) \in Paths
  BY <1>0, PathsAre
<1>3. ~(Finalize \/ TakeFinal)
  <2>1. role = "finalizer" => family = "manifest"
    BY DEF IInv, Staffed
  <2>. QED
    BY <2>1 DEF Finalize, TakeFinal
<1>4. CASE Do
  <2>1. /\ Forward(todo[1]) /\ Changes(todo[1]) /\ Good(todo) /\ todo # <<>> /\ todo' = Tail(todo)
        /\ UNCHANGED <<job, made>>
    BY <1>0, <1>4, DoCall DEF owner
  <2>2. PICK t, u : t = todo /\ u = Tail(t)
    OBVIOUS
  <2>3. /\ Len(t) \in Nat /\ 1 \in 1..Len(t) /\ Len(u) = Len(t) - 1 /\ todo' = u
        /\ \A k \in 1..Len(u) : u[k] = t[k + 1] /\ k + 1 \in 1..Len(t)
    BY <2>1, <2>2, TailOf
  <2>4. \A x \in Paths : disk'[x].now = disk[x].now \/ (Makes(t[1]) /\ disk'[x].now = t[1].value)
    BY <2>1, <2>2 DEF Changes
  <2>5. ASSUME NEW n \in 1..Attempts
        PROVE  /\ Terminal(disk'[Record(n)].now) => Over
               /\ Settled(disk'[Allocated(n)].now) => Closed
    BY <1>2, <2>2, <2>3, <2>4 DEF Over, Closed
  <2>6. ASSUME NEW k \in 1..Len(todo'), Makes(todo'[k])
        PROVE  /\ Terminal(todo'[k].value) => Over
               /\ Settled(todo'[k].value) => Closed
    <3>1. todo'[k] = todo[k + 1] /\ k + 1 \in 1..Len(todo)
      BY <2>2, <2>3, <2>6
    <3>. QED
      BY <2>6, <3>1 DEF Over, Closed
  <2>7. (Ends(job') => Over) /\ (job'.op = "settle" => Closed)
    BY <2>1 DEF Over, Closed
  <2>8. Over' => Over
    BY <2>5, <2>6, <2>7 DEF Over, Terminal, Ends
  <2>9. Closed' => Closed
    BY <2>5, <2>6, <2>7 DEF Closed, Settled
  <2>. QED
    BY <2>1, <2>8, <2>9
<1>5. ASSUME job' \in {job, Idle}, todo' \in {todo, <<>>}, disk' = disk
      PROVE  (Over' => Over) /\ (Closed' => Closed)
  <2>1. \A k \in 1..Len(todo') : todo' = todo
    BY <1>5
  <2>2. (Ends(job') => Ends(job)) /\ (job'.op = "settle" => job.op = "settle")
    BY <1>1, <1>5
  <2>3. Over' => Over
    BY <1>5, <2>1, <2>2 DEF Over, Terminal, Ends
  <2>4. Closed' => Closed
    BY <1>5, <2>1, <2>2 DEF Closed, Settled
  <2>. QED
    BY <2>3, <2>4
<1>6. CASE Return \/ Fail
  <2>1. job' \in {job, Idle} /\ todo' \in {todo, <<>>} /\ disk' = disk
    BY <1>6 DEF Return, Fail, fs
  <2>2. Told(job, TRUE) \/ Told(job, FALSE)
    BY <1>6 DEF Return, Fail
  <2>3. made' = made
    BY <2>2 DEF Told
  <2>. QED
    BY <1>5, <2>1, <2>3
<1>7. CASE Kill \/ WorkerStarts \/ Exit
  <2>1. job' \in {job, Idle} /\ todo' \in {todo, <<>>} /\ disk' = disk /\ made' = made
    BY <1>7 DEF Kill, Ended, WorkerStarts, Exit, owner, fs
  <2>. QED
    BY <1>5, <2>1
<1>8. ~PowerLoss
  BY DEF PowerLoss
<1>. QED
  BY <1>3, <1>4, <1>6, <1>7, <1>8 DEF Next, OwnerActs

\* What is over stays over.
LEMMA NotOver ==
  ASSUME IInv, Next, role' # "over"
  PROVE  role # "over"
<1>1. (Busy => role # "over")
  BY DEF IInv, Staffed
<1>2. CASE Do \/ Return \/ Fail
  BY <1>1, <1>2 DEF Do, Return, Fail
<1>3. CASE Take \/ Kill \/ PowerLoss \/ WorkerStarts \/ Exit \/ Finalize \/ TakeFinal
  BY <1>3 DEF Take, Kill, PowerLoss, WorkerStarts, Exit, Finalize, TakeFinal
<1>4. CASE OwnerActs
  BY <1>4, OwnerFrame
<1>. QED
  BY <1>2, <1>3, <1>4 DEF Next, OwnerActs

\* The queue only grows behind a worker's calls.
LEMMA QueueStays ==
  ASSUME IInv, Next, ~Take, ~OwnerActs, family # "manifest"
  PROVE  queue' = queue \/ queue' = <<>>
<1>1. ~(Finalize \/ TakeFinal)
  <2>1. role = "finalizer" => family = "manifest"
    BY DEF IInv, Staffed
  <2>. QED
    BY <2>1 DEF Finalize, TakeFinal
<1>2. CASE Do \/ Return \/ Fail
  BY <1>2 DEF Do, Return, Fail
<1>3. CASE Kill \/ PowerLoss \/ WorkerStarts \/ Exit
  BY <1>3 DEF Kill, PowerLoss, Ended, WorkerStarts, Exit
<1>. QED
  BY <1>1, <1>2, <1>3 DEF Next, OwnerActs

\* A call that is taken is the first to end or to settle.
LEMMA TakeBefore ==
  ASSUME IInv, family = "request", Take
  PROVE  /\ (Over' => Over \/ Ends(queue[1])) /\ (Closed' => Closed \/ queue[1].op = "settle") /\ made' = made
<1>0. /\ OwnerTyped /\ DiskInv /\ family \in Families /\ queue \in Seq(Calls)
      /\ published \in Remembered /\ tickets \in [1..Attempts -> Answers] /\ life \in {"up", "failing", "quit"}
  BY DEF IInv, OwnerTyped
<1>1. PICK c : c = Head(queue) /\ c = queue[1]
  BY <1>0
<1>2. disk' = disk /\ queue # <<>> /\ c \in Calls
  BY <1>0, <1>1, TakeIs
<1>3. CASE Refused(c)
  <2>1. UNCHANGED <<job, todo>> /\ Told(c, FALSE)
    BY <1>1, <1>3 DEF Take
  <2>2. made' = made
    BY <2>1 DEF Told
  <2>3. Over' => Over
    BY <1>2, <2>1 DEF Over, Terminal, Ends
  <2>4. Closed' => Closed
    BY <1>2, <2>1 DEF Closed, Settled
  <2>. QED
    BY <2>2, <2>3, <2>4
<1>4. CASE ~Refused(c)
  <2>1. todo' = Steps(c) /\ job' = c /\ UNCHANGED owner /\ Granted(c)
    BY <1>1, <1>4, TakenSteps
  <2>2. c \in RequestCalls
    BY <1>0, <1>2, CallIs
  <2>3. PICK u : u = Steps(c)
    OBVIOUS
  <2>4. \A k \in 1..Len(u) : Makes(u[k]) =>
          (Terminal(u[k].value) => Ends(c)) /\ (Settled(u[k].value) => c.op = "settle")
    BY <1>0, <2>1, <2>2, <2>3, RequestWrites
  <2>5. todo' = u /\ made' = made
    BY <2>1, <2>3 DEF owner
  <2>6. Over' => Over \/ Ends(c)
    BY <1>2, <2>1, <2>4, <2>5 DEF Over, Terminal, Ends
  <2>7. Closed' => Closed \/ c.op = "settle"
    BY <1>2, <2>1, <2>4, <2>5 DEF Closed, Settled
  <2>. QED
    BY <1>1, <2>5, <2>6, <2>7
<1>. QED
  BY <1>3, <1>4

\* Nothing comes behind the terminal transition, or behind the settled artifact.
LEMMA LastStep ==
  ASSUME IInv, Next
  PROVE  Last'
<1>0. /\ OwnerTyped /\ DiskInv /\ Applied /\ Once /\ family \in Families /\ queue \in Seq(Calls)
      /\ family' = family /\ family \in {"manifest", "request", "windows"}
  BY NextFrame, StoreAssumption DEF IInv, OwnerTyped
<1>1. SUFFICES ASSUME family = "request", role' # "over"
               PROVE  Last'
  BY <1>0 DEF Last
<1>2. /\ Over => "terminal" \in made /\ \A i \in 1..Len(queue) : queue[i].op # "transition"
      /\ \A i \in 1..Len(queue) : Ends(queue[i]) =>
           "terminal" \in made /\ \A j \in (i + 1)..Len(queue) : queue[j].op # "transition"
      /\ Closed => "complete" \in made /\ \A i \in 1..Len(queue) : queue[i].op # "settle"
      /\ \A i \in 1..Len(queue) : queue[i].op = "settle" =>
           "complete" \in made /\ \A j \in (i + 1)..Len(queue) : queue[j].op # "settle"
  BY <1>1, NotOver DEF IInv, Last
<1>3. CASE ~Take /\ ~OwnerActs
  <2>1. (Over' => Over) /\ (Closed' => Closed) /\ made' = made
    BY <1>1, <1>3, OverBefore
  <2>2. queue' = queue \/ queue' = <<>>
    BY <1>1, <1>3, QueueStays
  <2>3. CASE queue' = queue
    BY <1>2, <2>1, <2>3 DEF Last, Ends
  <2>4. CASE queue' = <<>>
    BY <1>2, <2>1, <2>4 DEF Last
  <2>. QED
    BY <2>2, <2>3, <2>4
<1>4. CASE Take
  <2>1. (Over' => Over \/ Ends(queue[1])) /\ (Closed' => Closed \/ queue[1].op = "settle") /\ made' = made
    BY <1>1, <1>4, TakeBefore
  <2>2. PICK q, u : q = queue /\ u = Tail(q)
    OBVIOUS
  <2>3. q \in Seq(Calls) /\ q # <<>> /\ queue' = u
    BY <1>0, <1>4, <2>2, TakeIs
  <2>4. /\ Len(u) = Len(q) - 1 /\ Len(q) \in Nat /\ 1 \in 1..Len(q)
        /\ \A i \in 1..Len(u) : u[i] = q[i + 1] /\ i + 1 \in 1..Len(q) /\ i + 1 \in (1 + 1)..Len(q)
    BY <2>2, <2>3, QueueTaken
  <2>5. Over' => "terminal" \in made' /\ \A i \in 1..Len(u) : u[i].op # "transition"
    BY <1>2, <2>1, <2>2, <2>4
  <2>6. Closed' => "complete" \in made' /\ \A i \in 1..Len(u) : u[i].op # "settle"
    BY <1>2, <2>1, <2>2, <2>4
  <2>7. ASSUME NEW i \in 1..Len(u)
        PROVE  /\ i + 1 \in 1..Len(q) /\ u[i] = q[i + 1]
               /\ \A j \in (i + 1)..Len(u) : j + 1 \in ((i + 1) + 1)..Len(q) /\ u[j] = q[j + 1]
    BY <2>4
  <2>8. ASSUME NEW i \in 1..Len(u), Ends(u[i])
        PROVE  "terminal" \in made' /\ \A j \in (i + 1)..Len(u) : u[j].op # "transition"
    <3>1. Ends(q[i + 1])
      BY <2>7, <2>8
    <3>2. "terminal" \in made /\ \A j \in ((i + 1) + 1)..Len(q) : q[j].op # "transition"
      BY <1>2, <2>2, <2>7, <3>1
    <3>. QED
      BY <2>1, <2>7, <3>2
  <2>9. ASSUME NEW i \in 1..Len(u), u[i].op = "settle"
        PROVE  "complete" \in made' /\ \A j \in (i + 1)..Len(u) : u[j].op # "settle"
    <3>1. q[i + 1].op = "settle"
      BY <2>7, <2>9
    <3>2. "complete" \in made /\ \A j \in ((i + 1) + 1)..Len(q) : q[j].op # "settle"
      BY <1>2, <2>2, <2>7, <3>1
    <3>. QED
      BY <2>1, <2>7, <3>2
  <2>. QED
    BY <2>3, <2>5, <2>6, <2>8, <2>9 DEF Last, Ends
<1>5. CASE OwnerActs
  <2>1. Observe \/ Allocations \/ Settle
    <3>1. CASE Readiness \/ RecordFailure \/ Quit
      BY <1>0, <1>1, <3>1, ManifestActs
    <3>2. CASE Prepare \/ Persist \/ Query \/ Publish \/ Published \/ Abandon \/ CheckpointTurn
      BY <1>0, <1>1, <3>2, WindowActs
    <3>. QED
      BY <1>5, <3>1, <3>2 DEF OwnerActs
  <2>2. made \subseteq made'
    BY <1>0, <2>1, RequestActs
  <2>3. PICK c \in Seq(Calls) :
          /\ queue' = queue \o c /\ Len(c) >= 1 /\ \A i \in 1..(Len(c) - 1) : c[i].op = "request"
          /\ c[Len(c)].op = "transition" =>
               "terminal" \notin made /\ (Ends(c[Len(c)]) => "terminal" \in made')
          /\ c[Len(c)].op = "settle" => "complete" \notin made /\ "complete" \in made'
    BY <1>0, <2>1, RequestActs
  <2>4. PICK q, u : q = queue /\ u = q \o c
    OBVIOUS
  <2>5. /\ Len(u) = Len(q) + Len(c) /\ Len(q) \in Nat /\ Len(c) \in Nat
        /\ \A i \in 1..Len(u) :
             \/ i \in 1..Len(q) /\ u[i] = q[i]
             \/ i - Len(q) \in 1..Len(c) /\ u[i] = c[i - Len(q)] /\ i > Len(q)
    BY <1>0, <2>3, <2>4, QueueGrown
  <2>6. PICK a : a = c[Len(c)]
    OBVIOUS
  <2>7. ASSUME NEW i \in 1..Len(u)
        PROVE  \/ i \in 1..Len(q) /\ u[i] = q[i]
               \/ u[i].op = "request"
               \/ i = Len(u) /\ u[i] = a
    <3>1. CASE i \in 1..Len(q) /\ u[i] = q[i]
      BY <3>1
    <3>2. ASSUME NEW j \in 1..Len(c), j = i - Len(q), u[i] = c[j]
          PROVE  u[i].op = "request" \/ (i = Len(u) /\ u[i] = a)
      <4>1. j = Len(c) \/ j \in 1..(Len(c) - 1)
        BY <2>5
      <4>2. j = Len(c) => i = Len(u)
        BY <2>5, <3>2
      <4>. QED
        BY <2>3, <2>6, <3>2, <4>1, <4>2
    <3>. QED
      BY <2>5, <3>1, <3>2
  <2>8. (Over' => Over) /\ (Closed' => Closed)
    <3>1. UNCHANGED <<disk, job, todo>>
      BY <1>5, OwnerFrame
    <3>2. Over' => Over
      BY <3>1 DEF Over, Terminal, Ends
    <3>3. Closed' => Closed
      BY <3>1 DEF Closed, Settled
    <3>. QED
      BY <3>2, <3>3
  <2>9. ASSUME Over'
        PROVE  "terminal" \in made' /\ \A i \in 1..Len(u) : u[i].op # "transition"
    BY <1>2, <2>2, <2>3, <2>4, <2>6, <2>7, <2>8, <2>9
  <2>10. ASSUME Closed'
         PROVE  "complete" \in made' /\ \A i \in 1..Len(u) : u[i].op # "settle"
    BY <1>2, <2>2, <2>3, <2>4, <2>6, <2>7, <2>8, <2>10
  <2>11. ASSUME NEW i \in 1..Len(u), Ends(u[i])
         PROVE  "terminal" \in made' /\ \A j \in (i + 1)..Len(u) : u[j].op # "transition"
    <3>1. u[i].op = "transition"
      BY <2>11 DEF Ends
    <3>2. CASE i \in 1..Len(q) /\ u[i] = q[i]
      <4>1. "terminal" \in made /\ \A j \in (i + 1)..Len(q) : q[j].op # "transition"
        BY <1>2, <2>4, <2>11, <3>2
      <4>2. ASSUME NEW j \in (i + 1)..Len(u)
            PROVE  u[j].op # "transition"
        <5>1. j \in 1..Len(u)
          BY <2>5
        <5>2. j \in 1..Len(q) => j \in (i + 1)..Len(q)
          BY <2>5
        <5>3. a.op # "transition"
          BY <2>3, <2>6, <4>1
        <5>. QED
          BY <2>7, <4>1, <5>1, <5>2, <5>3
      <4>. QED
        BY <2>2, <4>1, <4>2
    <3>3. CASE i = Len(u) /\ u[i] = a
      BY <2>3, <2>5, <2>6, <2>11, <3>1, <3>3
    <3>. QED
      BY <2>7, <3>1, <3>2, <3>3
  <2>12. ASSUME NEW i \in 1..Len(u), u[i].op = "settle"
         PROVE  "complete" \in made' /\ \A j \in (i + 1)..Len(u) : u[j].op # "settle"
    <3>2. CASE i \in 1..Len(q) /\ u[i] = q[i]
      <4>1. "complete" \in made /\ \A j \in (i + 1)..Len(q) : q[j].op # "settle"
        BY <1>2, <2>4, <2>12, <3>2
      <4>2. ASSUME NEW j \in (i + 1)..Len(u)
            PROVE  u[j].op # "settle"
        <5>1. j \in 1..Len(u)
          BY <2>5
        <5>2. j \in 1..Len(q) => j \in (i + 1)..Len(q)
          BY <2>5
        <5>3. a.op # "settle"
          BY <2>3, <2>6, <4>1
        <5>. QED
          BY <2>7, <4>1, <5>1, <5>2, <5>3
      <4>. QED
        BY <2>2, <4>1, <4>2
    <3>3. CASE i = Len(u) /\ u[i] = a
      BY <2>3, <2>5, <2>6, <2>12, <3>3
    <3>. QED
      BY <2>7, <2>12, <3>2, <3>3
  <2>. QED
    BY <2>3, <2>4, <2>9, <2>10, <2>11, <2>12 DEF Last, Ends
<1>. QED
  BY <1>3, <1>4, <1>5

(***************************************************************************)
(* The invariant is kept: failures.                                        *)
(***************************************************************************)
\* A call of the finalizer's that completes names the failure that was retained.
Completes(call, finalizer, cause) ==
  call.op = "update" /\ call.cleanup = "complete" => finalizer /\ (cause # None => call.failure # None)

\* What a call on the manifest writes blames as what was there, and completes as it is told.
LEMMA WrittenBlames ==
  ASSUME NEW m, m = Now(Manifest), m \in ManifestValues, Blames(m), NEW call \in ManifestCalls,
         call.op = "update" /\ call.cleanup = "complete" /\ early # None => call.failure # None,
         NEW v, v = Written(call)
  PROVE  /\ Blames(v) /\ (m.failure # None => v.failure = m.failure)
         /\ v.cleanup = "complete" => m.cleanup = "complete" \/ (call.op = "update" /\ call.cleanup = "complete")
<1>1. /\ m.failure # None => m.state = "failed" /\ m.outcome = "failed"
      /\ early # None /\ m.cleanup = "complete" => m.failure # None
  BY DEF Blames
<1>2. CASE call.op = "update"
  <2>1. call \in UpdateCalls
    BY <1>2 DEF ManifestCalls
  <2>2. v = Updated(m, call)
    BY <1>2 DEF Written
  <2>3. /\ v.failure = FirstFailure(m.failure, call.failure)
        /\ v.cleanup = IF call.cleanup = None THEN m.cleanup ELSE call.cleanup
        /\ v.failure # None => v.outcome = "failed" /\ v.state = "failed"
    BY <1>1, <2>1, <2>2, UpdatedValue
  <2>4. /\ m.failure # None => v.failure = m.failure
        /\ call.failure # None => v.failure # None
    BY <2>3 DEF FirstFailure
  <2>5. v.cleanup = "complete" => m.cleanup = "complete" \/ call.cleanup = "complete"
    BY <2>3
  <2>6. early # None /\ v.cleanup = "complete" => v.failure # None
    BY <1>1, <1>2, <2>4, <2>5
  <2>. QED
    BY <1>2, <2>3, <2>4, <2>5, <2>6 DEF Blames
<1>3. CASE call.op # "update"
  <2>1. v = Next1(m)
    BY <1>3 DEF Written
  <2>2. v.state = m.state /\ v.failure = m.failure /\ v.outcome = m.outcome /\ v.cleanup = m.cleanup
    BY <2>1, NextManifest
  <2>. QED
    BY <1>1, <2>2 DEF Blames
<1>. QED
  BY <1>2, <1>3

\* What Failures says, part by part.
LEMMA FailureParts ==
  ASSUME Failures, role # "over", family = "manifest" \/ role = "creator", NEW m, m = disk[Manifest].now
  PROVE  /\ m # Absent => Blames(m)
         /\ m # Absent /\ acked[Manifest] # Absent /\ acked[Manifest].failure # None => m.failure = acked[Manifest].failure
         /\ \A k \in 1..Len(todo) : Puts(k, Manifest) =>
              /\ Blames(todo[k].value)
              /\ m # Absent /\ m.failure # None => todo[k].value.failure = m.failure
              /\ \A l \in 1..Len(todo) : Puts(l, Manifest) => l = k
         /\ \A i \in 1..Len(queue) : Completes(queue[i], role = "finalizer", early)
         /\ role \in {"creator", "created", "worker"} =>
              /\ m # Absent => m.cleanup # "complete"
              /\ \A k \in 1..Len(todo) : Puts(k, Manifest) => todo[k].value.cleanup # "complete"
  BY DEF Failures, Completes

\* The manifest is as it was.
LEMMA FailuresSame ==
  ASSUME Failures, role # "over", family = "manifest" \/ role = "creator",
         UNCHANGED <<disk, acked>>, todo' \in {todo, <<>>}, early' \in {None, "cause"},
         early' = early \/ role = "worker",
         role' \in {"creator", "created", "worker"} => role \in {"creator", "created", "worker"},
         \A i \in 1..Len(queue') : Completes(queue'[i], role' = "finalizer", early')
  PROVE  Failures'
<1>1. PICK m : m = disk[Manifest].now
  OBVIOUS
<1>2. /\ m # Absent => Blames(m)
      /\ m # Absent /\ acked[Manifest] # Absent /\ acked[Manifest].failure # None => m.failure = acked[Manifest].failure
      /\ \A k \in 1..Len(todo) : Puts(k, Manifest) =>
           /\ Blames(todo[k].value)
           /\ m # Absent /\ m.failure # None => todo[k].value.failure = m.failure
           /\ \A l \in 1..Len(todo) : Puts(l, Manifest) => l = k
      /\ role \in {"creator", "created", "worker"} =>
           /\ m # Absent => m.cleanup # "complete"
           /\ \A k \in 1..Len(todo) : Puts(k, Manifest) => todo[k].value.cleanup # "complete"
  BY <1>1, FailureParts
<1>3. disk'[Manifest].now = m /\ acked'[Manifest] = acked[Manifest]
  BY <1>1
<1>4. ASSUME NEW v, Blames(v), role = "worker" => v.cleanup # "complete"
      PROVE  Blames(v)'
  BY <1>4 DEF Blames
<1>5. \A k : Puts(k, Manifest)' => Puts(k, Manifest) /\ todo' = todo
  BY DEF Puts
<1>6. m # Absent => Blames(m)'
  BY <1>2, <1>4
<1>7. ASSUME NEW k \in 1..Len(todo'), Puts(k, Manifest)'
      PROVE  /\ Blames(todo[k].value)'
             /\ m # Absent /\ m.failure # None => todo'[k].value.failure = m.failure
             /\ \A l \in 1..Len(todo') : Puts(l, Manifest)' => l = k
             /\ role' \in {"creator", "created", "worker"} => todo'[k].value.cleanup # "complete"
  <2>1. Puts(k, Manifest) /\ todo' = todo /\ k \in 1..Len(todo)
    BY <1>5, <1>7
  <2>2. PICK v : v = todo[k].value
    OBVIOUS
  <2>3. Blames(v) /\ (role = "worker" => v.cleanup # "complete")
    BY <1>2, <2>1, <2>2
  <2>4. Blames(v)'
    BY <1>4, <2>3
  <2>5. Blames(todo[k].value)'
    BY <2>1, <2>2, <2>4 DEF Blames
  <2>. QED
    BY <1>2, <1>5, <2>1, <2>5
<1>8. m # Absent => Blames(disk[Manifest].now)'
  BY <1>1, <1>3, <1>6 DEF Blames
<1>9. /\ disk'[Manifest].now # Absent => Blames(disk[Manifest].now)'
      /\ disk'[Manifest].now # Absent /\ acked'[Manifest] # Absent /\ acked'[Manifest].failure # None =>
           disk'[Manifest].now.failure = acked'[Manifest].failure
      /\ role' \in {"creator", "created", "worker"} => (disk'[Manifest].now # Absent => disk'[Manifest].now.cleanup # "complete")
  BY <1>2, <1>3, <1>8
<1>. QED
  BY <1>3, <1>7, <1>9 DEF Failures, Completes

\* A call on the manifest begins.
LEMMA FailuresBegin ==
  ASSUME IInv, role # "over", family = "manifest", acked[Manifest] # Absent, NEW call \in ManifestCalls,
         Completes(call, role = "finalizer", early),
         UNCHANGED <<disk, acked, early, role, family>>, todo' = Steps(call),
         \A i \in 1..Len(queue') : Completes(queue'[i], role = "finalizer", early)
  PROVE  Failures'
<1>0. DiskInv /\ family \in Families /\ Failures
  BY DEF IInv, OwnerTyped
<1>1. PICK m : m = Now(Manifest) /\ m = disk[Manifest].now
  BY DEF Now
<1>2. /\ Steps(call) = Write(Manifest, Written(call)) /\ Visible(Manifest) /\ m \in ManifestValues
  BY <1>0, <1>1, ManifestSteps
<1>3. /\ m # Absent => Blames(m)
      /\ m # Absent /\ acked[Manifest] # Absent /\ acked[Manifest].failure # None => m.failure = acked[Manifest].failure
      /\ role \in {"creator", "created", "worker"} => (m # Absent => m.cleanup # "complete")
  BY <1>0, <1>1, FailureParts
<1>4. m # Absent
  BY <1>1, <1>2 DEF Visible
<1>5. PICK v : v = Written(call)
  OBVIOUS
<1>6. /\ Blames(v) /\ (m.failure # None => v.failure = m.failure)
      /\ v.cleanup = "complete" => m.cleanup = "complete" \/ (call.op = "update" /\ call.cleanup = "complete")
  BY <1>1, <1>2, <1>3, <1>4, <1>5, WrittenBlames DEF Completes
<1>7. todo' = <<Step("put", Manifest, v), Sync(Parent(Manifest))>>
  BY <1>2, <1>5 DEF Write
<1>8. ASSUME NEW k, Puts(k, Manifest)'
      PROVE  k = 1 /\ todo'[k].value = v
  <2>1. k \in 1..Len(todo') /\ Makes(todo'[k])
    BY <1>8 DEF Puts, Makes
  <2>2. ~Makes(Sync(Parent(Manifest))) /\ Step("put", Manifest, v).value = v
    BY DEF Makes, Sync, Step
  <2>3. k \in 1..2 /\ todo'[1] = Step("put", Manifest, v) /\ todo'[2] = Sync(Parent(Manifest))
    BY <1>7, <2>1
  <2>. QED
    BY <2>1, <2>2, <2>3
<1>9. Blames(v)' /\ Blames(m)'
  BY <1>3, <1>4, <1>6 DEF Blames
<1>10. role = "worker" \/ role = "creator" \/ role = "created" => v.cleanup # "complete"
  BY <1>3, <1>4, <1>6 DEF Completes
<1>11. ASSUME NEW k \in 1..Len(todo'), Puts(k, Manifest)'
       PROVE  /\ Blames(todo[k].value)'
              /\ m # Absent /\ m.failure # None => todo'[k].value.failure = m.failure
              /\ \A l \in 1..Len(todo') : Puts(l, Manifest)' => l = k
              /\ role' \in {"creator", "created", "worker"} => todo'[k].value.cleanup # "complete"
  <2>1. Blames(todo[k].value)'
    BY <1>8, <1>9, <1>11 DEF Blames
  <2>. QED
    BY <1>6, <1>8, <1>10, <1>11, <2>1
<1>12. disk'[Manifest].now = m /\ acked'[Manifest] = acked[Manifest]
  BY <1>1
<1>13. Blames(disk[Manifest].now)'
  BY <1>9, <1>12 DEF Blames
<1>. QED
  BY <1>3, <1>11, <1>12, <1>13 DEF Failures, Completes

\* A step of a call.
LEMMA FailuresDo ==
  ASSUME IInv, Do
  PROVE  Failures'
<1>0. /\ OwnerTyped /\ DiskInv /\ CallInv /\ family \in Families /\ job \in Calls \cup {Idle, Creating}
      /\ Failures /\ Manifest \in Paths
  BY PathsAre DEF IInv, OwnerTyped
<1>1. /\ Forward(todo[1]) /\ Changes(todo[1]) /\ Good(todo) /\ todo # <<>> /\ todo' = Tail(todo)
      /\ UNCHANGED <<acked, job, queue, role, early, family>> /\ DiskInv'
  BY <1>0, DoCall DEF owner
<1>2. SUFFICES ASSUME role # "over", family = "manifest" \/ role = "creator"
               PROVE  Failures'
  BY <1>1 DEF Failures
<1>3. PICK m, n : m = disk[Manifest].now /\ n = disk'[Manifest].now
  OBVIOUS
<1>4. /\ m # Absent => Blames(m)
      /\ m # Absent /\ acked[Manifest] # Absent /\ acked[Manifest].failure # None => m.failure = acked[Manifest].failure
      /\ \A k \in 1..Len(todo) : Puts(k, Manifest) =>
           /\ Blames(todo[k].value)
           /\ m # Absent /\ m.failure # None => todo[k].value.failure = m.failure
           /\ \A l \in 1..Len(todo) : Puts(l, Manifest) => l = k
      /\ \A i \in 1..Len(queue) : Completes(queue[i], role = "finalizer", early)
      /\ role \in {"creator", "created", "worker"} =>
           /\ m # Absent => m.cleanup # "complete"
           /\ \A k \in 1..Len(todo) : Puts(k, Manifest) => todo[k].value.cleanup # "complete"
  BY <1>0, <1>2, <1>3, FailureParts
<1>5. /\ Len(todo) \in Nat /\ 1 \in 1..Len(todo) /\ Len(todo') = Len(todo) - 1
      /\ \A k \in 1..Len(todo') : todo'[k] = todo[k + 1] /\ k + 1 \in 1..Len(todo)
  <2>1. PICK t, u : t = todo /\ u = Tail(t)
    OBVIOUS
  <2>. QED
    BY <1>1, <2>1, TailOf
<1>6. \/ Puts(1, Manifest) /\ n = todo[1].value
      \/ ~Puts(1, Manifest) /\ n = m
  BY <1>0, <1>1, <1>3, <1>5 DEF Changes, Puts
<1>7. acked[Manifest] # Absent => m # Absent
  BY <1>0, <1>3 DEF DiskInv, Kept, Linked, Visible
<1>8. \A v : Blames(v)' <=> Blames(v)
  BY <1>1 DEF Blames
<1>9. ASSUME NEW k \in 1..Len(todo'), Puts(k, Manifest)'
      PROVE  Puts(k + 1, Manifest) /\ todo'[k] = todo[k + 1] /\ k + 1 \in 1..Len(todo) /\ k + 1 # 1 /\ n = m
  <2>1. todo'[k] = todo[k + 1] /\ k + 1 \in 1..Len(todo) /\ k + 1 # 1
    BY <1>5, <1>9
  <2>2. Puts(k + 1, Manifest)
    BY <1>9, <2>1 DEF Puts, Makes
  <2>3. ~Puts(1, Manifest)
    BY <1>4, <1>5, <2>1, <2>2
  <2>. QED
    BY <1>6, <2>1, <2>2, <2>3
<1>10. /\ n # Absent => Blames(n)'
       /\ n # Absent /\ acked[Manifest] # Absent /\ acked[Manifest].failure # None => n.failure = acked[Manifest].failure
       /\ role \in {"creator", "created", "worker"} => (n # Absent => n.cleanup # "complete")
  <2>1. CASE n = m
    BY <1>4, <1>8, <2>1
  <2>2. CASE Puts(1, Manifest) /\ n = todo[1].value
    BY <1>4, <1>5, <1>7, <1>8, <2>2
  <2>. QED
    BY <1>6, <2>1, <2>2
<1>11. ASSUME NEW k \in 1..Len(todo'), Puts(k, Manifest)'
       PROVE  /\ Blames(todo[k].value)'
              /\ n # Absent /\ n.failure # None => todo'[k].value.failure = n.failure
              /\ \A l \in 1..Len(todo') : Puts(l, Manifest)' => l = k
              /\ role' \in {"creator", "created", "worker"} => todo'[k].value.cleanup # "complete"
  <2>1. PICK v : v = todo[k + 1].value
    OBVIOUS
  <2>2. Blames(v)'
    BY <1>4, <1>8, <1>9, <1>11, <2>1
  <2>3. Blames(todo[k].value)'
    BY <1>9, <1>11, <2>1, <2>2 DEF Blames
  <2>4. ASSUME NEW l \in 1..Len(todo'), Puts(l, Manifest)'
        PROVE  l = k
    <3>1. Puts(l + 1, Manifest) /\ l + 1 \in 1..Len(todo)
      BY <1>9, <2>4
    <3>2. l + 1 = k + 1
      BY <1>4, <1>9, <1>11, <3>1
    <3>. QED
      BY <1>5, <3>2
  <2>. QED
    BY <1>1, <1>4, <1>9, <1>11, <2>1, <2>3, <2>4
<1>12. n # Absent => Blames(disk[Manifest].now)'
  BY <1>3, <1>10 DEF Blames
<1>. QED
  BY <1>1, <1>3, <1>4, <1>10, <1>11, <1>12 DEF Failures, Completes

\* A call returns: what it answers for is what was read, or it is of another path.
LEMMA ReturnManifest ==
  ASSUME IInv, Return
  PROVE  /\ acked'[Manifest] = acked[Manifest] \/ acked'[Manifest] = disk[Manifest].now
         /\ family # "manifest" /\ role # "creator" => acked'[Manifest] = acked[Manifest]
<1>0. /\ DiskInv /\ family \in Families /\ job \in Calls \cup {Idle, Creating} /\ Manifest \in Paths
      /\ family \in {"manifest", "request", "windows"}
  BY PathsAre, StoreAssumption DEF IInv, OwnerTyped
<1>1. Busy /\ acked' = [acked EXCEPT ![Target(job)] = Now(Target(job))]
  BY DEF Return
<1>2. Target(job) \in Paths
  BY <1>0, <1>1, TargetIn DEF Busy
<1>3. acked \in [Paths -> Values]
  BY <1>0 DEF DiskInv, DiskTyped
<1>4. acked'[Manifest] = acked[Manifest] \/ (Target(job) = Manifest /\ acked'[Manifest] = disk[Manifest].now)
  BY <1>0, <1>1, <1>2, <1>3 DEF Now
<1>5. ASSUME family # "manifest", role # "creator"
      PROVE  Target(job) # Manifest
  <2>1. job \in Calls
    <3>1. job # Creating
      BY <1>5 DEF IInv, Staffed
    <3>. QED
      BY <1>0, <1>1, <3>1 DEF Busy
  <2>2. \A n : Record(n) # Manifest /\ Allocated(n) # Manifest /\ Launch(n) # Manifest
    BY DEF Record, Allocated, Launch, Path, Manifest, In
  <2>3. AppRecord # Manifest /\ Process # Manifest /\ \A q : Observation(q) # Manifest
    BY DEF AppRecord, Process, Observation, Path, Manifest, In
  <2>4. CASE family = "request"
    <3>1. job.op \in {"request", "transition", "allocate", "settle", "launch"}
      BY <1>0, <2>1, <2>4, CallIs
    <3>. QED
      BY <2>2, <3>1 DEF Target
  <2>5. CASE family = "windows"
    <3>1. job.op \in {"prepare", "app", "windows", "processes", "observe"}
      BY <1>0, <2>1, <2>5, CallIs
    <3>. QED
      BY <2>3, <3>1 DEF Target
  <2>. QED
    BY <1>0, <1>5, <2>4, <2>5
<1>. QED
  BY <1>4, <1>5

\* The manifest keeps its first failure, and no complete record forgets it.
LEMMA FailuresStep ==
  ASSUME IInv, Next, OwnerTyped', Staffed'
  PROVE  Failures'
<1>0. /\ OwnerTyped /\ DiskInv /\ Applied /\ Once /\ family \in Families /\ Failures
      /\ job \in Calls \cup {Idle, Creating} /\ queue \in Seq(Calls) /\ early \in {None, "cause"}
      /\ early' \in {None, "cause"}
  BY DEF IInv, OwnerTyped
<1>1. family' = family
  BY NextFrame
<1>2. /\ role = "creator" <=> job = Creating
      /\ Busy => role \in {"creator", "worker", "finalizer"}
      /\ queue # <<>> => role \in {"worker", "finalizer"}
      /\ role = "finalizer" => family = "manifest"
      /\ role \in {"created", "worker", "down", "finalizer"} => acked[Manifest] # Absent
  BY DEF IInv, Staffed
<1>3. job.op = "create" <=> job = Creating
  <2>1. job \in Calls => job.op # "create"
    BY <1>0, CallIs
  <2>2. Idle.op # "create" /\ Creating.op = "create"
    BY DEF Idle, Creating, None
  <2>3. Idle # Creating
    BY <2>2
  <2>. QED
    BY <1>0, <2>1, <2>2
<1>4. SUFFICES ASSUME role' # "over", family = "manifest" \/ role' = "creator"
               PROVE  Failures'
  BY <1>1 DEF Failures
<1>5. CASE Do
  BY <1>5, FailuresDo
<1>6. role' = "creator" => Do
  <2>1. SUFFICES ASSUME role' = "creator", ~Do  PROVE FALSE
    OBVIOUS
  <2>2. job' = Creating
    BY <2>1 DEF Staffed
  <2>3. Idle # Creating /\ \A c \in Calls : c # Creating
    BY <1>0, CallIs DEF Idle, Creating, None
  <2>4. ~(Return \/ Fail \/ Kill \/ PowerLoss)
    BY <2>2, <2>3 DEF Return, Fail, Kill, PowerLoss, Ended
  <2>5. ~(Take \/ WorkerStarts \/ Exit \/ Finalize \/ TakeFinal)
    BY <2>1 DEF Take, WorkerStarts, Attach, Exit, Finalize, TakeFinal
  <2>6. ~OwnerActs
    BY <2>1, OwnerFrame
  <2>. QED
    BY <2>1, <2>4, <2>5, <2>6 DEF Next, OwnerActs
<1>7. SUFFICES ASSUME ~Do
               PROVE  Failures'
  BY <1>5
<1>8. family = "manifest" /\ role # "over"
  BY <1>4, <1>6, <1>7, NotOver
<1>9. \A i \in 1..Len(queue) : Completes(queue[i], role = "finalizer", early)
  BY <1>0, <1>8, FailureParts
<1>10. CASE Take
  <2>1. PICK c : c = Head(queue)
    OBVIOUS
  <2>2. /\ queue # <<>> /\ queue' = Tail(queue) /\ c \in Calls /\ UNCHANGED <<disk, acked, role, family>> /\ role = "worker"
    BY <1>0, <1>10, <2>1, TakeIs
  <2>3. PICK q, u : q = queue /\ u = Tail(q)
    OBVIOUS
  <2>4. /\ 1 \in 1..Len(q) /\ Head(q) = q[1]
        /\ \A i \in 1..Len(u) : u[i] = q[i + 1] /\ i + 1 \in 1..Len(q)
    BY <1>0, <2>2, <2>3, QueueTaken
  <2>5. \A i \in 1..Len(queue') : Completes(queue'[i], role = "finalizer", early)
    BY <1>9, <2>2, <2>3, <2>4
  <2>6. c \in ManifestCalls /\ c.op \in {"update", "identity", "provenance", "summarize"}
    BY <1>0, <1>8, <2>2, CallIs
  <2>7. ~Refused(c)
    BY <2>6 DEF Refused
  <2>8. todo' = Steps(c) /\ UNCHANGED owner /\ acked[Manifest] # Absent
    BY <1>10, <2>1, <2>7, TakenSteps
  <2>9. Completes(c, role = "finalizer", early)
    BY <1>9, <2>1, <2>3, <2>4
  <2>10. early' = early
    BY <2>8 DEF owner
  <2>. QED
    BY <1>8, <2>2, <2>5, <2>6, <2>8, <2>9, <2>10, FailuresBegin
<1>11. CASE TakeFinal
  <2>0. UNCHANGED <<disk, acked, family, early>>
    BY <1>11 DEF TakeFinal, owner, fs
  <2>1. CASE queue = <<>>
    <3>1. role' = "down" /\ UNCHANGED <<queue, todo>>
      BY <1>11, <2>1 DEF TakeFinal
    <3>2. \A i \in 1..Len(queue') : Completes(queue'[i], role' = "finalizer", early')
      BY <2>1, <3>1
    <3>. QED
      BY <1>0, <1>8, <2>0, <3>1, <3>2, FailuresSame
  <2>2. CASE queue # <<>>
    <3>1. PICK c : c = Head(queue)
      OBVIOUS
    <3>2. c \in ManifestCalls /\ todo' = Steps(c) /\ acked[Manifest] # Absent /\ queue' = Tail(queue) /\ role' = role
      BY <1>11, <2>2, <3>1, TakenFinal
    <3>3. PICK q, u : q = queue /\ u = Tail(q)
      OBVIOUS
    <3>4. /\ 1 \in 1..Len(q) /\ Head(q) = q[1]
          /\ \A i \in 1..Len(u) : u[i] = q[i + 1] /\ i + 1 \in 1..Len(q)
      BY <1>0, <2>2, <3>3, QueueTaken
    <3>5. \A i \in 1..Len(queue') : Completes(queue'[i], role = "finalizer", early)
      BY <1>9, <3>2, <3>3, <3>4
    <3>6. Completes(c, role = "finalizer", early)
      BY <1>9, <3>1, <3>3, <3>4
    <3>. QED
      BY <1>8, <2>0, <3>2, <3>5, <3>6, FailuresBegin
  <2>. QED
    BY <2>1, <2>2
<1>12. CASE Return
  <2>1. /\ UNCHANGED <<disk, todo, queue, early>> /\ todo = <<>> /\ role' = IF job.op = "create" THEN "created" ELSE role
    BY <1>12 DEF Return, Told
  <2>2. PICK m : m = disk[Manifest].now
    OBVIOUS
  <2>3. /\ m # Absent => Blames(m)
        /\ m # Absent /\ acked[Manifest] # Absent /\ acked[Manifest].failure # None => m.failure = acked[Manifest].failure
        /\ role \in {"creator", "created", "worker"} => (m # Absent => m.cleanup # "complete")
    BY <1>0, <1>8, <2>2, FailureParts
  <2>4. acked'[Manifest] = acked[Manifest] \/ acked'[Manifest] = m
    BY <1>12, <2>2, ReturnManifest
  <2>5. role' = role \/ (role' = "created" /\ role = "creator")
    BY <1>2, <1>3, <2>1
  <2>6. \A i \in 1..Len(queue) : role = "creator" => FALSE
    BY <1>0, <1>2
  <2>7. \A i \in 1..Len(queue') : Completes(queue'[i], role' = "finalizer", early')
    BY <1>9, <2>1, <2>5, <2>6
  <2>8. m # Absent => Blames(disk[Manifest].now)'
    BY <2>1, <2>2, <2>3 DEF Blames
  <2>9. \A k : ~Puts(k, Manifest)'
    BY <2>1 DEF Puts
  <2>10. disk'[Manifest].now = m
    BY <2>1, <2>2
  <2>. QED
    BY <2>3, <2>4, <2>5, <2>7, <2>8, <2>9, <2>10 DEF Failures, Completes
<1>13. CASE Fail
  <2>1. UNCHANGED <<disk, acked, queue, early>> /\ todo' = <<>> /\ role' = IF job.op = "create" THEN "over" ELSE role
    BY <1>13 DEF Fail, Told, fs
  <2>2. role' = role
    BY <1>4, <2>1
  <2>3. \A i \in 1..Len(queue') : Completes(queue'[i], role' = "finalizer", early')
    BY <1>9, <2>1, <2>2
  <2>. QED
    BY <1>0, <1>8, <2>1, <2>2, <2>3, FailuresSame
<1>14. CASE Kill \/ PowerLoss
  <2>1. Kill
    BY <1>4, <1>14 DEF PowerLoss
  <2>2. UNCHANGED <<disk, acked, early>> /\ todo' = <<>> /\ queue' = <<>> /\ role' \in {"down", "over"}
    BY <2>1 DEF Kill, Ended, owner
  <2>3. \A i \in 1..Len(queue') : Completes(queue'[i], role' = "finalizer", early')
    BY <2>2
  <2>. QED
    BY <1>0, <1>8, <2>2, <2>3, FailuresSame
<1>15. CASE WorkerStarts
  <2>1. /\ UNCHANGED <<disk, acked, todo, early>> /\ role = "created" /\ role' = "worker"
        /\ queue' = <<[op |-> "identity"]>>
    BY <1>8, <1>15 DEF WorkerStarts, Attach, owner, fs
  <2>2. \A i \in 1..Len(queue') : queue'[i].op = "identity"
    BY <2>1
  <2>3. \A i \in 1..Len(queue') : Completes(queue'[i], role' = "finalizer", early')
    BY <2>2 DEF Completes
  <2>. QED
    BY <1>0, <1>8, <2>1, <2>3, FailuresSame
<1>16. CASE Exit
  <2>1. UNCHANGED <<disk, acked, todo, early>> /\ queue' = <<>> /\ role' = "down"
    BY <1>16 DEF Exit, owner
  <2>2. \A i \in 1..Len(queue') : Completes(queue'[i], role' = "finalizer", early')
    BY <2>1
  <2>. QED
    BY <1>0, <1>8, <2>1, <2>2, FailuresSame
<1>17. CASE Finalize
  <2>1. /\ UNCHANGED <<disk, acked, todo, early>> /\ role' = "finalizer"
        /\ \A i \in 1..Len(queue') :
             queue'[i].op = "update" /\ queue'[i].cleanup = "complete" /\ early # None => queue'[i].failure # None
    BY <1>0, <1>17, FinalizeIs
  <2>2. \A i \in 1..Len(queue') : Completes(queue'[i], role' = "finalizer", early')
    BY <2>1 DEF Completes
  <2>. QED
    BY <1>0, <1>8, <2>1, <2>2, FailuresSame
<1>18. CASE OwnerActs
  <2>1. role = "worker" /\ UNCHANGED <<disk, acked, todo, job, role>>
    BY <1>18, OwnerFrame
  <2>2. Readiness \/ RecordFailure \/ Quit
    <3>1. CASE Observe \/ Allocations \/ Settle
      BY <1>0, <1>8, <3>1, RequestActs
    <3>2. CASE Prepare \/ Persist \/ Query \/ Publish \/ Published \/ Abandon \/ CheckpointTurn
      BY <1>0, <1>8, <3>2, WindowActs
    <3>. QED
      BY <1>18, <3>1, <3>2 DEF OwnerActs
  <2>3. PICK c \in Seq(Calls) :
          queue' = queue \o c /\ \A i \in 1..Len(c) : c[i].op = "update" => c[i].cleanup # "complete"
    BY <1>0, <2>2, ManifestActs
  <2>4. PICK q, u : q = queue /\ u = q \o c
    OBVIOUS
  <2>5. \A i \in 1..Len(u) :
          \/ i \in 1..Len(q) /\ u[i] = q[i]
          \/ i - Len(q) \in 1..Len(c) /\ u[i] = c[i - Len(q)]
    BY <1>0, <2>3, <2>4, QueueGrown
  <2>6. \A i \in 1..Len(q) : ~(q[i].op = "update" /\ q[i].cleanup = "complete")
    BY <1>9, <2>1, <2>4 DEF Completes
  <2>7. \A i \in 1..Len(u) : ~(u[i].op = "update" /\ u[i].cleanup = "complete")
    BY <2>3, <2>5, <2>6
  <2>8. \A i \in 1..Len(queue') : Completes(queue'[i], role' = "finalizer", early')
    BY <2>3, <2>4, <2>7 DEF Completes
  <2>. QED
    BY <1>0, <1>8, <2>1, <2>8, FailuresSame
<1>. QED
  BY <1>7, <1>10, <1>11, <1>12, <1>13, <1>14, <1>15, <1>16, <1>17, <1>18 DEF Next, OwnerActs

(***************************************************************************)
(* The application's record.                                               *)
(***************************************************************************)
\* What the record may be found to hold, one by one.
LEMMA VersionIs ==
  ASSUME NEW v
  PROVE  /\ v \in Versions <=> \/ v = disk[AppRecord].now \/ v = disk[AppRecord].safe
                               \/ \E k \in 1..Len(todo) : Puts(k, AppRecord) /\ v = todo[k].value
         /\ v \in Versions' <=> \/ v = disk'[AppRecord].now \/ v = disk'[AppRecord].safe
                                \/ \E k \in 1..Len(todo') : Puts(k, AppRecord)' /\ v = todo'[k].value
BY DEF Versions, Puts

\* What the record may be found to hold is a record, or nothing.
LEMMA VersionsAre ==
  ASSUME family \in Families, family = "windows", DiskInv, Good(todo), NEW v \in Versions
  PROVE  v = Absent \/ v \in AppValues
<1>1. AppRecord \in Paths /\ Holds(AppRecord) = AppValues
  BY PathsAre, KindsOf, HoldsBy
<1>2. CASE v = disk[AppRecord].now \/ v = disk[AppRecord].safe
  BY <1>1, <1>2, DiskAt DEF DiskInv
<1>3. CASE \E k \in 1..Len(todo) : Puts(k, AppRecord) /\ v = todo[k].value
  <2>1. PICK k \in 1..Len(todo) : Puts(k, AppRecord) /\ v = todo[k].value
    BY <1>3
  <2>2. StepOK(todo, k)
    BY DEF Good
  <2>. QED
    BY <1>1, <2>1, <2>2 DEF StepOK, Puts
<1>. QED
  BY <1>2, <1>3, VersionIs

\* With the disk as it was there is nothing new to find.
LEMMA VersionsSame ==
  ASSUME UNCHANGED disk, todo' \in {todo, <<>>}
  PROVE  Versions' \subseteq Versions
<1>1. SUFFICES ASSUME NEW v \in Versions'  PROVE v \in Versions
  OBVIOUS
<1>2. CASE todo' = todo
  <2>1. \A k \in 1..Len(todo') : Puts(k, AppRecord)' => Puts(k, AppRecord)
    BY <1>2 DEF Puts
  <2>. QED
    BY <1>1, <1>2, <2>1, VersionIs
<1>3. CASE todo' = <<>>
  BY <1>1, <1>3, VersionIs
<1>. QED
  BY <1>2, <1>3

\* A power loss leaves a version that was there, or none.
LEMMA VersionsLoss ==
  ASSUME family \in Families, family = "windows", DiskInv, PowerLoss, NEW v \in Versions'
  PROVE  v \in Versions \/ v = Absent
<1>1. AppRecord \in Paths
  BY PathsAre
<1>2. /\ disk'[AppRecord].now = disk'[AppRecord].safe
      /\ disk'[AppRecord].now \in {Absent, disk[AppRecord].now, disk[AppRecord].safe}
  BY <1>1, LossLeaves
<1>3. todo' = <<>>
  BY DEF PowerLoss
<1>4. v = disk'[AppRecord].now
  BY <1>2, <1>3, VersionIs
<1>. QED
  BY <1>2, <1>4, VersionIs

\* A step brings about what was to come.
LEMMA VersionsDo ==
  ASSUME family \in Families, family = "windows", DiskInv, CallInv, job \in Calls \cup {Idle, Creating}, Do
  PROVE  /\ Versions' \subseteq Versions
         /\ \A k \in 1..Len(todo') : Puts(k, AppRecord)' =>
              k + 1 \in 1..Len(todo) /\ Puts(k + 1, AppRecord) /\ todo'[k] = todo[k + 1]
         /\ Puts(1, AppRecord) => disk'[AppRecord].now = todo[1].value /\ disk'[AppRecord].now # Absent
         /\ ~Puts(1, AppRecord) => disk'[AppRecord].now = disk[AppRecord].now
         /\ \A k \in 1..Len(todo) : Puts(k, AppRecord) /\ k # 1 =>
              k - 1 \in 1..Len(todo') /\ Puts(k - 1, AppRecord)'
<1>1. AppRecord \in Paths
  BY PathsAre
<1>2. /\ Forward(todo[1]) /\ Changes(todo[1]) /\ Good(todo) /\ todo # <<>> /\ todo' = Tail(todo)
  BY DoCall
<1>3. PICK t, u : t = todo /\ u = Tail(t)
  OBVIOUS
<1>4. /\ Len(t) \in Nat /\ Len(t) >= 1 /\ Len(u) = Len(t) - 1 /\ \A k \in 1..Len(u) : u[k] = t[k + 1]
  BY <1>2, <1>3, TailOf
<1>5. todo = t /\ todo' = u
  BY <1>2, <1>3
<1>6. \A k \in 1..Len(todo') : Puts(k, AppRecord)' =>
        k + 1 \in 1..Len(todo) /\ Puts(k + 1, AppRecord) /\ todo'[k] = todo[k + 1]
  BY <1>4, <1>5 DEF Puts
<1>7. \A k \in 1..Len(todo) : Puts(k, AppRecord) /\ k # 1 => k - 1 \in 1..Len(todo') /\ Puts(k - 1, AppRecord)'
  <2>1. SUFFICES ASSUME NEW k \in 1..Len(t), Puts(k, AppRecord), k # 1
                 PROVE  k - 1 \in 1..Len(u) /\ Puts(k - 1, AppRecord)'
    BY <1>5
  <2>2. k - 1 \in 1..Len(u) /\ u[k - 1] = t[k]
    BY <1>4, <2>1
  <2>. QED
    BY <1>5, <2>1, <2>2 DEF Puts
<1>8. /\ Puts(1, AppRecord) <=> Makes(t[1]) /\ t[1].path = AppRecord
  BY <1>4, <1>5 DEF Puts
<1>9. IF Makes(t[1]) /\ t[1].path = AppRecord
      THEN disk'[AppRecord].now = t[1].value /\ disk'[AppRecord].safe = disk[AppRecord].safe
      ELSE IF t[1] = Sync(Parent(AppRecord))
           THEN disk'[AppRecord].now = disk[AppRecord].now /\ disk'[AppRecord].safe = disk[AppRecord].now
           ELSE disk'[AppRecord] = disk[AppRecord]
  BY <1>1, <1>2, <1>5 DEF Changes
<1>10. Makes(t[1]) /\ t[1].path = AppRecord => disk'[AppRecord].now # Absent
  BY <1>2, <1>5 DEF Forward
<1>11. ASSUME NEW v \in Versions'  PROVE v \in Versions
  <2>1. CASE v = disk'[AppRecord].now \/ v = disk'[AppRecord].safe
    <3>1. CASE Puts(1, AppRecord)
      <4>1. 1 \in 1..Len(todo)
        BY <1>4, <1>5
      <4>. QED
        BY <1>5, <1>8, <1>9, <2>1, <3>1, <4>1, VersionIs
    <3>2. CASE ~Puts(1, AppRecord)
      BY <1>8, <1>9, <2>1, <3>2, VersionIs
    <3>. QED
      BY <3>1, <3>2
  <2>2. CASE \E k \in 1..Len(todo') : Puts(k, AppRecord)' /\ v = todo'[k].value
    <3>1. PICK k \in 1..Len(todo') : Puts(k, AppRecord)' /\ v = todo'[k].value
      BY <2>2
    <3>. QED
      BY <1>6, <3>1, VersionIs
  <2>. QED
    BY <1>11, <2>1, <2>2, VersionIs
<1>. QED
  BY <1>5, <1>6, <1>7, <1>8, <1>9, <1>10, <1>11

\* The elements of two pairs with a step between them.
LEMMA MidPairs ==
  ASSUME NEW a, NEW b, NEW c, NEW d, NEW e, NEW u,
         u = (<<a, b>> \o <<c>>) \o <<d, e>> \/ u = (<<>> \o <<c>>) \o <<d, e>>, NEW k \in 1..Len(u)
  PROVE  u[k] \in {a, b, c, d, e}
<1>1. PICK t : u = t \o <<d, e>> /\ (t = <<a, b>> \o <<c>> \/ t = <<>> \o <<c>>)
  OBVIOUS
<1>2. t \in Seq({a, b, c}) /\ Len(t) \in Nat /\ \A j \in 1..Len(t) : t[j] \in {a, b, c}
  <2>1. CASE t = <<a, b>> \o <<c>>
    <3>1. Len(t) = 3 /\ t[1] = a /\ t[2] = b /\ t[3] = c /\ t \in Seq({a, b, c})
      BY <2>1
    <3>. QED
      BY <3>1
  <2>2. CASE t = <<>> \o <<c>>
    <3>1. Len(t) = 1 /\ t[1] = c /\ t \in Seq({a, b, c})
      BY <2>2
    <3>. QED
      BY <3>1
  <2>. QED
    BY <1>1, <2>1, <2>2
<1>3. /\ Len(u) = Len(t) + 2 /\ u[Len(t) + 1] = d /\ u[Len(t) + 2] = e
      /\ \A j \in 1..Len(t) : u[j] = t[j]
  BY <1>1, <1>2
<1>4. k \in 1..Len(t) \/ k = Len(t) + 1 \/ k = Len(t) + 2
  <2>1. PICK n \in Nat : n = Len(t)
    BY <1>2
  <2>2. k \in 1..(n + 2)
    BY <1>3, <2>1
  <2>3. k \in 1..n \/ k = n + 1 \/ k = n + 2
    BY <2>2
  <2>. QED
    BY <2>1, <2>3
<1>. QED
  BY <1>2, <1>3, <1>4

\* What a call puts in the application's record.
Writes(call, v) ==
  /\ v \in AppValues /\ Restored(v)
  /\ \/ call.op = "prepare" /\ NamesOf(v) = {None}
     \/ call.op = "app" /\ Now(AppRecord) \in AppValues /\ NamesOf(v) = NamesOf(Now(AppRecord))
     \/ call.op = "windows" /\ NamesOf(v) = NamedIn(call)

\* What the steps of a call put in the application's record.
LEMMA AppWrites ==
  ASSUME family \in Families, family = "windows", DiskInv, acked[Manifest] # Absent,
         known => Seen \in Paths /\ disk[Seen].safe # Absent,
         NEW call \in WindowsCalls, InUse(call) => Visible(AppRecord),
         Now(AppRecord) \in AppValues => Restored(Now(AppRecord)), NEW u, u = Steps(call)
  PROVE  /\ \A k \in 1..Len(u) : Makes(u[k]) /\ u[k].path = AppRecord => Writes(call, u[k].value)
         /\ call.op = "windows" => 1 \in 1..Len(u) /\ Makes(u[1]) /\ u[1].path = AppRecord
<1>1. call.op \in {"prepare", "processes", "app", "observe", "windows"}
  BY DEF WindowsCalls, PublishCalls
<1>2. /\ \A do, p, v : Step(do, p, v).value = v /\ Step(do, p, v).path = p /\ Step(do, p, v).do = do
      /\ \A p : Sync(p).do = "sync" /\ Mark.do = "mark"
  BY DEF Step, Sync, Mark
<1>3. \A p : ~Makes(Sync(p)) /\ ~Makes(Mark)
  BY <1>2 DEF Makes
<1>4. /\ AppRecord.name = "application-record" /\ Seen.name = "window-observations"
      /\ App.name = "application" /\ Processes.name = "processes" /\ Process.name = "process"
      /\ \A q : Observation(q).name = "observation"
  BY DEF AppRecord, Seen, App, Processes, Process, Observation, In, Path
<1>5. CASE call.op = "prepare"
  <2>1. u = (<<Step("create", App, Dir), Sync(Parent(App))>>
               \o <<Step("create", Processes, Dir), Sync(Parent(Processes))>>)
               \o <<Step("put", AppRecord, NewApp), Sync(Parent(AppRecord))>>
    BY <1>5 DEF Steps, ApplicationPrepare, Exclusive, Write
  <2>2. ASSUME NEW k \in 1..Len(u), Makes(u[k]), u[k].path = AppRecord  PROVE u[k].value = NewApp
    <3>1. u[k] \in {Step("create", App, Dir), Sync(Parent(App)), Step("create", Processes, Dir),
                    Sync(Parent(Processes)), Step("put", AppRecord, NewApp), Sync(Parent(AppRecord))}
      BY <2>1, ThreePairs
    <3>2. App # AppRecord /\ Processes # AppRecord
      BY <1>4
    <3>. QED
      BY <1>2, <1>3, <2>2, <3>1, <3>2
  <2>3. NewApp \in AppValues /\ NamesOf(NewApp) = {None}
    BY DEF NewApp, NoReference, AppValues, References, Named, NamesOf
  <2>4. Restored(NewApp)
    BY DEF Restored, NewApp, NoReference, ReadBack, Whole
  <2>. QED
    BY <1>5, <2>2, <2>3, <2>4 DEF Writes
<1>6. CASE call.op = "observe"
  <2>1. u = (<<Step("mkdir", Seen, Dir), Sync(Parent(Seen))>> \o <<Mark>>)
              \o <<Step("create", Observation(call.q), Plain), Sync(Parent(Observation(call.q)))>>
          \/ u = (<<>> \o <<Mark>>)
              \o <<Step("create", Observation(call.q), Plain), Sync(Parent(Observation(call.q)))>>
    BY <1>6 DEF Steps, Publication, MkdirDurable, NewFile
  <2>2. ASSUME NEW k \in 1..Len(u), Makes(u[k]), u[k].path = AppRecord  PROVE FALSE
    <3>1. u[k] \in {Step("mkdir", Seen, Dir), Sync(Parent(Seen)), Mark,
                    Step("create", Observation(call.q), Plain), Sync(Parent(Observation(call.q)))}
      BY <2>1, MidPairs
    <3>2. Seen # AppRecord /\ Observation(call.q) # AppRecord
      BY <1>4
    <3>. QED
      BY <1>2, <1>3, <2>2, <3>1, <3>2
  <2>. QED
    BY <1>6, <2>2
<1>7. CASE call.op = "processes"
  <2>1. u = <<Step("put", Process, Plain), Sync(Parent(Process))>>
    BY <1>7 DEF Steps, ApplicationProcesses, Write
  <2>2. Process # AppRecord
    BY <1>4
  <2>3. \A k \in 1..Len(u) : u[k] \in {Step("put", Process, Plain), Sync(Parent(Process))}
    BY <2>1
  <2>. QED
    BY <1>2, <1>3, <1>7, <2>2, <2>3
<1>8. ASSUME call.op \in {"app", "windows"}
      PROVE  /\ Now(AppRecord) \in AppValues /\ Restored(Now(AppRecord))
             /\ \A k \in 1..Len(u) : Makes(u[k]) => u[k].value = AppWritten(call)
             /\ 1 \in 1..Len(u) /\ Makes(u[1]) /\ u[1].path = AppRecord
  <2>1. Steps(call) = Write(AppRecord, AppWritten(call)) /\ Now(AppRecord) \in AppValues
    BY <1>8, WindowSteps
  <2>2. PICK v : v = AppWritten(call)
    OBVIOUS
  <2>3. u = <<Step("put", AppRecord, v), Sync(Parent(AppRecord))>>
    BY <2>1, <2>2 DEF Write
  <2>4. \A k \in 1..Len(u) : u[k] \in {Step("put", AppRecord, v), Sync(Parent(AppRecord))}
    BY <2>3
  <2>5. 1 \in 1..Len(u) /\ u[1] = Step("put", AppRecord, v)
    BY <2>3
  <2>6. Makes(u[1]) /\ u[1].path = AppRecord
    BY <1>2, <2>5 DEF Makes
  <2>. QED
    BY <1>2, <1>3, <2>1, <2>2, <2>4, <2>5, <2>6
<1>9. CASE call.op = "app"
  <2>1. call.state \in {"running", "all-exited"}
    BY <1>9 DEF WindowsCalls, PublishCalls
  <2>2. PICK v, w : v = Now(AppRecord) /\ w = AppWritten(call)
    OBVIOUS
  <2>3. v \in AppValues /\ Restored(v)
    BY <1>8, <1>9, <2>2
  <2>4. w = [Next1(v) EXCEPT !.state = call.state]
    BY <1>9, <2>2 DEF AppWritten
  <2>5. /\ w \in AppValues /\ w.windows = v.windows /\ w.publication = v.publication
        /\ w.confirmed = v.confirmed /\ w.previous = v.previous /\ w.candidate = v.candidate
    BY <2>1, <2>3, <2>4, AppUpdateValue
  <2>6. NamesOf(w) = NamesOf(v)
    BY <2>5 DEF NamesOf
  <2>7. ReadBack(w) = ReadBack(v)
    BY <2>5 DEF ReadBack
  <2>8. Restored(w)
    BY <2>3, <2>7 DEF Restored
  <2>. QED
    BY <1>8, <1>9, <2>2, <2>3, <2>5, <2>6, <2>8 DEF Writes
<1>10. CASE call.op = "windows"
  <2>1. call \in PublishCalls
    BY <1>10 DEF WindowsCalls, PublishCalls
  <2>2. PICK v, w : v = Now(AppRecord) /\ w = AppWritten(call)
    OBVIOUS
  <2>3. v \in AppValues
    BY <1>8, <1>10, <2>2
  <2>4. w = Windows(v, call)
    BY <1>10, <2>2 DEF AppWritten
  <2>5. w \in AppValues /\ NamesOf(w) = {call.previous, call.candidate} /\ \A r \in ReadBack(w) : r = Whole(r.query)
    BY <2>1, <2>3, <2>4, WindowsValue
  <2>. QED
    BY <1>8, <1>10, <2>2, <2>5 DEF Writes, Restored, NamedIn
<1>. QED
  BY <1>1, <1>5, <1>6, <1>7, <1>9, <1>10

\* What the record may be found to hold was so before, or the writer takes the call that writes it.
LEMMA VersionsStep ==
  ASSUME IInv, Next, family = "windows", NEW v \in Versions'
  PROVE  \/ v \in Versions \/ (v = Absent /\ PowerLoss)
         \/ /\ Take /\ ~Refused(Head(queue)) /\ queue # <<>> /\ Head(queue) \in Calls /\ role = "worker"
            /\ Writes(Head(queue), v)
<1>0. /\ family \in Families /\ DiskInv /\ CallInv /\ OwnerTyped /\ job \in Calls \cup {Idle, Creating}
      /\ Staffed /\ Applied /\ Good(todo)
      /\ known => Seen \in Paths /\ disk[Seen].safe # Absent
  BY DEF IInv, OwnerTyped, CallInv
<1>1. CASE UNCHANGED disk /\ todo' \in {todo, <<>>}
  BY <1>1, VersionsSame
<1>2. CASE Do
  BY <1>0, <1>2, VersionsDo
<1>3. CASE PowerLoss
  BY <1>0, <1>3, VersionsLoss
<1>4. CASE Return \/ Fail \/ Kill \/ WorkerStarts \/ Exit \/ Finalize
  <2>1. UNCHANGED disk /\ todo' \in {todo, <<>>}
    BY <1>4 DEF Return, Fail, Kill, Ended, WorkerStarts, Exit, Finalize, fs
  <2>. QED
    BY <1>1, <2>1
<1>5. CASE OwnerActs
  BY <1>1, <1>5, OwnerFrame
<1>6. CASE TakeFinal
  BY <1>0, <1>6 DEF TakeFinal, Staffed
<1>7. CASE Take
  <2>1. PICK c : c = Head(queue)
    OBVIOUS
  <2>2. /\ role = "worker" /\ queue # <<>> /\ c \in Calls /\ UNCHANGED <<disk, acked, role, faults, family>>
        /\ (Refused(c) /\ UNCHANGED <<job, todo, known>>) \/ ~Refused(c)
    BY <1>0, <1>7, <2>1, TakeIs
  <2>3. CASE Refused(c)
    BY <1>1, <2>2, <2>3
  <2>4. CASE ~Refused(c)
    <3>1. PICK u : u = Steps(c)
      OBVIOUS
    <3>2. todo' = u /\ acked[Manifest] # Absent /\ (InUse(c) => Visible(AppRecord))
      BY <1>7, <2>1, <2>4, <3>1, TakenSteps
    <3>3. c \in WindowsCalls
      BY <1>0, <2>2, CallIs
    <3>4. Now(AppRecord) \in Versions
      BY VersionIs DEF Now
    <3>5. Now(AppRecord) \in AppValues => Now(AppRecord) # Absent
      BY AppShape DEF Absent
    <3>6. Now(AppRecord) \in AppValues => Restored(Now(AppRecord))
      BY <1>0, <3>4, <3>5 DEF Applied, Readable
    <3>7. \A k \in 1..Len(u) : Makes(u[k]) /\ u[k].path = AppRecord => Writes(c, u[k].value)
      BY <1>0, <3>1, <3>2, <3>3, <3>6, AppWrites
    <3>8. CASE v = disk'[AppRecord].now \/ v = disk'[AppRecord].safe
      BY <2>2, <3>8, VersionIs
    <3>9. CASE \E k \in 1..Len(todo') : Puts(k, AppRecord)' /\ v = todo'[k].value
      <4>1. PICK k \in 1..Len(u) : Makes(u[k]) /\ u[k].path = AppRecord /\ v = u[k].value
        BY <3>2, <3>9 DEF Puts
      <4>2. Writes(c, v)
        BY <3>7, <4>1
      <4>. QED
        BY <1>7, <2>1, <2>2, <2>4, <4>2
    <3>. QED
      BY <3>8, <3>9, VersionIs
  <2>. QED
    BY <2>3, <2>4
<1>. QED
  BY <1>2, <1>3, <1>4, <1>5, <1>6, <1>7 DEF Next, OwnerActs

\* An observation that was answered for stays so.
LEMMA RecoverableStays ==
  ASSUME family \in Families, family = "windows", \A x \in Paths : acked[x] # Absent => acked'[x] # Absent,
         NEW q \in Named, Recoverable(q)
  PROVE  Recoverable(q)'
<1>1. CASE q = None
  BY <1>1 DEF Recoverable
<1>2. CASE q # None
  <2>1. Observation(q) \in Paths
    BY <1>2, PathsAre DEF Named
  <2>. QED
    BY <2>1 DEF Recoverable
<1>. QED
  BY <1>1, <1>2

\* Only an answer for it changes the owner's memory of the application, and only its ticket.
LEMMA MemoryStays ==
  ASSUME IInv, Next, family = "windows", ~OwnerActs
  PROVE  /\ made' = made /\ published' \in Remembered
         /\ published'.current = published.current /\ published'.previous = published.previous
         /\ published'.query = published.query /\ published'.at = published.at
         /\ published'.checkpoint = published.checkpoint
         /\ \/ published'.ticket = published.ticket \/ published'.ticket = "failed"
            \/ /\ Return /\ published'.ticket = "ok"
               /\ \/ job.op = "observe" /\ published.at = "observe" /\ published.query = job.q
                  \/ published.at = "publish" /\ Pending(job, published.query)
<1>0. /\ OwnerTyped /\ Staffed /\ published \in Remembered
      /\ tickets \in [1..Attempts -> Answers] /\ life \in {"up", "failing", "quit"}
  BY DEF IInv, OwnerTyped
<1>1. CASE UNCHANGED <<made, published>>
  BY <1>0, <1>1
<1>2. ASSUME NEW call, Told(call, FALSE)
      PROVE  /\ made' = made /\ published' \in Remembered
             /\ published'.current = published.current /\ published'.previous = published.previous
             /\ published'.query = published.query /\ published'.at = published.at
             /\ published'.checkpoint = published.checkpoint
             /\ published'.ticket = published.ticket \/ published'.ticket = "failed"
  <2>1. PICK word : word = "failed"
    OBVIOUS
  <2>2. (word = "ok" /\ Told(call, TRUE)) \/ (word = "failed" /\ Told(call, FALSE))
    BY <1>2, <2>1
  <2>. QED
    BY <1>0, <2>1, <2>2, ToldIs
<1>3. CASE Return
  <2>1. PICK word : word = "ok"
    OBVIOUS
  <2>2. (word = "ok" /\ Told(job, TRUE)) \/ (word = "failed" /\ Told(job, FALSE))
    BY <1>3, <2>1 DEF Return
  <2>. QED
    BY <1>0, <1>3, <2>1, <2>2, ToldIs
<1>4. CASE Fail
  <2>1. Told(job, FALSE)
    BY <1>4 DEF Fail
  <2>. QED
    BY <1>2, <2>1
<1>5. CASE Take
  <2>1. \/ Told(Head(queue), FALSE)
        \/ UNCHANGED owner
    BY <1>0, <1>5, TakeIs
  <2>2. UNCHANGED owner => UNCHANGED <<made, published>>
    BY DEF owner
  <2>. QED
    BY <1>1, <1>2, <2>1, <2>2
<1>6. CASE Do \/ Kill \/ PowerLoss \/ WorkerStarts \/ Exit
  <2>1. UNCHANGED owner
    BY <1>6 DEF Do, Kill, PowerLoss, WorkerStarts, Exit
  <2>. QED
    BY <1>1, <2>1 DEF owner
<1>7. CASE Finalize \/ TakeFinal
  BY <1>0, <1>7 DEF Finalize, TakeFinal, Staffed
<1>. QED
  BY <1>3, <1>4, <1>5, <1>6, <1>7 DEF Next, OwnerActs

\* A call that returns leaves what it answers for where it is sure.
LEMMA ReturnAcks ==
  ASSUME IInv, Return
  PROVE  /\ job \in Calls \cup {Creating} /\ Target(job) \in Paths /\ todo = <<>> /\ job' = Idle
         /\ acked' = [acked EXCEPT ![Target(job)] = disk[Target(job)].now]
         /\ Visible(Target(job)) /\ disk[Target(job)].now = disk[Target(job)].safe
         /\ acked'[Target(job)] # Absent
         /\ \A x \in Paths : x # Target(job) => acked'[x] = acked[x]
<1>0. /\ family \in Families /\ OwnerTyped /\ DiskInv /\ job \in Calls \cup {Idle, Creating}
  BY DEF IInv, OwnerTyped
<1>1. job # Idle /\ todo = <<>> /\ job' = Idle /\ acked' = [acked EXCEPT ![Target(job)] = disk[Target(job)].now]
  BY DEF Return, Busy, Now
<1>2. job \in Calls \cup {Creating} /\ Target(job) \in Paths
  BY <1>0, <1>1, TargetIn
<1>3. Answered(<<>>, Target(job))
  BY <1>1 DEF IInv, CallInv, Busy
<1>4. Visible(Target(job)) /\ disk[Target(job)].now = disk[Target(job)].safe
  BY <1>3, DoneIsSafe
<1>5. acked \in [Paths -> Values]
  BY <1>0 DEF DiskInv, DiskTyped
<1>. QED
  BY <1>1, <1>2, <1>4, <1>5 DEF Visible

(***************************************************************************)
(* The invariant is kept: the application's record.                        *)
(***************************************************************************)
\* The owner of an application acts.
LEMMA MemoryActs ==
  ASSUME IInv, family = "windows", OwnerActs
  PROVE  /\ role = "worker" /\ UNCHANGED <<disk, acked, known, todo, job, role, faults, family>>
         /\ made \subseteq made' /\ published' \in Remembered /\ Remembers
         /\ \E c \in Seq(Calls) : queue' = queue \o c /\ Queues(c)
<1>0. OwnerTyped /\ Applied /\ Once
  BY DEF IInv
<1>1. Prepare \/ Persist \/ Query \/ Publish \/ Published \/ Abandon \/ CheckpointTurn
  <2>1. CASE Readiness \/ RecordFailure \/ Quit
    BY <1>0, <2>1, ManifestActs
  <2>2. CASE Observe \/ Allocations \/ Settle
    BY <1>0, <2>2, RequestActs
  <2>. QED
    BY <2>1, <2>2 DEF OwnerActs
<1>2. role = "worker" /\ UNCHANGED <<disk, acked, known, todo, job, role, faults, family>>
  BY OwnerFrame
<1>3. /\ made \subseteq made' /\ published' \in Remembered /\ Remembers
      /\ \E c \in Seq(Calls) : queue' = queue \o c /\ Queues(c)
  BY <1>0, <1>1, WindowActs
<1>. QED
  BY <1>2, <1>3

\* Every call in the queue was there, or the owner has just queued it.
LEMMA QueueIs ==
  ASSUME IInv, Next, family = "windows"
  PROVE  \A i \in 1..Len(queue') :
           \/ \E j \in 1..Len(queue) : queue'[i] = queue[j]
           \/ OwnerActs /\ \E c \in Seq(Calls) : queue' = queue \o c /\ Queues(c) /\ \E j \in 1..Len(c) : queue'[i] = c[j]
<1>0. queue \in Seq(Calls) /\ OwnerTyped /\ family # "manifest"
  BY DEF IInv, OwnerTyped
<1>1. CASE Take
  <2>1. queue # <<>> /\ queue' = Tail(queue)
    BY <1>0, <1>1, TakeIs
  <2>2. PICK q, u : q = queue /\ u = Tail(q)
    OBVIOUS
  <2>3. \A i \in 1..Len(u) : u[i] = q[i + 1] /\ i + 1 \in 1..Len(q)
    BY <1>0, <2>1, <2>2, QueueTaken
  <2>. QED
    BY <2>1, <2>2, <2>3
<1>2. CASE OwnerActs
  <2>1. PICK c \in Seq(Calls) : queue' = queue \o c /\ Queues(c)
    BY <1>2, MemoryActs
  <2>2. PICK q, u : q = queue /\ u = q \o c
    OBVIOUS
  <2>3. \A i \in 1..Len(u) :
          \/ i \in 1..Len(q) /\ u[i] = q[i]
          \/ i - Len(q) \in 1..Len(c) /\ u[i] = c[i - Len(q)]
    BY <1>0, <2>1, <2>2, QueueGrown
  <2>. QED
    BY <1>2, <2>1, <2>2, <2>3
<1>3. CASE ~Take /\ ~OwnerActs
  BY <1>0, <1>3, QueueStays
<1>. QED
  BY <1>1, <1>2, <1>3

\* What Applied says, part by part.
LEMMA AppliedParts ==
  ASSUME Applied, family = "windows"
  PROVE  /\ \A v \in Versions : v # Absent => Readable(v)
         /\ \A i \in 1..Len(queue) : Publishing(queue[i]) => \A q \in NamedIn(queue[i]) : Recoverable(q)
         /\ Recoverable(published.current) /\ Recoverable(published.previous)
         /\ published.checkpoint # None => published.checkpoint = published.current
         /\ published.at # None => published.query # None /\ published.query \in made
         /\ published.at = "publish" \/ published.ticket = "ok" => Recoverable(published.query)
         /\ published.at = "publish" => published.checkpoint = None
         /\ published.current # None => published.current \in made
         /\ role \in {"creator", "created"} => published.at = None /\ published.current = None
BY DEF Applied

\* Every version that is read back, after a step.
LEMMA ReadableStep ==
  ASSUME IInv, Next, family = "windows", \A x \in Paths : acked[x] # Absent => acked'[x] # Absent,
         NEW v \in Versions', v # Absent
  PROVE  Readable(v)'
<1>0. /\ family \in Families /\ DiskInv /\ CallInv /\ Good(todo) /\ Applied /\ queue \in Seq(Calls)
  BY DEF IInv, OwnerTyped, CallInv
<1>1. \A q \in Named : Recoverable(q) => Recoverable(q)'
  BY <1>0, RecoverableStays
<1>2. ASSUME NEW w \in Versions, w # Absent
      PROVE  Restored(w) /\ NamesOf(w) \subseteq Named /\ \A q \in NamesOf(w) : Recoverable(q)'
  <2>1. Readable(w)
    BY <1>0, <1>2, AppliedParts
  <2>2. w \in AppValues
    BY <1>0, <1>2, VersionsAre
  <2>3. NamesOf(w) \subseteq Named
    BY <2>2, AppShape DEF NamesOf, References
  <2>. QED
    BY <1>1, <2>1, <2>3 DEF Readable
<1>3. CASE v \in Versions
  <2>1. Restored(v) /\ \A q \in NamesOf(v) : Recoverable(q)'
    BY <1>2, <1>3
  <2>. QED
    BY <2>1 DEF Readable
<1>4. ASSUME Take, queue # <<>>, Head(queue) \in Calls, Writes(Head(queue), v)  PROVE Readable(v)'
  <2>1. PICK c : c = Head(queue)
    OBVIOUS
  <2>2. Restored(v)
    BY <1>4 DEF Writes
  <2>3. CASE c.op = "prepare" /\ NamesOf(v) = {None}
    <3>1. Recoverable(None)'
      BY DEF Recoverable
    <3>2. \A q \in NamesOf(v) : Recoverable(q)'
      BY <2>3, <3>1
    <3>. QED
      BY <2>2, <3>2 DEF Readable
  <2>4. CASE Now(AppRecord) \in AppValues /\ NamesOf(v) = NamesOf(Now(AppRecord))
    <3>1. Now(AppRecord) \in Versions
      BY VersionIs DEF Now
    <3>2. Now(AppRecord) # Absent
      BY <2>4, AppShape DEF Absent
    <3>3. \A q \in NamesOf(v) : Recoverable(q)'
      BY <1>2, <2>4, <3>1, <3>2
    <3>. QED
      BY <2>2, <3>3 DEF Readable
  <2>5. CASE c.op = "windows" /\ NamesOf(v) = NamedIn(c)
    <3>1. 1 \in 1..Len(queue) /\ c = queue[1]
      BY <1>0, <1>4, <2>1
    <3>2. \A q \in NamedIn(c) : Recoverable(q)
      BY <1>0, <2>5, <3>1, AppliedParts DEF Publishing
    <3>3. c \in PublishCalls
      BY <1>0, <1>4, <2>1, <2>5, CallIs
    <3>4. NamedIn(c) \subseteq Named
      BY <3>3 DEF PublishCalls, NamedIn, Named
    <3>5. \A q \in NamesOf(v) : Recoverable(q)'
      BY <1>1, <2>5, <3>2, <3>4
    <3>. QED
      BY <2>2, <3>5 DEF Readable
  <2>. QED
    BY <1>4, <2>1, <2>3, <2>4, <2>5 DEF Writes
<1>. QED
  BY <1>3, <1>4, VersionsStep

\* An observation that was answered for is there.
LEMMA ObservedIs ==
  ASSUME IInv, family = "windows", Return, job.op = "observe", NEW q, q = job.q
  PROVE  Recoverable(q)'
<1>1. Target(job) = Observation(q)
  BY DEF Target
<1>2. acked'[Target(job)] # Absent
  BY ReturnAcks
<1>. QED
  BY <1>1, <1>2 DEF Recoverable

\* What is read back of the application stays there, whatever the record holds.
LEMMA AppliedStep ==
  ASSUME IInv, Next, \A x \in Paths : acked[x] # Absent => acked'[x] # Absent
  PROVE  Applied'
<1>1. CASE family # "windows"
  BY <1>1, NextFrame DEF Applied
<1>2. CASE family = "windows"
  <2>0. /\ family \in Families /\ Applied /\ queue \in Seq(Calls) /\ published \in Remembered /\ OwnerTyped /\ Staffed
    BY DEF IInv, OwnerTyped
  <2>1. \A q \in Named : Recoverable(q) => Recoverable(q)'
    BY <1>2, <2>0, RecoverableStays
  <2>2. \A v \in Versions' : v # Absent => Readable(v)'
    BY <1>2, ReadableStep
  <2>3. ASSUME NEW i \in 1..Len(queue'), Publishing(queue'[i]), NEW q \in NamedIn(queue'[i])
        PROVE  Recoverable(q)'
    <3>1. PICK call : call = queue'[i]
      OBVIOUS
    <3>2. call \in Calls /\ Recoverable(q)
      <4>1. CASE \E j \in 1..Len(queue) : call = queue[j]
        <5>1. PICK j \in 1..Len(queue) : call = queue[j]
          BY <4>1
        <5>2. call \in Calls
          BY <2>0, <5>1
        <5>3. Recoverable(q)
          BY <1>2, <2>0, <2>3, <3>1, <5>1, AppliedParts
        <5>. QED
          BY <5>2, <5>3
      <4>2. CASE \E c \in Seq(Calls) : Queues(c) /\ \E j \in 1..Len(c) : call = c[j]
        <5>1. PICK c \in Seq(Calls) : Queues(c) /\ \E j \in 1..Len(c) : call = c[j]
          BY <4>2
        <5>2. PICK j \in 1..Len(c) : call = c[j]
          BY <5>1
        <5>3. call \in Calls
          BY <5>2
        <5>4. Recoverable(q)
          BY <2>3, <3>1, <5>1, <5>2 DEF Queues
        <5>. QED
          BY <5>3, <5>4
      <4>. QED
        BY <1>2, <3>1, <4>1, <4>2, QueueIs
    <3>3. q \in Named
      <4>1. call \in PublishCalls
        BY <1>2, <2>0, <2>3, <3>1, <3>2, CallIs DEF Publishing
      <4>. QED
        BY <2>3, <3>1, <4>1 DEF PublishCalls, NamedIn, Named
    <3>. QED
      BY <2>1, <3>2, <3>3
  <2>4. /\ published.current \in Named /\ published.previous \in Named /\ published.query \in Named
    BY <2>0 DEF Remembered
  <2>5. /\ Recoverable(published.current) /\ Recoverable(published.previous)
        /\ published.checkpoint # None => published.checkpoint = published.current
        /\ published.at # None => published.query # None /\ published.query \in made
        /\ published.at = "publish" \/ published.ticket = "ok" => Recoverable(published.query)
        /\ published.at = "publish" => published.checkpoint = None
        /\ published.current # None => published.current \in made
        /\ role \in {"creator", "created"} => published.at = None /\ published.current = None
    BY <1>2, <2>0, AppliedParts
  <2>6. ASSUME NEW q, q \in Named, Recoverable(q)
        PROVE  /\ published'.current = q => Recoverable(published.current)'
               /\ published'.previous = q => Recoverable(published.previous)'
               /\ published'.query = q => Recoverable(published.query)'
    BY <2>1, <2>6 DEF Recoverable
  <2>7. /\ Recoverable(published.current)' /\ Recoverable(published.previous)'
        /\ published'.checkpoint # None => published'.checkpoint = published'.current
        /\ published'.at # None => published'.query # None /\ published'.query \in made'
        /\ published'.at = "publish" \/ published'.ticket = "ok" => Recoverable(published.query)'
        /\ published'.at = "publish" => published'.checkpoint = None
        /\ published'.current # None => published'.current \in made'
        /\ role' \in {"creator", "created"} => published'.at = None /\ published'.current = None
    <3>1. CASE OwnerActs
      <4>1. made \subseteq made' /\ role' = "worker" /\ Remembers
        BY <1>2, <3>1, MemoryActs
      <4>2. PICK p : p = published'
        OBVIOUS
      <4>3. /\ p.previous = published.previous \/ p.previous = published.current
            /\ \/ p = published
               \/ /\ published.at = None /\ p.at = "observe" /\ p.query \in Queries \ made
                  /\ p.query \in made' /\ p.ticket = "queued"
                  /\ p.current = published.current /\ p.checkpoint = published.checkpoint
               \/ /\ published.at = "observe" /\ published.ticket = "ok" /\ p.at = "publish"
                  /\ p.query = published.query /\ p.ticket = "queued" /\ p.checkpoint = None
                  /\ p.current = published.current
               \/ /\ published.at = "publish" /\ p.at = None
                  /\ p.ticket = None /\ p.current = published.query
                  /\ p.checkpoint = published.query
               \/ /\ p.at = None /\ p.ticket = None
                  /\ p.current = published.current /\ p.checkpoint = published.checkpoint
               \/ /\ p.checkpoint = None /\ p.at = published.at
                  /\ p.query = published.query /\ p.ticket = published.ticket
                  /\ p.current = published.current
        BY <4>1, <4>2 DEF Remembers
      <4>4. Recoverable(published.current)' /\ Recoverable(published.previous)'
        BY <2>4, <2>5, <2>6, <4>2, <4>3
      <4>5. p.at = "publish" \/ p.ticket = "ok" => Recoverable(published.query)'
        BY <2>4, <2>5, <2>6, <4>2, <4>3 DEF None
      <4>6. /\ p.checkpoint # None => p.checkpoint = p.current
            /\ p.at = "publish" => p.checkpoint = None
        BY <2>5, <4>3 DEF None
      <4>7. p.at # None => p.query # None /\ p.query \in made'
        BY <2>5, <4>1, <4>3, StoreAssumption DEF None
      <4>8. p.current # None => p.current \in made'
        BY <2>5, <4>1, <4>3 DEF None
      <4>. QED
        BY <4>1, <4>2, <4>4, <4>5, <4>6, <4>7, <4>8
    <3>2. CASE ~OwnerActs
      <4>1. /\ made' = made /\ published'.current = published.current /\ published'.previous = published.previous
            /\ published'.query = published.query /\ published'.at = published.at
            /\ published'.checkpoint = published.checkpoint
            /\ \/ published'.ticket = published.ticket \/ published'.ticket = "failed"
               \/ /\ Return /\ published'.ticket = "ok"
                  /\ \/ job.op = "observe" /\ published.at = "observe" /\ published.query = job.q
                     \/ published.at = "publish" /\ Pending(job, published.query)
        BY <1>2, <3>2, MemoryStays
      <4>2. Recoverable(published.current)' /\ Recoverable(published.previous)'
        BY <2>4, <2>5, <2>6, <4>1
      <4>3. published'.at = "publish" \/ published'.ticket = "ok" => Recoverable(published.query)'
        <5>1. CASE published.at = "publish" \/ published.ticket = "ok"
          BY <2>4, <2>5, <2>6, <4>1, <5>1
        <5>2. CASE Return /\ job.op = "observe" /\ published.query = job.q
          <6>1. PICK q : q = job.q
            OBVIOUS
          <6>2. Recoverable(q)'
            BY <1>2, <5>2, <6>1, ObservedIs
          <6>. QED
            BY <4>1, <5>2, <6>1, <6>2 DEF Recoverable
        <5>. QED
          BY <4>1, <5>1, <5>2
      <4>4. role' \in {"creator", "created"} => role \in {"creator", "created"}
        <5>1. role' = role \/ role' \in {"over", "down", "finalizer", "worker"} \/ (Return /\ job.op = "create")
          BY <3>2 DEF Next, OwnerActs, Take, Do, Return, Fail, Kill, Ended, PowerLoss,
               WorkerStarts, Attach, Exit,
                      Finalize, TakeFinal
        <5>2. job.op = "create" => job = Creating
          <6>1. job \in Calls => job.op # "create"
            BY <2>0, CallIs
          <6>2. job \in Calls \cup {Idle, Creating}
            BY <2>0 DEF OwnerTyped
          <6>. QED
            BY <6>1, <6>2 DEF Idle, None
        <5>3. job = Creating => role = "creator"
          BY <2>0 DEF Staffed
        <5>. QED
          BY <5>1, <5>2, <5>3
      <4>. QED
        BY <2>5, <4>1, <4>2, <4>3, <4>4
    <3>. QED
      BY <3>1, <3>2
  <2>8. family' = family
    BY NextFrame
  <2>. QED
    BY <2>2, <2>3, <2>7, <2>8 DEF Applied
<1>. QED
  BY <1>1, <1>2

\* What Once says, part by part.
LEMMA OnceParts ==
  ASSUME Once, family = "windows"
  PROVE  /\ \A i \in 1..Len(queue) :
              /\ queue[i].op = "prepare" => "prepare" \in made /\ acked[AppRecord] = Absent
              /\ InUse(queue[i]) => acked[AppRecord] # Absent
              /\ Publishing(queue[i]) => queue[i].candidate \in made
         /\ job.op = "prepare" => "prepare" \in made /\ acked[AppRecord] = Absent
         /\ InUse(job) => acked[AppRecord] # Absent
         /\ Publishing(job) => job.candidate \in made
         /\ acked[AppRecord] # Absent =>
              /\ "prepare" \in made /\ job.op # "prepare"
              /\ \A i \in 1..Len(queue) : queue[i].op # "prepare"
         /\ \A i \in 1..Len(queue) : queue[i].op = "prepare" =>
              job.op # "prepare" /\ \A j \in (i + 1)..Len(queue) : queue[j].op # "prepare"
         /\ published.at # None \/ published.current # None => acked[AppRecord] # Absent
BY DEF Once

\* Where the call in progress comes from.
LEMMA JobIs ==
  ASSUME IInv, Next, family = "windows"
  PROVE  \/ job' = job \/ job' = Idle
         \/ Take /\ ~Refused(queue[1]) /\ queue # <<>> /\ 1 \in 1..Len(queue) /\ job' = queue[1] /\ Head(queue) = queue[1]
<1>0. OwnerTyped /\ Staffed /\ queue \in Seq(Calls)
  BY DEF IInv, OwnerTyped
<1>1. CASE Take
  <2>1. /\ queue # <<>>
        /\ UNCHANGED <<job>> \/ (~Refused(Head(queue)) /\ job' = Head(queue))
    BY <1>0, <1>1, TakeIs
  <2>2. 1 \in 1..Len(queue) /\ Head(queue) = queue[1]
    BY <1>0, <2>1
  <2>. QED
    BY <1>1, <2>1, <2>2
<1>2. CASE OwnerActs
  BY <1>2, OwnerFrame
<1>3. CASE TakeFinal
  BY <1>0, <1>3 DEF TakeFinal, Staffed
<1>4. CASE Do \/ Return \/ Fail \/ Kill \/ PowerLoss \/ WorkerStarts \/ Exit \/ Finalize
  BY <1>4 DEF Do, Return, Fail, Kill, Ended, PowerLoss, WorkerStarts, Exit, Finalize
<1>. QED
  BY <1>1, <1>2, <1>3, <1>4 DEF Next, OwnerActs

\* The record is answered for the first time when its preparation returns.
LEMMA FirstAck ==
  ASSUME IInv, Next, family = "windows", acked'[AppRecord] # Absent, acked[AppRecord] = Absent
  PROVE  Return /\ job.op = "prepare" /\ job' = Idle /\ queue' = queue /\ ~Take /\ ~OwnerActs
<1>0. /\ family \in Families /\ OwnerTyped /\ Once /\ Staffed /\ AppRecord \in Paths
  BY PathsAre DEF IInv, OwnerTyped
<1>1. Return
  <2>1. CASE Do \/ PowerLoss
    BY <2>1 DEF Do, PowerLoss
  <2>. QED
    BY <2>1, NextFrame
<1>2. /\ job \in Calls \cup {Creating} /\ job' = Idle /\ \A x \in Paths : x # Target(job) => acked'[x] = acked[x]
  BY <1>1, ReturnAcks
<1>3. Target(job) = AppRecord
  BY <1>0, <1>2
<1>4. job \in Calls
  <2>1. Target(Creating) = Manifest
    BY DEF Target, Creating
  <2>2. Manifest # AppRecord
    BY DEF Manifest, AppRecord, In, Path
  <2>. QED
    BY <1>2, <1>3, <2>1, <2>2
<1>5. job \in WindowsCalls /\ job.op \in {"prepare", "app", "windows", "processes", "observe"}
  BY <1>0, <1>4, CallIs
<1>6. job.op = "processes" => FALSE
  BY <1>3 DEF Target, Process, AppRecord, In, Path
<1>7. job.op = "observe" => FALSE
  BY <1>3 DEF Target, Observation, AppRecord, In, Path
<1>8. ~InUse(job)
  BY <1>0, OnceParts
<1>9. queue' = queue
  BY <1>1 DEF Return
<1>10. job # Idle
  BY <1>1 DEF Return, Busy
<1>11. ~Take
  BY <1>10 DEF Take, Busy
<1>12. ~OwnerActs
  BY <1>2, <1>10, OwnerFrame
<1>. QED
  BY <1>1, <1>2, <1>5, <1>6, <1>7, <1>8, <1>9, <1>11, <1>12 DEF InUse

\* No call is none of the calls on an application.
LEMMA NoOps ==
  Idle.op = None /\ ~InUse(Idle) /\ ~Publishing(Idle) /\ Idle.op # "prepare" /\ ~InUse(Creating) /\ ~Publishing(Creating)
BY DEF Idle, Creating, InUse, Publishing, None

\* The record is prepared once, and what uses it comes after.
LEMMA OnceStep ==
  ASSUME IInv, Next, \A x \in Paths : acked[x] # Absent => acked'[x] # Absent
  PROVE  Once'
<1>1. CASE family # "windows"
  BY <1>1, NextFrame DEF Once
<1>2. CASE family = "windows"
  <2>0. /\ family \in Families /\ queue \in Seq(Calls) /\ OwnerTyped /\ Staffed /\ Once /\ AppRecord \in Paths
        /\ family' = family
    BY <1>2, PathsAre, NextFrame DEF IInv, OwnerTyped
  <2>1. /\ \A i \in 1..Len(queue) :
             /\ queue[i].op = "prepare" => "prepare" \in made /\ acked[AppRecord] = Absent
             /\ InUse(queue[i]) => acked[AppRecord] # Absent
             /\ Publishing(queue[i]) => queue[i].candidate \in made
        /\ job.op = "prepare" => "prepare" \in made /\ acked[AppRecord] = Absent
        /\ InUse(job) => acked[AppRecord] # Absent
        /\ Publishing(job) => job.candidate \in made
        /\ acked[AppRecord] # Absent =>
             /\ "prepare" \in made /\ job.op # "prepare"
             /\ \A i \in 1..Len(queue) : queue[i].op # "prepare"
        /\ \A i \in 1..Len(queue) : queue[i].op = "prepare" =>
             job.op # "prepare" /\ \A j \in (i + 1)..Len(queue) : queue[j].op # "prepare"
        /\ published.at # None \/ published.current # None => acked[AppRecord] # Absent
    BY <1>2, <2>0, OnceParts
  <2>2. acked[AppRecord] # Absent => acked'[AppRecord] # Absent
    BY <2>0
  <2>3. made \subseteq made'
    BY <1>2, MemoryActs, MemoryStays
  <2>4. acked'[AppRecord] # Absent /\ acked[AppRecord] = Absent =>
          job.op = "prepare" /\ job' = Idle /\ queue' = queue /\ ~Take /\ ~OwnerActs
    BY <1>2, FirstAck
  <2>5. \/ job' = job \/ job' = Idle
        \/ Take /\ 1 \in 1..Len(queue) /\ job' = queue[1] /\ acked' = acked
    <3>1. Take => acked' = acked
      BY <2>0, TakeIs
    <3>. QED
      BY <1>2, <3>1, JobIs
  <2>6. ASSUME NEW i \in 1..Len(queue')
        PROVE  /\ queue'[i].op = "prepare" => "prepare" \in made' /\ acked'[AppRecord] = Absent
               /\ InUse(queue'[i]) => acked'[AppRecord] # Absent
               /\ Publishing(queue'[i]) => queue'[i].candidate \in made'
    <3>1. PICK call : call = queue'[i]
      OBVIOUS
    <3>2. CASE \E j \in 1..Len(queue) : call = queue[j]
      <4>1. PICK j \in 1..Len(queue) : call = queue[j]
        BY <3>2
      <4>2. call.op = "prepare" => "prepare" \in made /\ acked[AppRecord] = Absent /\ job.op # "prepare"
        BY <2>1, <4>1
      <4>3. InUse(call) => acked[AppRecord] # Absent
        BY <2>1, <4>1
      <4>4. Publishing(call) => call.candidate \in made
        BY <2>1, <4>1
      <4>. QED
        BY <2>2, <2>3, <2>4, <3>1, <4>2, <4>3, <4>4
    <3>3. CASE OwnerActs /\ \E c \in Seq(Calls) : Queues(c) /\ \E j \in 1..Len(c) : call = c[j]
      <4>1. PICK c \in Seq(Calls) : Queues(c) /\ \E j \in 1..Len(c) : call = c[j]
        BY <3>3
      <4>2. PICK j \in 1..Len(c) : call = c[j]
        BY <4>1
      <4>3. acked' = acked
        BY <1>2, <3>3, MemoryActs
      <4>4. /\ call.op = "prepare" => "prepare" \notin made /\ "prepare" \in made'
            /\ InUse(call) => acked[AppRecord] # Absent
            /\ Publishing(call) => call.candidate \in made
        BY <4>1, <4>2 DEF Queues
      <4>. QED
        BY <2>1, <2>3, <3>1, <4>3, <4>4
    <3>. QED
      BY <1>2, <3>1, <3>2, <3>3, QueueIs
  <2>7. /\ job'.op = "prepare" => "prepare" \in made' /\ acked'[AppRecord] = Absent
        /\ InUse(job') => acked'[AppRecord] # Absent
        /\ Publishing(job') => job'.candidate \in made'
    <3>1. CASE job' = job
      <4>1. job.op = "prepare" => job' # Idle
        BY <3>1, NoOps
      <4>. QED
        BY <2>1, <2>2, <2>3, <2>4, <3>1, <4>1
    <3>2. CASE job' = Idle
      BY <3>2, NoOps
    <3>3. CASE 1 \in 1..Len(queue) /\ job' = queue[1] /\ acked' = acked
      BY <2>1, <2>3, <3>3
    <3>. QED
      BY <2>5, <3>1, <3>2, <3>3
  <2>8. acked'[AppRecord] # Absent =>
          /\ "prepare" \in made' /\ job'.op # "prepare"
          /\ \A i \in 1..Len(queue') : queue'[i].op # "prepare"
    <3>1. SUFFICES ASSUME acked'[AppRecord] # Absent
                   PROVE  /\ "prepare" \in made' /\ job'.op # "prepare"
                          /\ \A i \in 1..Len(queue') : queue'[i].op # "prepare"
      OBVIOUS
    <3>2. "prepare" \in made'
      BY <2>1, <2>3, <2>4, <3>1
    <3>. QED
      BY <2>6, <2>7, <3>1, <3>2
  <2>9. ASSUME NEW i \in 1..Len(queue'), queue'[i].op = "prepare"
        PROVE  job'.op # "prepare" /\ \A j \in (i + 1)..Len(queue') : queue'[j].op # "prepare"
    <3>1. CASE Take
      <4>1. PICK q, u : q = queue /\ u = Tail(q)
        OBVIOUS
      <4>2. queue # <<>> /\ queue' = u
        BY <2>0, <3>1, <4>1, TakeIs
      <4>3. /\ Len(u) = Len(q) - 1 /\ Len(q) \in Nat /\ 1 \in 1..Len(q)
            /\ \A k \in 1..Len(u) : u[k] = q[k + 1] /\ k + 1 \in 1..Len(q) /\ k + 1 \in (1 + 1)..Len(q)
        BY <2>0, <4>1, <4>2, QueueTaken
      <4>4. /\ \A k \in 1..Len(q) : q[k].op = "prepare" => \A j \in (k + 1)..Len(q) : q[j].op # "prepare"
            /\ \A k \in 1..Len(q) : q[k].op = "prepare" => job.op # "prepare"
        BY <2>1, <4>1
      <4>5. i \in 1..Len(u) /\ q[i + 1].op = "prepare"
        BY <2>9, <4>2, <4>3
      <4>6. q[1].op # "prepare"
        BY <4>3, <4>4, <4>5
      <4>7. job'.op # "prepare"
        <5>1. job.op # "prepare"
          BY <4>3, <4>4, <4>5
        <5>. QED
          BY <2>5, <4>1, <4>6, <5>1, NoOps
      <4>8. ASSUME NEW j \in (i + 1)..Len(u)  PROVE u[j].op # "prepare"
        <5>1. j \in 1..Len(u) /\ j + 1 \in ((i + 1) + 1)..Len(q)
          BY <4>3, <4>5
        <5>. QED
          BY <4>3, <4>4, <4>5, <5>1
      <4>. QED
        BY <4>2, <4>7, <4>8
    <3>2. CASE OwnerActs
      <4>1. UNCHANGED job /\ \E c \in Seq(Calls) : queue' = queue \o c /\ Queues(c)
        BY <1>2, <3>2, MemoryActs
      <4>2. PICK c \in Seq(Calls) : queue' = queue \o c /\ Queues(c)
        BY <4>1
      <4>3. PICK q, u : q = queue /\ u = q \o c
        OBVIOUS
      <4>4. /\ Len(u) = Len(q) + Len(c) /\ Len(q) \in Nat /\ Len(c) \in Nat
            /\ \A k \in 1..Len(u) :
                 \/ k \in 1..Len(q) /\ u[k] = q[k]
                 \/ k - Len(q) \in 1..Len(c) /\ u[k] = c[k - Len(q)] /\ k > Len(q)
        BY <2>0, <4>2, <4>3, QueueGrown
      <4>5. \A k \in 1..Len(q) : q[k].op = "prepare" =>
              "prepare" \in made /\ job.op # "prepare" /\ \A j \in (k + 1)..Len(q) : q[j].op # "prepare"
        BY <2>1, <4>3
      <4>6. \A k \in 1..Len(c) : c[k].op = "prepare" => "prepare" \notin made /\ Len(c) = 1
        BY <4>2 DEF Queues
      <4>7. i \in 1..Len(u) /\ u[i].op = "prepare"
        BY <2>9, <4>2, <4>3
      <4>8. CASE i \in 1..Len(q) /\ u[i] = q[i]
        <5>1. "prepare" \in made /\ job.op # "prepare" /\ \A j \in (i + 1)..Len(q) : q[j].op # "prepare"
          BY <4>5, <4>7, <4>8
        <5>2. ASSUME NEW j \in (i + 1)..Len(u)  PROVE u[j].op # "prepare"
          <6>1. j \in 1..Len(u)
            BY <4>4, <4>8
          <6>2. CASE j \in 1..Len(q) /\ u[j] = q[j]
            <7>1. j \in (i + 1)..Len(q)
              BY <4>4, <4>8, <6>2
            <7>. QED
              BY <5>1, <6>2, <7>1
          <6>3. CASE j - Len(q) \in 1..Len(c) /\ u[j] = c[j - Len(q)]
            BY <4>6, <5>1, <6>3
          <6>. QED
            BY <4>4, <6>1, <6>2, <6>3
        <5>. QED
          BY <4>1, <4>2, <4>3, <5>1, <5>2
      <4>9. CASE i - Len(q) \in 1..Len(c) /\ u[i] = c[i - Len(q)] /\ i > Len(q)
        <5>1. "prepare" \notin made /\ Len(c) = 1
          BY <4>6, <4>7, <4>9
        <5>2. (i + 1)..Len(u) = {}
          BY <4>4, <4>9, <5>1
        <5>3. job.op # "prepare"
          BY <2>1, <5>1
        <5>. QED
          BY <4>1, <4>2, <4>3, <5>2, <5>3
      <4>. QED
        BY <4>4, <4>7, <4>8, <4>9
    <3>3. CASE ~Take /\ ~OwnerActs
      <4>1. queue' = queue \/ queue' = <<>>
        BY <1>2, <3>3, QueueStays
      <4>2. queue' = queue
        BY <2>9, <4>1
      <4>3. job' = job \/ job' = Idle
        BY <2>5, <3>3
      <4>. QED
        BY <2>1, <2>9, <4>2, <4>3, NoOps
    <3>. QED
      BY <3>1, <3>2, <3>3
  <2>10. published'.at # None \/ published'.current # None => acked'[AppRecord] # Absent
    <3>1. CASE OwnerActs
      <4>1. Remembers
        BY <1>2, <3>1, MemoryActs
      <4>2. published'.at # None \/ published'.current # None => acked[AppRecord] # Absent
        BY <2>1, <4>1 DEF Remembers, None
      <4>. QED
        BY <2>2, <4>2
    <3>2. CASE ~OwnerActs
      BY <1>2, <2>1, <2>2, <3>2, MemoryStays
    <3>. QED
      BY <3>1, <3>2
  <2>11. /\ (\A i \in 1..Len(queue) :
               /\ queue[i].op = "prepare" => "prepare" \in made /\ acked[AppRecord] = Absent
               /\ InUse(queue[i]) => acked[AppRecord] # Absent
               /\ Publishing(queue[i]) => queue[i].candidate \in made)'
         /\ (InUse(job) => acked[AppRecord] # Absent)' /\ (Publishing(job) => job.candidate \in made)'
    BY <2>6, <2>7 DEF InUse, Publishing
  <2>. QED
    BY <2>7, <2>8, <2>9, <2>10, <2>11 DEF Once
<1>. QED
  BY <1>1, <1>2

\* What Recorded says, part by part.
LEMMA RecordedParts ==
  ASSUME Recorded, family = "windows", role = "worker"
  PROVE  /\ published.current # None => AllName(published.current)
         /\ published.at = "publish" /\ published.ticket = "ok" => AllName(published.query)
         /\ published.at = "publish" =>
              /\ \A i \in 1..Len(queue) : Pending(queue[i], published.query) =>
                   \A j \in (i + 1)..Len(queue) : ~Publishing(queue[j])
              /\ Pending(job, published.query) => \A i \in 1..Len(queue) : ~Publishing(queue[i])
         /\ published.at = "observe" =>
              /\ ~Pending(job, published.query)
              /\ \A i \in 1..Len(queue) : ~Pending(queue[i], published.query)
         /\ Publishing(job) =>
              /\ \A k \in 1..Len(todo) : Puts(k, AppRecord) => job.candidate \in NamesOf(todo[k].value)
              /\ \/ \E k \in 1..Len(todo) : Puts(k, AppRecord)
                 \/ Visible(AppRecord) /\ job.candidate \in NamesOf(disk[AppRecord].now)
BY DEF Recorded

\* A query that every version names, and every call to come, stays named in every version.
LEMMA NamedStays ==
  ASSUME IInv, Next, family = "windows", role' = "worker", acked[AppRecord] # Absent, NEW q, AllName(q),
         NEW v \in Versions'
  PROVE  v # Absent /\ q \in NamesOf(v)
<1>0. /\ family \in Families /\ queue \in Seq(Calls) /\ Once
  BY DEF IInv, OwnerTyped
<1>1. /\ \A w \in Versions : w # Absent /\ q \in NamesOf(w)
      /\ \A i \in 1..Len(queue) : Publishing(queue[i]) => q \in NamedIn(queue[i])
  BY DEF AllName
<1>2. CASE v \in Versions
  BY <1>1, <1>2
<1>3. CASE PowerLoss
  BY <1>3 DEF PowerLoss
<1>4. CASE queue # <<>> /\ Head(queue) \in Calls /\ Writes(Head(queue), v)
  <2>1. PICK c : c = Head(queue)
    OBVIOUS
  <2>2. 1 \in 1..Len(queue) /\ c = queue[1]
    BY <1>0, <1>4, <2>1
  <2>3. c.op # "prepare"
    BY <1>0, <2>2, OnceParts
  <2>4. v # Absent
    BY <1>4, AppShape DEF Writes, Absent
  <2>5. CASE NamesOf(v) = NamesOf(Now(AppRecord))
    <3>1. Now(AppRecord) \in Versions
      BY VersionIs DEF Now
    <3>. QED
      BY <1>1, <2>4, <2>5, <3>1
  <2>6. CASE c.op = "windows" /\ NamesOf(v) = NamedIn(c)
    BY <1>1, <2>2, <2>4, <2>6 DEF Publishing
  <2>. QED
    BY <1>4, <2>1, <2>3, <2>5, <2>6 DEF Writes
<1>. QED
  BY <1>2, <1>3, <1>4, VersionsStep

\* Every call that is still to come was queued before, unless the owner acts.
LEMMA QueueBefore ==
  ASSUME IInv, Next, family = "windows", ~OwnerActs, NEW i \in 1..Len(queue')
  PROVE  \E j \in 1..Len(queue) : queue'[i] = queue[j]
BY QueueIs

\* What the call in progress on the record is to put there, or has put.
LEMMA WritingStep ==
  ASSUME IInv, Next, family = "windows", role = "worker", role' = "worker", Publishing(job'), NEW d, d = job'.candidate
  PROVE  /\ \A k \in 1..Len(todo') : Puts(k, AppRecord)' => d \in NamesOf(todo'[k].value)
         /\ \/ \E k \in 1..Len(todo') : Puts(k, AppRecord)'
            \/ Visible(AppRecord)' /\ d \in NamesOf(disk'[AppRecord].now)
<1>0. /\ family \in Families /\ queue \in Seq(Calls) /\ OwnerTyped /\ DiskInv /\ CallInv /\ Recorded /\ Applied
      /\ job \in Calls \cup {Idle, Creating} /\ AppRecord \in Paths
      /\ known => Seen \in Paths /\ disk[Seen].safe # Absent
  BY PathsAre DEF IInv, OwnerTyped, CallInv
<1>1. job' # Idle
  BY NoOps
<1>2. CASE Take /\ ~Refused(queue[1]) /\ queue # <<>> /\ job' = queue[1] /\ Head(queue) = queue[1]
  <2>1. PICK c, u : c = queue[1] /\ u = Steps(c)
    OBVIOUS
  <2>2. /\ todo' = u /\ acked[Manifest] # Absent /\ (InUse(c) => Visible(AppRecord))
    BY <1>2, <2>1, TakenSteps
  <2>3. c \in Calls /\ c \in WindowsCalls /\ c.op = "windows" /\ job' = c
    <3>1. c \in Calls
      BY <1>0, <1>2, <2>1
    <3>. QED
      BY <1>0, <1>2, <2>1, <3>1, CallIs DEF Publishing
  <2>4. Now(AppRecord) \in AppValues => Restored(Now(AppRecord))
    <3>1. Now(AppRecord) \in Versions
      BY VersionIs DEF Now
    <3>2. Now(AppRecord) \in AppValues => Now(AppRecord) # Absent
      BY AppShape DEF Absent
    <3>. QED
      BY <1>0, <3>1, <3>2, AppliedParts DEF Readable
  <2>5. /\ \A k \in 1..Len(u) : Makes(u[k]) /\ u[k].path = AppRecord => Writes(c, u[k].value)
        /\ 1 \in 1..Len(u) /\ Makes(u[1]) /\ u[1].path = AppRecord
    BY <1>0, <2>1, <2>2, <2>3, <2>4, AppWrites
  <2>6. \A x : Writes(c, x) => d \in NamesOf(x)
    BY <2>3 DEF Writes, NamedIn
  <2>7. \A k \in 1..Len(u) : Makes(u[k]) /\ u[k].path = AppRecord => d \in NamesOf(u[k].value)
    BY <2>5, <2>6
  <2>. QED
    BY <2>2, <2>5, <2>7 DEF Puts
<1>3. CASE job' = job
  <2>1. /\ \A k \in 1..Len(todo) : Puts(k, AppRecord) => d \in NamesOf(todo[k].value)
        /\ \/ \E k \in 1..Len(todo) : Puts(k, AppRecord)
           \/ Visible(AppRecord) /\ d \in NamesOf(disk[AppRecord].now)
    BY <1>0, <1>3, RecordedParts
  <2>2. CASE Do
    <3>1. /\ \A k \in 1..Len(todo') : Puts(k, AppRecord)' =>
               k + 1 \in 1..Len(todo) /\ Puts(k + 1, AppRecord) /\ todo'[k] = todo[k + 1]
          /\ Puts(1, AppRecord) => disk'[AppRecord].now = todo[1].value /\ disk'[AppRecord].now # Absent
          /\ ~Puts(1, AppRecord) => disk'[AppRecord].now = disk[AppRecord].now
          /\ \A k \in 1..Len(todo) : Puts(k, AppRecord) /\ k # 1 =>
               k - 1 \in 1..Len(todo') /\ Puts(k - 1, AppRecord)'
      BY <1>0, <2>2, VersionsDo
    <3>2. \A k \in 1..Len(todo') : Puts(k, AppRecord)' => d \in NamesOf(todo'[k].value)
      BY <2>1, <3>1
    <3>3. CASE \E k \in 1..Len(todo) : Puts(k, AppRecord) /\ k # 1
      BY <3>1, <3>2, <3>3
    <3>4. CASE Puts(1, AppRecord)
      <4>1. 1 \in 1..Len(todo)
        BY <3>4 DEF Puts
      <4>2. d \in NamesOf(disk'[AppRecord].now) /\ disk'[AppRecord].now # Absent
        BY <2>1, <3>1, <3>4, <4>1
      <4>. QED
        BY <3>2, <4>2 DEF Visible
    <3>5. CASE ~\E k \in 1..Len(todo) : Puts(k, AppRecord)
      <4>1. ~Puts(1, AppRecord)
        BY <3>5 DEF Puts
      <4>. QED
        BY <2>1, <3>1, <3>2, <3>5, <4>1 DEF Visible
    <3>. QED
      BY <3>3, <3>4, <3>5
  <2>3. CASE ~Do
    <3>1. UNCHANGED <<disk, todo>>
      <4>1. CASE Take
        <5>1. job # Idle
          BY <1>1, <1>3
        <5>. QED
          BY <4>1, <5>1 DEF Take, Busy
      <4>2. CASE OwnerActs
        BY <4>2, OwnerFrame
      <4>3. CASE Return \/ Fail \/ Kill \/ PowerLoss
        BY <1>1, <4>3 DEF Return, Fail, Kill, Ended, PowerLoss
      <4>4. CASE WorkerStarts \/ Exit \/ Finalize \/ TakeFinal
        BY <4>4 DEF WorkerStarts, Exit, Finalize, TakeFinal, fs
      <4>. QED
        BY <2>3, <4>1, <4>2, <4>3, <4>4 DEF Next, OwnerActs
    <3>2. \A k : Puts(k, AppRecord)' <=> Puts(k, AppRecord)
      BY <3>1 DEF Puts
    <3>. QED
      BY <2>1, <3>1, <3>2 DEF Visible
  <2>. QED
    BY <2>2, <2>3
<1>. QED
  BY <1>1, <1>2, <1>3, JobIs

\* Nothing but the worker's own turns are before a turn of the worker.
LEMMA WorkerBefore ==
  ASSUME IInv, Next, role' = "worker"
  PROVE  \/ role = "worker" /\ ~WorkerStarts /\ ~PowerLoss
         \/ /\ WorkerStarts /\ role = "created" /\ job' = job /\ ~Busy
            /\ published' = published /\ (family # "manifest" => queue' = <<>>)
<1>0. Staffed /\ OwnerTyped
  BY DEF IInv
<1>1. CASE WorkerStarts
  <2>1. role = "created" /\ job' = job /\ published' = published /\ (family # "manifest" => queue' = <<>>)
    BY <1>1 DEF WorkerStarts, owner
  <2>. QED
    BY <1>0, <1>1, <2>1 DEF Staffed
<1>2. CASE OwnerActs
  BY <1>2, OwnerFrame DEF WorkerStarts, PowerLoss
<1>3. CASE Return
  <2>1. role' = IF job.op = "create" THEN "created" ELSE role
    BY <1>3 DEF Return
  <2>. QED
    BY <1>3, <2>1 DEF PowerLoss, WorkerStarts
<1>4. CASE Fail
  <2>1. role' = IF job.op = "create" THEN "over" ELSE role
    BY <1>4 DEF Fail
  <2>. QED
    BY <1>4, <2>1 DEF PowerLoss, WorkerStarts
<1>5. CASE Take \/ Do
  <2>1. role' = role
    BY <1>5 DEF Take, Do
  <2>. QED
    BY <2>1 DEF PowerLoss, WorkerStarts
<1>6. CASE Kill \/ PowerLoss \/ Exit
  BY <1>6 DEF Kill, Ended, PowerLoss, Exit
<1>7. CASE Finalize
  BY <1>7 DEF Finalize, Attach
<1>8. CASE TakeFinal
  <2>1. role = "finalizer" /\ (role' = "down" \/ role' = role)
    BY <1>8 DEF TakeFinal
  <2>. QED
    BY <2>1
<1>. QED
  BY <1>1, <1>2, <1>3, <1>4, <1>5, <1>6, <1>7, <1>8 DEF Next, OwnerActs

\* A step of the writer keeps what is named.
LEMMA WriterNames ==
  ASSUME IInv, Next, family = "windows", role = "worker", role' = "worker", ~OwnerActs
  PROVE  /\ published'.current # None => AllName(published.current)'
         /\ published'.at = "publish" /\ published'.ticket = "ok" => AllName(published.query)'
<1>0. /\ family \in Families /\ OwnerTyped /\ Once /\ Recorded /\ AppRecord \in Paths
  BY PathsAre DEF IInv, OwnerTyped
<1>1. /\ published'.current = published.current /\ published'.query = published.query /\ published'.at = published.at
      /\ \/ published'.ticket = published.ticket \/ published'.ticket = "failed"
         \/ /\ Return /\ published'.ticket = "ok"
            /\ \/ job.op = "observe" /\ published.at = "observe" /\ published.query = job.q
               \/ published.at = "publish" /\ Pending(job, published.query)
  BY MemoryStays
<1>2. ASSUME NEW q, AllName(q), acked[AppRecord] # Absent
      PROVE  AllName(q)'
  <2>1. \A v \in Versions' : v # Absent /\ q \in NamesOf(v)
    BY <1>2, NamedStays
  <2>2. \A i \in 1..Len(queue) : Publishing(queue[i]) => q \in NamedIn(queue[i])
    BY <1>2 DEF AllName
  <2>3. \A i \in 1..Len(queue') : Publishing(queue'[i]) => q \in NamedIn(queue'[i])
    BY <2>2, QueueBefore
  <2>. QED
    BY <2>1, <2>3 DEF AllName, Publishing, NamedIn
<1>3. \A q : q = published'.current => (AllName(q)' => AllName(published.current)')
  BY DEF AllName
<1>4. \A q : q = published'.query => (AllName(q)' => AllName(published.query)')
  BY DEF AllName
<1>5. published'.current # None => AllName(published.current)'
  <2>1. PICK q : q = published.current
    OBVIOUS
  <2>2. q # None => AllName(q) /\ acked[AppRecord] # Absent
    BY <1>0, <2>1, RecordedParts, OnceParts
  <2>. QED
    BY <1>1, <1>2, <1>3, <2>1, <2>2
<1>6. ASSUME published'.at = "publish", published'.ticket = "ok"  PROVE AllName(published.query)'
  <2>1. PICK q : q = published.query
    OBVIOUS
  <2>2. acked[AppRecord] # Absent
    BY <1>0, <1>1, <1>6, OnceParts DEF None
  <2>3. CASE published.ticket = "ok"
    <3>1. AllName(q)
      BY <1>0, <1>1, <1>6, <2>1, <2>3, RecordedParts
    <3>. QED
      BY <1>1, <1>2, <1>4, <2>1, <2>2, <3>1
  <2>4. CASE Return /\ Pending(job, q)
    <3>1. Publishing(job) /\ job.candidate = q /\ Target(job) = AppRecord
      BY <2>4 DEF Pending, Publishing, Target
    <3>2. /\ todo = <<>> /\ Visible(AppRecord) /\ disk[AppRecord].now = disk[AppRecord].safe
      BY <2>4, <3>1, ReturnAcks
    <3>3. \/ \E k \in 1..Len(todo) : Puts(k, AppRecord)
          \/ Visible(AppRecord) /\ q \in NamesOf(disk[AppRecord].now)
      BY <1>0, <3>1, RecordedParts
    <3>4. q \in NamesOf(disk[AppRecord].now)
      BY <3>2, <3>3
    <3>5. UNCHANGED <<disk, todo, queue>>
      BY <2>4 DEF Return
    <3>6. \A v \in Versions' : v # Absent /\ q \in NamesOf(v)
      BY <3>2, <3>4, <3>5, VersionIs DEF Visible
    <3>7. \A i \in 1..Len(queue) : ~Publishing(queue[i])
      BY <1>0, <1>1, <1>6, <2>1, <2>4, RecordedParts
    <3>8. AllName(q)'
      BY <3>5, <3>6, <3>7 DEF AllName, Publishing
    <3>. QED
      BY <1>1, <1>4, <2>1, <3>8
  <2>. QED
    BY <1>1, <1>6, <2>1, <2>3, <2>4
<1>. QED
  BY <1>5, <1>6

\* An act of the owner keeps what is named.
LEMMA OwnerNames ==
  ASSUME IInv, family = "windows", OwnerActs
  PROVE  /\ published'.current # None => AllName(published.current)'
         /\ published'.at = "publish" /\ published'.ticket = "ok" => AllName(published.query)'
<1>0. /\ family \in Families /\ OwnerTyped /\ Once /\ Recorded /\ Applied /\ queue \in Seq(Calls)
  BY DEF IInv, OwnerTyped
<1>1. /\ role = "worker" /\ UNCHANGED <<disk, todo>> /\ Remembers
      /\ \E c \in Seq(Calls) : queue' = queue \o c /\ Queues(c)
  BY MemoryActs
<1>2. PICK c \in Seq(Calls) : queue' = queue \o c /\ Queues(c)
  BY <1>1
<1>3. Versions' \subseteq Versions
  BY <1>1, VersionsSame
<1>4. ASSUME NEW q, AllName(q), \A i \in 1..Len(c) : Publishing(c[i]) => q \in NamedIn(c[i])
      PROVE  AllName(q)'
  <2>1. /\ \A v \in Versions' : v # Absent /\ q \in NamesOf(v)
        /\ \A i \in 1..Len(queue) : Publishing(queue[i]) => q \in NamedIn(queue[i])
    BY <1>3, <1>4 DEF AllName
  <2>2. PICK r, u : r = queue /\ u = r \o c
    OBVIOUS
  <2>3. \A i \in 1..Len(u) :
          \/ i \in 1..Len(r) /\ u[i] = r[i]
          \/ i - Len(r) \in 1..Len(c) /\ u[i] = c[i - Len(r)]
    BY <1>0, <2>2, QueueGrown
  <2>4. \A i \in 1..Len(u) : Publishing(u[i]) => q \in NamedIn(u[i])
    BY <1>4, <2>1, <2>2, <2>3
  <2>5. \A i \in 1..Len(queue') : Publishing(queue'[i]) => q \in NamedIn(queue'[i])
    BY <1>2, <2>2, <2>4
  <2>. QED
    BY <2>1, <2>5 DEF AllName, Publishing, NamedIn
<1>5. \A i \in 1..Len(c) : Publishing(c[i]) =>
        published.at # "publish" /\ (published.current # None => published.current \in NamedIn(c[i]))
  BY <1>2 DEF Queues
<1>6. PICK p, q, o : p = published'.current /\ q = published'.query /\ o = published.current
  OBVIOUS
<1>7. (AllName(p)' => AllName(published.current)') /\ (AllName(q)' => AllName(published.query)')
  BY <1>6 DEF AllName
<1>8. p = o \/ (published.at = "publish" /\ published.ticket = "ok" /\ p = published.query)
  BY <1>1, <1>6 DEF Remembers
<1>9. published'.at = "publish" /\ published'.ticket = "ok" =>
        published.at = "publish" /\ published.ticket = "ok" /\ q = published.query
  <2>1. published.at = "publish" => published.checkpoint = None
    BY <1>0, AppliedParts
  <2>. QED
    BY <1>1, <1>6, <2>1 DEF Remembers, None
<1>10. p # None => AllName(p)'
  <2>1. CASE p = o
    <3>1. p # None => AllName(p) /\ \A i \in 1..Len(c) : Publishing(c[i]) => p \in NamedIn(c[i])
      BY <1>0, <1>1, <1>5, <1>6, <2>1, RecordedParts
    <3>. QED
      BY <1>4, <3>1
  <2>2. CASE published.at = "publish" /\ published.ticket = "ok" /\ p = published.query
    <3>1. AllName(p)
      BY <1>0, <1>1, <2>2, RecordedParts
    <3>. QED
      BY <1>4, <1>5, <2>2, <3>1
  <2>. QED
    BY <1>8, <2>1, <2>2
<1>11. ASSUME published'.at = "publish", published'.ticket = "ok"  PROVE AllName(q)'
  <2>1. published.at = "publish" /\ AllName(q)
    BY <1>0, <1>1, <1>9, <1>11, RecordedParts
  <2>. QED
    BY <1>4, <1>5, <2>1
<1>. QED
  BY <1>6, <1>7, <1>10, <1>11

\* Which publications are still to come.
Coming ==
  /\ published.at = "publish" =>
       /\ \A i \in 1..Len(queue) : Pending(queue[i], published.query) =>
            \A j \in (i + 1)..Len(queue) : ~Publishing(queue[j])
       /\ Pending(job, published.query) => \A i \in 1..Len(queue) : ~Publishing(queue[i])
  /\ published.at = "observe" =>
       /\ ~Pending(job, published.query)
       /\ \A i \in 1..Len(queue) : ~Pending(queue[i], published.query)

\* A pending record is published.
LEMMA PendingIs ==
  ASSUME NEW call, NEW q, Pending(call, q)
  PROVE  Publishing(call) /\ call.state = "pending" /\ call.candidate = q /\ call # Idle
BY NoOps DEF Pending, Publishing

\* A step of the writer keeps what is to come in order.
LEMMA WriterComing ==
  ASSUME IInv, Next, family = "windows", role = "worker", ~OwnerActs
  PROVE  Coming'
<1>0. /\ Recorded /\ OwnerTyped /\ queue \in Seq(Calls)
  BY DEF IInv, OwnerTyped
<1>1. published'.query = published.query /\ published'.at = published.at
  BY MemoryStays
<1>2. PICK q, at : q = published.query /\ at = published.at
  OBVIOUS
<1>3. /\ at = "publish" =>
           /\ \A i \in 1..Len(queue) : Pending(queue[i], q) => \A j \in (i + 1)..Len(queue) : ~Publishing(queue[j])
           /\ Pending(job, q) => \A i \in 1..Len(queue) : ~Publishing(queue[i])
      /\ at = "observe" => ~Pending(job, q) /\ \A i \in 1..Len(queue) : ~Pending(queue[i], q)
  BY <1>0, <1>2, RecordedParts
<1>4. ~Pending(Idle, q)
  BY PendingIs
<1>5. /\ at = "publish" =>
           /\ \A i \in 1..Len(queue') : Pending(queue'[i], q) => \A j \in (i + 1)..Len(queue') : ~Publishing(queue'[j])
           /\ Pending(job', q) => \A i \in 1..Len(queue') : ~Publishing(queue'[i])
      /\ at = "observe" => ~Pending(job', q) /\ \A i \in 1..Len(queue') : ~Pending(queue'[i], q)
  <2>1. CASE Take
    <3>1. PICK r, u : r = queue /\ u = Tail(r)
      OBVIOUS
    <3>2. queue # <<>> /\ queue' = u
      BY <1>0, <2>1, <3>1, TakeIs
    <3>3. /\ Len(u) = Len(r) - 1 /\ Len(r) \in Nat /\ 1 \in 1..Len(r)
          /\ \A k \in 1..Len(u) : u[k] = r[k + 1] /\ k + 1 \in 1..Len(r) /\ k + 1 \in (1 + 1)..Len(r)
      BY <1>0, <3>1, <3>2, QueueTaken
    <3>4. job' \in {job, Idle, r[1]}
      BY <3>1, JobIs
    <3>5. /\ at = "publish" =>
               /\ \A i \in 1..Len(r) : Pending(r[i], q) => \A j \in (i + 1)..Len(r) : ~Publishing(r[j])
               /\ Pending(job, q) => \A i \in 1..Len(r) : ~Publishing(r[i])
          /\ at = "observe" => ~Pending(job, q) /\ \A i \in 1..Len(r) : ~Pending(r[i], q)
      BY <1>3, <3>1
    <3>6. ASSUME at = "publish", NEW i \in 1..Len(u), Pending(u[i], q), NEW j \in (i + 1)..Len(u)
          PROVE  ~Publishing(u[j])
      <4>1. i + 1 \in 1..Len(r) /\ Pending(r[i + 1], q)
        BY <3>3, <3>6
      <4>2. j \in 1..Len(u) /\ j + 1 \in ((i + 1) + 1)..Len(r)
        BY <3>3, <3>6
      <4>. QED
        BY <3>3, <3>5, <3>6, <4>1, <4>2
    <3>7. at = "publish" /\ Pending(job', q) => \A i \in 1..Len(u) : ~Publishing(u[i])
      BY <1>4, <3>3, <3>4, <3>5
    <3>8. at = "observe" => ~Pending(job', q) /\ \A i \in 1..Len(u) : ~Pending(u[i], q)
      BY <1>4, <3>3, <3>4, <3>5
    <3>. QED
      BY <3>2, <3>6, <3>7, <3>8
  <2>2. CASE ~Take
    <3>1. queue' = queue \/ queue' = <<>>
      BY <2>2, QueueStays
    <3>2. job' = job \/ job' = Idle
      BY <2>2, JobIs
    <3>3. CASE queue' = <<>>
      BY <1>3, <1>4, <3>2, <3>3
    <3>4. CASE queue' = queue
      BY <1>3, <1>4, <3>2, <3>4
    <3>. QED
      BY <3>1, <3>3, <3>4
  <2>. QED
    BY <2>1, <2>2
<1>. QED
  BY <1>1, <1>2, <1>5 DEF Coming, Pending, Publishing

\* So does an act of the owner.
LEMMA OwnerComing ==
  ASSUME IInv, family = "windows", OwnerActs
  PROVE  Coming'
<1>0. /\ OwnerTyped /\ Once /\ Recorded /\ Applied /\ queue \in Seq(Calls)
  BY DEF IInv, OwnerTyped
<1>1. /\ role = "worker" /\ UNCHANGED job /\ Remembers
      /\ \E c \in Seq(Calls) : queue' = queue \o c /\ Queues(c)
  BY MemoryActs
<1>2. PICK c \in Seq(Calls) : queue' = queue \o c /\ Queues(c)
  BY <1>1
<1>3. PICK r, u, q, at : r = queue /\ u = r \o c /\ q = published'.query /\ at = published'.at
  OBVIOUS
<1>4. /\ Len(u) = Len(r) + Len(c) /\ Len(r) \in Nat /\ Len(c) \in Nat
      /\ \A i \in 1..Len(u) :
           \/ i \in 1..Len(r) /\ u[i] = r[i]
           \/ i - Len(r) \in 1..Len(c) /\ u[i] = c[i - Len(r)] /\ i > Len(r)
  BY <1>0, <1>3, QueueGrown
<1>5. \A i \in 1..Len(c) : Publishing(c[i]) =>
        published.at # "publish" /\ (c[i].state = "pending" => i = Len(c) /\ at = "publish" /\ published.at = "observe")
  BY <1>2, <1>3 DEF Queues
<1>6. /\ published.at = "publish" =>
           /\ \A i \in 1..Len(r) : Pending(r[i], published.query) => \A j \in (i + 1)..Len(r) : ~Publishing(r[j])
           /\ Pending(job, published.query) => \A i \in 1..Len(r) : ~Publishing(r[i])
      /\ published.at = "observe" =>
           ~Pending(job, published.query) /\ \A i \in 1..Len(r) : ~Pending(r[i], published.query)
  BY <1>0, <1>1, <1>3, RecordedParts
<1>7. at = "publish" =>
        \/ published.at = "publish" /\ q = published.query
        \/ published.at = "observe" /\ q = published.query
  BY <1>1, <1>3 DEF Remembers, None
<1>8. at = "observe" =>
        \/ published.at = "observe" /\ q = published.query
        \/ q \notin made
  BY <1>1, <1>3 DEF Remembers, None
<1>9. /\ \A i \in 1..Len(r) : Publishing(r[i]) => r[i].candidate \in made
      /\ Publishing(job) => job.candidate \in made
  BY <1>0, <1>1, <1>3, OnceParts, MemoryActs
<1>10. ASSUME at = "publish"
       PROVE  /\ \A i \in 1..Len(u) : Pending(u[i], q) => \A j \in (i + 1)..Len(u) : ~Publishing(u[j])
              /\ Pending(job, q) => \A i \in 1..Len(u) : ~Publishing(u[i])
  <2>1. CASE published.at = "publish" /\ q = published.query
    <3>1. \A i \in 1..Len(c) : ~Publishing(c[i])
      BY <1>5, <2>1
    <3>2. ASSUME NEW i \in 1..Len(u), Pending(u[i], q), NEW j \in (i + 1)..Len(u)  PROVE ~Publishing(u[j])
      <4>1. j \in 1..Len(u)
        BY <1>4
      <4>2. i \in 1..Len(r) /\ u[i] = r[i]
        BY <1>4, <3>1, <3>2, PendingIs
      <4>3. CASE j \in 1..Len(r) /\ u[j] = r[j]
        <5>1. j \in (i + 1)..Len(r)
          BY <1>4, <4>2, <4>3
        <5>. QED
          BY <1>6, <2>1, <3>2, <4>2, <4>3, <5>1
      <4>4. CASE j - Len(r) \in 1..Len(c) /\ u[j] = c[j - Len(r)]
        BY <3>1, <4>4
      <4>. QED
        BY <1>4, <4>1, <4>3, <4>4
    <3>3. Pending(job, q) => \A i \in 1..Len(u) : ~Publishing(u[i])
      BY <1>4, <1>6, <2>1, <3>1
    <3>. QED
      BY <3>2, <3>3
  <2>2. CASE published.at = "observe" /\ q = published.query
    <3>1. ~Pending(job, q) /\ \A i \in 1..Len(r) : ~Pending(r[i], q)
      BY <1>6, <2>2
    <3>2. ASSUME NEW i \in 1..Len(u), Pending(u[i], q), NEW j \in (i + 1)..Len(u)  PROVE FALSE
      <4>1. i - Len(r) \in 1..Len(c) /\ u[i] = c[i - Len(r)]
        BY <1>4, <3>1, <3>2
      <4>2. i - Len(r) = Len(c)
        BY <1>5, <3>2, <4>1, PendingIs
      <4>3. (i + 1)..Len(u) = {}
        BY <1>4, <4>2
      <4>. QED
        BY <3>2, <4>3
    <3>. QED
      BY <3>1, <3>2
  <2>. QED
    BY <1>7, <1>10, <2>1, <2>2
<1>11. ASSUME at = "observe"
       PROVE  ~Pending(job, q) /\ \A i \in 1..Len(u) : ~Pending(u[i], q)
  <2>1. \A i \in 1..Len(c) : ~Pending(c[i], q)
    BY <1>5, <1>11, PendingIs
  <2>2. ~Pending(job, q) /\ \A i \in 1..Len(r) : ~Pending(r[i], q)
    <3>1. CASE published.at = "observe" /\ q = published.query
      BY <1>6, <3>1
    <3>2. CASE q \notin made
      BY <1>9, <3>2, PendingIs
    <3>. QED
      BY <1>8, <1>11, <3>1, <3>2
  <2>. QED
    BY <1>4, <2>1, <2>2
<1>12. queue' = u /\ job' = job
  BY <1>1, <1>2, <1>3
<1>. QED
  BY <1>3, <1>10, <1>11, <1>12 DEF Coming, Pending, Publishing

\* What memory took over, every version of the record names.
LEMMA RecordedStep ==
  ASSUME IInv, Next
  PROVE  Recorded'
<1>0. /\ OwnerTyped /\ Staffed /\ Applied /\ family' = family
  BY NextFrame DEF IInv
<1>1. SUFFICES ASSUME family = "windows", role' = "worker"  PROVE Recorded'
  BY <1>0 DEF Recorded
<1>2. CASE role = "worker" /\ ~WorkerStarts /\ ~PowerLoss
  <2>1. /\ published'.current # None => AllName(published.current)'
        /\ published'.at = "publish" /\ published'.ticket = "ok" => AllName(published.query)'
    BY <1>1, <1>2, OwnerNames, WriterNames
  <2>2. Coming'
    BY <1>1, <1>2, OwnerComing, WriterComing
  <2>3. Publishing(job') =>
          /\ \A k \in 1..Len(todo') : Puts(k, AppRecord)' => job'.candidate \in NamesOf(todo'[k].value)
          /\ \/ \E k \in 1..Len(todo') : Puts(k, AppRecord)'
             \/ Visible(AppRecord)' /\ job'.candidate \in NamesOf(disk'[AppRecord].now)
    <3>1. PICK d : d = job'.candidate
      OBVIOUS
    <3>. QED
      BY <1>1, <1>2, <3>1, WritingStep
  <2>4. Publishing(job)' <=> Publishing(job')
    BY DEF Publishing
  <2>. QED
    BY <2>1, <2>2, <2>3, <2>4 DEF Recorded, Coming
<1>3. CASE role = "created" /\ job' = job /\ ~Busy /\ published' = published
  <2>1. published.at = None /\ published.current = None
    BY <1>0, <1>1, <1>3, AppliedParts
  <2>2. job' = Idle
    BY <1>3 DEF Busy
  <2>3. published'.at # "publish" /\ published'.at # "observe" /\ published'.current = None /\ ~Publishing(job)'
    BY <1>3, <2>1, <2>2, NoOps DEF Publishing, None
  <2>. QED
    BY <2>3 DEF Recorded
<1>. QED
  BY <1>1, <1>2, <1>3, WorkerBefore

(***************************************************************************)
(* The invariant, and what follows from it.                                *)
(***************************************************************************)
\* The disk when the creator begins: at most the directory of an earlier generation.
LEMMA InitDisk ==
  ASSUME Init
  PROVE  /\ DiskInv /\ family \in Families /\ \A x \in Paths : acked[x] = Absent /\ disk[x].safe = Absent
         /\ \A x \in Paths : x # Generations => disk[x].now = Absent
<1>1. family \in Families /\ acked = [p \in Paths |-> Absent]
  BY DEF Init
<1>2. PICK before \in {Absent, Dir} :
        disk = [p \in Paths |-> [now |-> IF p = Generations THEN before ELSE Absent, safe |-> Absent]]
  BY DEF Init
<1>3. \A x \in Paths : /\ acked[x] = Absent /\ disk[x].safe = Absent
                       /\ disk[x].now = IF x = Generations THEN before ELSE Absent
  BY <1>1, <1>2
<1>4. \A x \in Paths : disk[x].now \in MayHold(x) /\ disk[x].safe \in MayHold(x) /\ acked[x] \in MayHold(x)
  <2>1. Holds(Generations) = {Dir}
    BY KindsOf, HoldsBy
  <2>. QED
    BY <1>3, <2>1 DEF MayHold
<1>5. disk \in [Paths -> [now : Values, safe : Values]] /\ acked \in [Paths -> Values]
  BY <1>1, <1>2 DEF Values
<1>6. DiskTyped
  BY <1>4, <1>5 DEF DiskTyped
<1>7. Linked
  <2>1. SUFFICES ASSUME NEW x \in Paths, Visible(x)  PROVE \A d \in Needs(x) : disk[d].safe # Absent
    BY <1>3 DEF Linked
  <2>2. x = Generations
    BY <1>3, <2>1 DEF Visible
  <2>. QED
    BY <2>2, NeedsAre
<1>8. Kept
  BY <1>3 DEF Kept
<1>. QED
  BY <1>1, <1>3, <1>6, <1>7, <1>8 DEF DiskInv

\* What the creator is to make is the layout, with no record of a request or an application.
LEMMA CreateMakes ==
  ASSUME family \in Families, \A x \in Paths : acked[x] = Absent, NEW k \in 1..Len(Create), Makes(Create[k])
  PROVE  /\ Create[k].value.kind \in {"dir", "file", "manifest"} /\ Create[k].path # AppRecord
         /\ Create[k].path = Manifest => k = Len(Create) - 1 /\ Create[k].value = StartingManifest
<1>1. PICK s : s = Create[k]
  OBVIOUS
<1>2. /\ s.path \in {Generations, Generation, Manifest} \cup Layout
      /\ s.path = Manifest => k = Len(Create) - 1 /\ s.value = StartingManifest
  BY <1>1, CreateGood
<1>3. s.value \in Holds(s.path)
  <2>1. StepOK(Create, k)
    BY CreateGood DEF Good
  <2>. QED
    BY <1>1, <2>1 DEF StepOK
<1>4. KindOf(s.path) \in {"dir", "file", "manifest"} /\ KindOf(AppRecord) = "app"
  BY <1>2, KindsOf DEF Layout
<1>5. s.value.kind = KindOf(s.path)
  BY <1>3, HoldsAre
<1>. QED
  BY <1>1, <1>2, <1>4, <1>5

\* The invariant holds when the creator begins.
LEMMA InitInv ==
  ASSUME Init
  PROVE  IInv
<1>1. /\ DiskInv /\ family \in Families /\ \A x \in Paths : acked[x] = Absent /\ disk[x].safe = Absent
      /\ \A x \in Paths : x # Generations => disk[x].now = Absent
  BY InitDisk
<1>2. /\ todo = Create /\ job = Creating /\ queue = <<>> /\ known = FALSE /\ role = "creator" /\ faults = 0
      /\ tickets = [n \in 1..Attempts |-> None] /\ made = {} /\ life = "up" /\ early = None
      /\ published = [current |-> None, previous |-> None, query |-> None, at |-> None,
                      ticket |-> None, checkpoint |-> None]
  BY DEF Init, Creating
<1>3. /\ Good(Create) /\ Answered(Create, Manifest)
  BY <1>1, CreateGood
<1>4. Creating.op = "create" /\ Creating # Idle /\ Target(Creating) = Manifest /\ ~Ends(Creating)
  BY DEF Creating, Idle, None, Target, Ends
<1>5. \A k \in 1..Len(todo) : Makes(todo[k]) =>
        /\ todo[k].value.kind \in {"dir", "file", "manifest"} /\ todo[k].path # AppRecord
        /\ todo[k].path = Manifest => k = Len(Create) - 1 /\ todo[k].value = StartingManifest
  BY <1>1, <1>2, CreateMakes
<1>6. OwnerTyped
  <2>1. published \in Remembered
    BY <1>2 DEF Remembered, Answers, Named
  <2>2. known \in BOOLEAN
    BY <1>2
  <2>3. queue \in Seq(Calls)
    BY <1>2
  <2>4. tickets \in [1..Attempts -> Answers] /\ faults \in 0..Faults
    BY <1>2, StoreAssumption DEF Answers
  <2>. QED
    BY <1>1, <1>2, <2>1, <2>2, <2>3, <2>4 DEF OwnerTyped
<1>7. Staffed
  BY <1>2, <1>4 DEF Staffed, Busy, None
<1>8. CallInv
  BY <1>2, <1>3, <1>4 DEF CallInv, Busy
<1>9. Last
  <2>1. SUFFICES ASSUME family = "request"  PROVE Last
    BY DEF Last
  <2>2. \A n \in 1..Attempts : disk[Record(n)].now = Absent /\ disk[Allocated(n)].now = Absent
    <3>1. \A n : Record(n) # Generations /\ Allocated(n) # Generations
      BY KindsOf
    <3>. QED
      BY <1>1, <2>1, <3>1, PathsAre
  <2>3. ~Terminal(Absent) /\ ~Settled(Absent)
    BY DEF Terminal, Settled, Absent
  <2>4. \A k \in 1..Len(todo) : Makes(todo[k]) => ~Terminal(todo[k].value) /\ ~Settled(todo[k].value)
    BY <1>5 DEF Terminal, Settled
  <2>5. ~Over /\ ~Closed
    BY <1>2, <1>4, <2>2, <2>3, <2>4 DEF Over, Closed
  <2>. QED
    BY <1>2, <2>5 DEF Last
<1>10. Failures
  <2>1. disk[Manifest].now = Absent
    <3>1. Manifest # Generations
      BY KindsOf
    <3>. QED
      BY <1>1, <3>1, PathsAre
  <2>2. Blames(StartingManifest) /\ StartingManifest.cleanup = "not_started"
    BY <1>2 DEF Blames, StartingManifest
  <2>3. \A k : Puts(k, Manifest) => k = Len(Create) - 1 /\ todo[k].value = StartingManifest
    BY <1>5 DEF Puts
  <2>4. \A k \in 1..Len(todo) : Puts(k, Manifest) =>
          /\ Blames(todo[k].value) /\ todo[k].value.cleanup # "complete"
          /\ \A l \in 1..Len(todo) : Puts(l, Manifest) => l = k
    BY <2>2, <2>3
  <2>. QED
    BY <1>2, <2>1, <2>4 DEF Failures
<1>11. /\ Recoverable(None) /\ published.current = None /\ published.previous = None /\ published.at = None
       /\ published.ticket = None /\ published.checkpoint = None
  BY <1>2 DEF Recoverable
<1>12. Applied
  <2>1. SUFFICES ASSUME family = "windows"  PROVE Applied
    BY DEF Applied
  <2>2. \A v \in Versions : v = Absent
    <3>1. AppRecord # Generations
      BY KindsOf
    <3>2. disk[AppRecord].now = Absent /\ disk[AppRecord].safe = Absent
      BY <1>1, <2>1, <3>1, PathsAre
    <3>3. \A k : ~Puts(k, AppRecord)
      BY <1>5 DEF Puts
    <3>. QED
      BY <3>2, <3>3, VersionIs
  <2>. QED
    BY <1>2, <1>11, <2>2 DEF Applied, None
<1>13. Once
  <2>1. AppRecord \in Paths => acked[AppRecord] = Absent
    BY <1>1
  <2>2. family = "windows" => acked[AppRecord] = Absent
    BY <1>1, <2>1, PathsAre
  <2>3. job.op = "create" /\ ~InUse(job) /\ ~Publishing(job)
    BY <1>2, <1>4, NoOps
  <2>. QED
    BY <1>2, <1>11, <2>2, <2>3 DEF Once
<1>14. Recorded
  BY <1>2 DEF Recorded
<1>. QED
  BY <1>1, <1>6, <1>7, <1>8, <1>9, <1>10, <1>12, <1>13, <1>14 DEF IInv

\* A step that changes nothing.
LEMMA StutterInv ==
  ASSUME IInv, UNCHANGED vars
  PROVE  IInv'
<1>1. UNCHANGED <<disk, acked, known, todo, job, queue, role, faults, family, tickets, made, published, life, early>>
  BY DEF vars, fs, owner
<1>2. DiskInv'
  BY <1>1, DiskFrame DEF IInv
<1>3. CallInv'
  BY <1>1, CallFrame DEF IInv
<1>4. OwnerTyped' /\ Staffed'
  BY <1>1 DEF IInv, OwnerTyped, Staffed, Paths, Calls, Busy
<1>5. Last'
  BY <1>1 DEF IInv, Last, Over, Closed
<1>6. Failures'
  BY <1>1 DEF IInv, Failures, Puts, Blames
<1>7. Applied'
  BY <1>1 DEF IInv, Applied, Versions, Puts, Readable, Recoverable
<1>8. Once'
  BY <1>1 DEF IInv, Once
<1>9. Recorded'
  BY <1>1 DEF IInv, Recorded, AllName, Versions, Puts, Visible
<1>. QED
  BY <1>2, <1>3, <1>4, <1>5, <1>6, <1>7, <1>8, <1>9 DEF IInv

\* The invariant is one.
THEOREM StoreInvariant == Spec => []IInv
<1>1. ASSUME IInv, [Next]_vars  PROVE IInv'
  <2>1. CASE Next
    <3>1. DiskInv' /\ CallInv' /\ \A x \in Paths : acked[x] # Absent => acked'[x] # Absent
      BY <1>1, <2>1, DiskStep
    <3>2. OwnerTyped'
      BY <1>1, <2>1, OwnerStep
    <3>3. Staffed'
      BY <1>1, <2>1, <3>1, <3>2, StaffedStep
    <3>. QED
      BY <1>1, <2>1, <3>1, <3>2, <3>3, LastStep, FailuresStep, AppliedStep, OnceStep,
           RecordedStep DEF IInv
  <2>2. CASE UNCHANGED vars
    BY <1>1, <2>2, StutterInv
  <2>. QED
    BY <1>1, <2>1, <2>2
<1>. QED
  BY <1>1, InitInv, PTL DEF Spec

\* A record that was answered for is safe, in its revision or a later one, with every
\* directory above it.
LEMMA AckedStands ==
  ASSUME IInv, NEW p \in Paths, acked[p] # Absent
  PROVE  Survives(p, acked[p].rev) /\ disk[p].safe \in Holds(p)
<1>0. family \in Families /\ DiskTyped /\ Linked /\ Kept
  BY DEF IInv, OwnerTyped, DiskInv
<1>1. disk[p].safe # Absent /\ disk[p].safe.rev >= acked[p].rev
  BY <1>0 DEF Kept
<1>2. Visible(p)
  BY <1>0, <1>1 DEF Linked
<1>3. Standing(p)
  BY <1>0, <1>2, VisibleStands
<1>. QED
  BY <1>0, <1>1, <1>3, DiskAt DEF Survives

\* DiskTrue: whatever step fails, whoever is killed and whatever a power loss keeps, a
\* record whose call succeeded is there in that revision or a later one (mkdir_durable,
\* _write), and every path holds what belongs there.
THEOREM StoreDiskTrue == Spec => []DiskTrue
<1>1. IInv => DiskTrue
  <2>1. SUFFICES ASSUME IInv  PROVE DiskTrue
    OBVIOUS
  <2>2. OwnerTyped /\ DiskTyped /\ CallInv /\ published \in Remembered
    BY <2>1 DEF IInv, DiskInv, OwnerTyped
  <2>3. \A p \in Paths : {disk[p].now.kind, disk[p].safe.kind} \subseteq {KindOf(p), "absent"}
    <3>1. SUFFICES ASSUME NEW p \in Paths, NEW v \in MayHold(p)  PROVE v.kind \in {KindOf(p), "absent"}
      BY <2>2 DEF DiskTyped
    <3>2. CASE v = Absent
      BY <3>2 DEF Absent
    <3>3. CASE v \in Holds(p)
      BY <3>3, HoldsAre
    <3>. QED
      BY <3>1, <3>2, <3>3 DEF MayHold
  <2>4. DOMAIN disk = Paths /\ DOMAIN acked = Paths
    BY <2>2 DEF DiskTyped
  <2>5. published.at \in {None, "observe", "publish"}
    BY <2>2 DEF Remembered
  <2>6. ~Busy => todo = <<>>
    BY <2>2 DEF CallInv
  <2>7. TypeOK
    BY <2>2, <2>3, <2>4, <2>5, <2>6 DEF TypeOK, OwnerTyped
  <2>8. AckedSurvives
    BY <2>1, AckedStands DEF AckedSurvives
  <2>. QED
    BY <2>7, <2>8 DEF DiskTrue
<1>. QED
  BY <1>1, StoreInvariant, PTL

\* ManifestMeansWhole: a manifest that can be found has the whole layout beside it, for
\* sure: Store(create=True) writes it last, and nothing takes the layout away.
THEOREM StoreManifestMeansWhole == Spec => []ManifestMeansWhole
<1>1. IInv => ManifestMeansWhole
  <2>1. SUFFICES ASSUME IInv, Visible(Manifest), NEW p \in Layout  PROVE Standing(p) /\ disk[p].safe # Absent
    BY DEF ManifestMeansWhole
  <2>2. family \in Families /\ DiskTyped /\ Linked
    BY <2>1 DEF IInv, OwnerTyped, DiskInv
  <2>3. Manifest \in Paths /\ p \in Paths
    BY <2>1, <2>2, PathsAre
  <2>4. disk[p].safe # Absent
    BY <2>1, <2>2, <2>3, NeedsAre DEF Linked
  <2>5. Visible(p)
    BY <2>2, <2>3, <2>4 DEF Linked
  <2>. QED
    BY <2>2, <2>3, <2>4, <2>5, VisibleStands
<1>. QED
  BY <1>1, StoreInvariant, PTL

\* The references that are read back are those that are named.
LEMMA ReadBackNames ==
  ASSUME NEW v \in AppValues
  PROVE  /\ \A r \in ReadBack(v) : r.query \in NamesOf(v)
         /\ \A q \in NamesOf(v) : \E r \in ReadBack(v) : r.query = q
         /\ NamesOf(v) \subseteq Named
<1>1. /\ v.confirmed \in References /\ v.previous \in References /\ v.candidate \in References
      /\ v.windows \in Named
  BY AppShape
<1>2. \A r \in References : r.query \in Named /\ [r EXCEPT !.windows = v.windows].query = r.query
  BY DEF References
<1>3. PICK a, b, c : /\ a = [v.confirmed EXCEPT !.windows = v.windows]
                     /\ b = IF v.publication = "pending" THEN [v.previous EXCEPT !.windows = v.windows] ELSE v.previous
                     /\ c = IF v.publication # "pending" THEN [v.candidate EXCEPT !.windows = v.windows] ELSE v.candidate
  OBVIOUS
<1>4. ReadBack(v) = {a, b, c}
  BY <1>3 DEF ReadBack
<1>5. a.query = v.confirmed.query /\ b.query = v.previous.query /\ c.query = v.candidate.query
  BY <1>1, <1>2, <1>3
<1>. QED
  BY <1>1, <1>2, <1>4, <1>5 DEF NamesOf

\* WindowsTrue: every observation that a version of the application's record names can be
\* read back with its windows, and what status answers from memory is named by the record
\* on the disk (publish_windows, checkpoint_windows, application_read).
THEOREM StoreWindowsTrue == Spec => []WindowsTrue
<1>1. IInv => WindowsTrue
  <2>1. SUFFICES ASSUME IInv  PROVE WindowsTrue
    OBVIOUS
  <2>2. family \in Families /\ DiskInv /\ CallInv /\ Good(todo) /\ Applied /\ Recorded
    BY <2>1 DEF IInv, OwnerTyped, CallInv
  <2>3. ASSUME family = "windows", NEW v \in Versions, v # Absent
        PROVE  v \in AppValues /\ Restored(v) /\ \A q \in NamesOf(v) : Recoverable(q)
    BY <2>2, <2>3, VersionsAre, AppliedParts DEF Readable
  <2>4. WindowsRecoverable
    <3>1. SUFFICES ASSUME family = "windows", NEW v \in Records, NEW r \in ReadBack(v) \ {NoReference}
                   PROVE  r = Whole(r.query) /\ Survives(Observation(r.query), 1)
      BY DEF WindowsRecoverable
    <3>2. v \in Versions /\ v # Absent
      BY VersionIs DEF Records, Absent
    <3>3. v \in AppValues /\ Restored(v) /\ \A q \in NamesOf(v) : Recoverable(q)
      BY <2>3, <3>1, <3>2
    <3>4. PICK q : q = r.query
      OBVIOUS
    <3>5. r = Whole(q)
      BY <3>3, <3>4 DEF Restored
    <3>6. q # None
      BY <3>5 DEF Whole, NoReference
    <3>7. q \in NamesOf(v) /\ q \in Queries
      BY <3>3, <3>4, <3>6, ReadBackNames DEF Named
    <3>8. Observation(q) \in Paths /\ acked[Observation(q)] # Absent
      BY <2>2, <3>1, <3>3, <3>6, <3>7, PathsAre DEF Recoverable
    <3>9. disk[Observation(q)].safe \in {Plain}
      BY <2>1, <3>8, AckedStands, HoldsBy, KindsOf
    <3>10. Survives(Observation(q), 1)
      BY <2>1, <3>8, <3>9, AckedStands DEF Survives, Plain
    <3>. QED
      BY <3>4, <3>5, <3>10
  <2>5. PublishedIsRecorded
    <3>1. SUFFICES ASSUME family = "windows", role = "worker", published.current # None
                   PROVE  Whole(published.current) \in ReadBack(disk[AppRecord].safe)
      BY DEF PublishedIsRecorded
    <3>2. PICK q, v : q = published.current /\ v = disk[AppRecord].safe
      OBVIOUS
    <3>3. v \in Versions
      BY <3>2, VersionIs
    <3>4. v # Absent /\ q \in NamesOf(v)
      BY <2>2, <3>1, <3>2, <3>3, RecordedParts DEF AllName
    <3>5. v \in AppValues /\ Restored(v)
      BY <2>3, <3>1, <3>3, <3>4
    <3>6. PICK r \in ReadBack(v) : r.query = q
      BY <3>4, <3>5, ReadBackNames
    <3>7. r = Whole(q)
      BY <3>5, <3>6 DEF Restored
    <3>. QED
      BY <3>2, <3>6, <3>7
  <2>. QED
    BY <2>4, <2>5 DEF WindowsTrue
<1>. QED
  BY <1>1, StoreInvariant, PTL

\* FailureStands: the first failure a manifest was answered with stays the first, and a
\* complete record says failed when a failure is on record or was retained beside it
\* (generation_update, record_failure, the finalizer's classification).
THEOREM StoreFailureStands == Spec => FailureStands
<1>1. ASSUME IInv, [Next]_vars
      PROVE  [/\ acked[Manifest].kind = "manifest" /\ acked[Manifest].failure # None =>
                   acked'[Manifest].failure = acked[Manifest].failure
              /\ LET new == acked'[Manifest] IN
                   new # acked[Manifest] /\ new.cleanup = "complete" /\ (early # None \/ new.failure # None) =>
                     new.state = "failed" /\ new.outcome = "failed"]_vars
  <2>1. CASE UNCHANGED vars
    BY <2>1
  <2>2. CASE acked'[Manifest] = acked[Manifest]
    BY <2>2
  <2>3. CASE Next /\ acked'[Manifest] # acked[Manifest]
    <3>0. OwnerTyped /\ Staffed /\ DiskInv /\ Failures /\ family \in Families /\ Manifest \in Paths
      BY <1>1, PathsAre DEF IInv, OwnerTyped
    <3>1. Return
      <4>1. CASE Do \/ PowerLoss
        BY <2>3, <4>1 DEF Do, PowerLoss
      <4>. QED
        BY <2>3, <4>1, NextFrame
    <3>2. PICK m : m = disk[Manifest].now
      OBVIOUS
    <3>3. /\ acked'[Manifest] = m /\ m # Absent
      BY <1>1, <2>3, <3>0, <3>1, <3>2, ReturnAcks, ReturnManifest DEF Visible
    <3>4. family = "manifest" \/ role = "creator"
      BY <1>1, <2>3, <3>1, ReturnManifest
    <3>5. role # "over"
      BY <3>0, <3>1 DEF Return, Staffed
    <3>6. Blames(m)
      BY <3>0, <3>2, <3>3, <3>4, <3>5, FailureParts
    <3>7. acked[Manifest] # Absent /\ acked[Manifest].failure # None => m.failure = acked[Manifest].failure
      BY <3>0, <3>2, <3>3, <3>4, <3>5, FailureParts
    <3>8. acked[Manifest].kind = "manifest" => acked[Manifest] # Absent
      BY DEF Absent
    <3>. QED
      BY <3>3, <3>6, <3>7, <3>8 DEF Blames
  <2>. QED
    BY <1>1, <2>1, <2>2, <2>3
<1>. QED
  BY <1>1, StoreInvariant, PTL DEF Spec, FailureStands
=============================================================================
