------------------------------- MODULE Store -------------------------------
(***************************************************************************)
(* The generation's durable records (artifacts.Store) and the calls that   *)
(* write them: the manager that creates the store, the worker's writer     *)
(* thread with its queue, and the finalizer after it.                      *)
(*                                                                         *)
(* A path has two contents: what a process sees now, and what is sure to   *)
(* be there after a power loss.  Only an fsync of the directory makes them *)
(* one.  Any step of a call may fail, the process may be killed between    *)
(* two of them, and a power loss keeps of what is not synced any part.     *)
(* The processes write one after the other; nothing here is concurrent but *)
(* the owner that queues and the writer that works the queue.              *)
(***************************************************************************)
EXTENDS Naturals, Sequences, FiniteSets

CONSTANTS
  Attempts,  \* how many attempts of a request there can be (request tokens)
  Queries,   \* window queries of the session
  Faults,    \* failing steps, kills and power losses of a behaviour
  Families   \* the kinds of record a behaviour is about, one in each

ASSUME StoreAssumption ==
  /\ Attempts \in Nat \ {0} /\ Faults \in Nat /\ "none" \notin Queries
  /\ Families \subseteq {"manifest", "request", "windows"}

VARIABLES
  disk,      \* [now, safe] of every path
  acked,     \* what the last successful call on a path wrote
  todo,      \* the steps left of the call in progress
  job,       \* that call
  queue,     \* the journal: calls the writer has not taken
  known,     \* Store.observations_durable
  role,      \* the process that uses the store
  faults,    \* how many faults there were
  family,    \* the records this behaviour is about
  tickets,   \* request family: the request's tokens, in the order of submission
  made,      \* what the owner has queued already
  published, \* windows family: the registry's and the query's memory
  life,      \* the owner: up, failing (its failure is told), or quit
  early      \* the failure retained in startup-failure.json

fs    == <<disk, acked, known>>
owner == <<tickets, made, published, life, early>>
vars  == <<fs, todo, job, queue, role, faults, family, owner>>

None   == "none"
Absent == [kind |-> "absent", rev |-> 0]
Dir    == [kind |-> "dir", rev |-> 0]
Plain  == [kind |-> "file", rev |-> 1]

(***************************************************************************)
(* Paths, below the artifact root.                                         *)
(***************************************************************************)
\* A path is named for what it holds, with its attempt or its query.
Path(name, n, q) == [name |-> name, n |-> n, q |-> q]
In(name)    == Path(name, 0, None)
Root        == In("root")
Generations == In("generations")
Generation  == In("generation")
Group       == In("request")
Attempt(n)  == Path("attempt", n, None)
Record(n)   == Path("record", n, None)
Partial(n)  == Path("partial", n, None)
Allocated(n) == Path("allocated", n, None)
Launch(n)   == Path("launch", n, None)
App         == In("application")
Processes   == In("processes")
Process     == In("process")
AppRecord   == In("application-record")
Seen        == In("window-observations")
Observation(q) == Path("observation", 0, q)
Manifest    == In("manifest.json")
\* record_layout(), the lock, and the logs as one file.
Layout == {In("requests"), In("applications"), In("logs"), In("record.lock"),
           In("events.jsonl"), In("worker.log")}

PathsOf(f) ==
  {Generations, Generation, Manifest} \cup Layout
    \cup (IF f # "request" THEN {}
          ELSE {Group} \cup UNION {{Attempt(n), Record(n), Partial(n), Allocated(n), Launch(n)} : n \in 1..Attempts})
    \cup (IF f # "windows" THEN {}
          ELSE {App, Processes, Process, AppRecord, Seen} \cup {Observation(q) : q \in Queries})

\* The directory a path is in.
Parent(p) ==
  CASE p.name \in {"root", "generations"} -> Root
    [] p.name = "generation" -> Generations
    [] p.name = "worker.log" -> In("logs")
    [] p.name = "request" -> In("requests")
    [] p.name = "attempt" -> Group
    [] p.name \in {"record", "partial", "allocated", "launch"} -> Attempt(p.n)
    [] p.name = "application" -> In("applications")
    [] p.name \in {"processes", "application-record"} -> App
    [] p.name = "process" -> Processes
    [] p.name = "observation" -> Seen
    [] OTHER -> Generation
Grandparent(p) == Parent(Parent(p))
Above(p) == LET d4 == Grandparent(Grandparent(p))
            IN {Parent(p), Grandparent(p), Parent(Grandparent(p)), d4, Parent(d4)} \ {Root}

\* Constants, for TLC to work them out once.
PathsIn     == [f \in Families |-> PathsOf(f)]
AncestorsOf == [p \in UNION {PathsIn[f] : f \in Families} |-> Above(p)]

Paths        == PathsIn[family]
Ancestors(p) == AncestorsOf[p]
Visible(p)   == disk[p].now # Absent
Standing(p)  == \A d \in Ancestors(p) : disk[d].safe = Dir
\* Whatever a power loss keeps, p holds revision rev or a later one.
Survives(p, rev) == Standing(p) /\ disk[p].safe # Absent /\ disk[p].safe.rev >= rev

(***************************************************************************)
(* The steps of a call.  A temporary is written and fsynced under a name   *)
(* of its own before a "put" replaces the file.                            *)
(***************************************************************************)
Step(do, path, value) == [do |-> do, path |-> path, value |-> value]
Sync(directory)       == Step("sync", directory, Dir)

\* Mutant: an entry that is there needs no fsync.
MkdirNew(p) == IF Visible(p) THEN <<>> ELSE <<Step("mkdir", p, Dir), Sync(Parent(p))>>
\* mkdir_durable: the parent is synced though the entry is there, for a call that
\* made it may have failed or died before it could.
MkdirDurable(p) == <<Step("mkdir", p, Dir), Sync(Parent(p))>>
Exclusive(p)    == <<Step("create", p, Dir), Sync(Parent(p))>>
NewFile(p)      == <<Step("create", p, Plain), Sync(Parent(p))>>
Write(p, value) == <<Step("put", p, value), Sync(Parent(p))>>

StartingManifest ==
  [kind |-> "manifest", rev |-> 0, state |-> "starting", failure |-> None,
   outcome |-> "pending", cleanup |-> "not_started"]

\* Mutant: the manifest is there before the layout.
CreateManifestFirst ==
  MkdirDurable(Generations) \o Exclusive(Generation) \o Write(Manifest, StartingManifest)
    \o Exclusive(In("requests")) \o Exclusive(In("applications")) \o Exclusive(In("logs"))
    \o NewFile(In("record.lock")) \o NewFile(In("events.jsonl"))
    \o NewFile(In("worker.log"))

\* Store(create=True).  The root itself stands.
Create ==
  MkdirDurable(Generations) \o Exclusive(Generation)
    \o Exclusive(In("requests")) \o Exclusive(In("applications")) \o Exclusive(In("logs"))
    \o NewFile(In("record.lock")) \o NewFile(In("events.jsonl"))
    \o NewFile(In("worker.log"))
    \o Write(Manifest, StartingManifest)

(***************************************************************************)
(* What a call writes over what it reads.                                  *)
(***************************************************************************)
Now(p)  == disk[p].now
Next1(value) == [value EXCEPT !.rev = @ + 1]

\* Mutant: the latest failure counts.
LatestFailure(old, new) == IF new # None THEN new ELSE old
FirstFailure(old, new) == IF old # None THEN old ELSE new

\* generation_update.
Updated(m, call) ==
  LET failure  == FirstFailure(m.failure, call.failure)
      terminal == m.state \in {"stopped", "failed"}
      state    == IF call.state = None \/ (terminal /\ call.state \in {"running", "ready", "stopping"})
                  THEN m.state
                  ELSE IF failure # None THEN "failed" ELSE call.state
  IN [m EXCEPT !.rev = @ + 1, !.failure = failure, !.state = state,
               !.cleanup = IF call.cleanup = None THEN @ ELSE call.cleanup,
               !.outcome = IF failure # None THEN "failed"
                           ELSE IF state = "stopped" THEN "stopped" ELSE @]

NewRecord == [kind |-> "record", rev |-> 0, phase |-> "admitted", outcome |-> "pending"]
\* The windows themselves are kept once or twice: in the record's list, and in an
\* observation that is not a mere pointer.  A list is named by its query.
NoReference == [query |-> None, windows |-> None]
NewApp == [kind |-> "app", rev |-> 0, state |-> "prepared", windows |-> None, publication |-> None,
           confirmed |-> NoReference, previous |-> NoReference, candidate |-> NoReference]

Whole(q)   == [query |-> q, windows |-> q]
Pointer(q) == [query |-> q, windows |-> None]
\* _application_window_value: the confirmed observation stays named, with its list,
\* until the checkpoint.
Windows(value, call) ==
  LET final == call.state = "confirmed"
      now   == IF final THEN call.candidate ELSE call.previous
  IN [value EXCEPT !.rev = @ + 1, !.publication = call.state, !.windows = now,
                   !.confirmed = Pointer(now),
                   !.previous  = IF final THEN Whole(call.previous) ELSE Pointer(call.previous),
                   !.candidate = IF final THEN Pointer(call.candidate) ELSE Whole(call.candidate)]

\* application_read gives a pointer the record's list.
ReadBack(value) ==
  LET full(r, compact) == IF compact THEN [r EXCEPT !.windows = value.windows] ELSE r
  IN {full(value.confirmed, TRUE),
      full(value.previous, value.publication = "pending"),
      full(value.candidate, value.publication # "pending")}

\* window_observation.  The flag is cleared when the call begins, and set once the
\* link is synced.
Mark == Step("mark", Seen, Dir)
\* Mutant: it is set when the link is made.
PublicationMarked(q) ==
  (IF known /\ Visible(Seen) THEN <<>> ELSE <<Step("mkdir", Seen, Dir), Mark, Sync(Generation)>>)
    \o NewFile(Observation(q))
Publication(q) ==
  (IF known /\ Visible(Seen) THEN <<>> ELSE MkdirDurable(Seen)) \o <<Mark>> \o NewFile(Observation(q))

\* The calls that cannot begin: their token is not there, or the record says no.
Refused(call) ==
  \/ call.op \in {"transition", "allocate", "settle", "launch"} /\ tickets[call.n] # "ok"
  \/ call.op = "settle" /\ ~Visible(Allocated(call.n))
  \/ call.op \in {"app", "windows", "processes"} /\ ~Visible(AppRecord)
  \/ call.op = "launch" /\ Visible(Launch(call.n))

\* A terminal record, or a settled allocation, is final: the call returns.
Final(call) ==
  \/ call.op = "transition" /\ Now(Record(call.n)).phase = "terminal"
  \/ call.op = "settle" /\ Now(Allocated(call.n)).state # "allocated"

GenerationUpdate(call) == Write(Manifest, Updated(Now(Manifest), call))
\* These write fields of the manifest that no property is about.
WorkerIdentity        == Write(Manifest, Next1(Now(Manifest)))
Provenance            == Write(Manifest, Next1(Now(Manifest)))
SummarizeApplications == Write(Manifest, Next1(Now(Manifest)))
RequestAttempt(n) == MkdirDurable(Group) \o Exclusive(Attempt(n)) \o Write(Record(n), NewRecord)
Transition(call) ==
  Write(Record(call.n), [Next1(Now(Record(call.n))) EXCEPT !.phase = call.phase, !.outcome = call.outcome])
Allocate(n) ==
  NewFile(Partial(n)) \o Write(Allocated(n), [kind |-> "alloc", rev |-> 0, state |-> "allocated"])
ArtifactState(call) == Write(Allocated(call.n), [Next1(Now(Allocated(call.n))) EXCEPT !.state = call.state])
RecordLaunch(n)     == Write(Launch(n), Plain)
ApplicationPrepare  == Exclusive(App) \o Exclusive(Processes) \o Write(AppRecord, NewApp)
ApplicationUpdate(call)  == Write(AppRecord, [Next1(Now(AppRecord)) EXCEPT !.state = call.state])
ApplicationProcesses     == Write(Process, Plain)
ApplicationWindows(call) == Write(AppRecord, Windows(Now(AppRecord), call))

Steps(call) ==
  CASE call.op = "create"     -> Create
    [] call.op = "update"     -> GenerationUpdate(call)
    [] call.op = "identity"   -> WorkerIdentity
    [] call.op = "provenance" -> Provenance
    [] call.op = "summarize"  -> SummarizeApplications
    [] call.op = "request"    -> RequestAttempt(call.n)
    [] call.op = "transition" -> Transition(call)
    [] call.op = "allocate"   -> Allocate(call.n)
    [] call.op = "settle"     -> ArtifactState(call)
    [] call.op = "launch"     -> RecordLaunch(call.n)
    [] call.op = "prepare"    -> ApplicationPrepare
    [] call.op = "app"        -> ApplicationUpdate(call)
    [] call.op = "processes"  -> ApplicationProcesses
    [] call.op = "observe"    -> Publication(call.q)
    [] call.op = "windows"    -> ApplicationWindows(call)

\* The path whose content the call answers for.
Target(call) ==
  CASE call.op \in {"create", "update", "identity", "provenance", "summarize"} -> Manifest
    [] call.op \in {"request", "transition"} -> Record(call.n)
    [] call.op \in {"allocate", "settle"} -> Allocated(call.n)
    [] call.op = "launch" -> Launch(call.n)
    [] call.op \in {"prepare", "app", "windows"} -> AppRecord
    [] call.op = "processes" -> Process
    [] call.op = "observe" -> Observation(call.q)

(***************************************************************************)
(* The process that runs the calls: the creator, then the writer thread of *)
(* the worker, then finalizers.                                            *)
(***************************************************************************)
Idle == [op |-> None]
Init ==
  /\ family \in Families
  \* An earlier generation may have made the directory and not lived to sync it.
  /\ \E before \in {Absent, Dir} :
       disk = [p \in Paths |-> [now  |-> IF p = Generations THEN before ELSE Absent, safe |-> Absent]]
  /\ acked = [p \in Paths |-> Absent]
  /\ job = [op |-> "create"] /\ todo = Create
  /\ queue = <<>> /\ known = FALSE /\ role = "creator" /\ faults = 0
  /\ tickets = [n \in 1..Attempts |-> None] /\ made = {}
  /\ published = [current |-> None, previous |-> None, query |-> None, at |-> None,
                  ticket |-> None, checkpoint |-> None]
  /\ life = "up" /\ early = None

Busy == job # Idle

\* The answer of a call goes to whoever waits for it.
Told(call, ok) ==
  /\ tickets' = IF call.op = "request" THEN [tickets EXCEPT ![call.n] = IF ok THEN "ok" ELSE "failed"] ELSE tickets
  /\ published' = IF (call.op = "observe" /\ published.at = "observe" /\ published.query = call.q)
                     \/ (call.op = "windows" /\ call.state = "pending" /\ published.at = "publish"
                           /\ published.query = call.candidate)
                  THEN [published EXCEPT !.ticket = IF ok THEN "ok" ELSE "failed"] ELSE published
  \* A watched call that failed fails the session.
  /\ life' = IF ~ok /\ life = "up" /\ (call.op \in {"app", "processes"} \/ (call.op = "windows" /\ call.state = "confirmed"))
             THEN "failing" ELSE life
  /\ UNCHANGED <<made, early>>

\* The writer takes the oldest call; it reads what it will replace, under the lock.
Take ==
  /\ role = "worker" /\ ~Busy /\ queue # <<>>
  /\ queue' = Tail(queue)
  /\ LET call == Head(queue) IN
       IF Refused(call)
       THEN Told(call, FALSE) /\ UNCHANGED <<job, todo, known>>
       ELSE /\ job' = call
            /\ todo' = IF Final(call) THEN <<>> ELSE Steps(call)
            /\ known' = IF call.op = "observe" THEN FALSE ELSE known
            /\ UNCHANGED owner
  /\ UNCHANGED <<disk, acked, role, faults, family>>

Impossible(step) == step.do = "create" /\ Visible(step.path)

Effect(step) ==
  CASE step.do = "sync"  -> [p \in Paths |-> IF Parent(p) = step.path THEN [disk[p] EXCEPT !.safe = disk[p].now] ELSE disk[p]]
    [] step.do = "mark"  -> disk
    [] step.do = "mkdir" -> [disk EXCEPT ![step.path].now = Dir]
    [] OTHER             -> [disk EXCEPT ![step.path].now = step.value]

Do ==
  /\ Busy /\ todo # <<>> /\ ~Impossible(Head(todo))
  /\ disk' = Effect(Head(todo))
  /\ known' = (known \/ Head(todo).do = "mark")
  /\ todo' = Tail(todo)
  /\ UNCHANGED <<acked, job, queue, role, faults, family, owner>>

\* The call returns.
Return ==
  /\ Busy /\ todo = <<>>
  /\ acked' = [acked EXCEPT ![Target(job)] = Now(Target(job))]
  /\ Told(job, TRUE)
  /\ job' = Idle
  /\ role' = IF job.op = "create" THEN "created" ELSE role
  /\ UNCHANGED <<disk, known, todo, queue, faults, family>>

Struck == faults < Faults /\ faults' = faults + 1

\* An OSError in one step, of the lock, the mkdir, the replace or the fsync.
Fail ==
  /\ Busy /\ todo # <<>>
  /\ Struck
  /\ Told(job, FALSE)
  /\ job' = Idle /\ todo' = <<>>
  /\ role' = IF job.op = "create" THEN "over" ELSE role
  /\ UNCHANGED <<fs, queue, family>>

\* The next process starts only when this one has ended.
Ended == /\ job' = Idle /\ todo' = <<>> /\ queue' = <<>> /\ known' = FALSE
         /\ role' = IF role = "creator" THEN "over" ELSE "down"

Kill ==
  /\ role \in {"creator", "worker", "finalizer"} /\ Struck /\ Ended
  /\ UNCHANGED <<disk, acked, family, owner>>

PowerLoss ==
  /\ role # "over" /\ Struck
  /\ job' = Idle /\ todo' = <<>> /\ queue' = <<>> /\ known' = FALSE /\ role' = "over"
  /\ \E kept \in SUBSET {p \in Paths : disk[p].now # disk[p].safe} :
       LET left == [p \in Paths |-> IF p \in kept THEN disk[p].now ELSE disk[p].safe]
           there(p) == \A d \in Ancestors(p) : left[d] = Dir
       IN disk' = [p \in Paths |-> LET v == IF there(p) THEN left[p] ELSE Absent IN [now |-> v, safe |-> v]]
  /\ UNCHANGED <<acked, family, owner>>

(***************************************************************************)
(* The owner of the worker, and what it queues.                            *)
(***************************************************************************)
Complete == \A p \in Layout \cup {Manifest} : Visible(p)

\* Store(create=False): it validates, and repairs nothing.
Attach(next) == Complete /\ role' = next

WorkerStarts ==
  /\ role = "created" /\ Attach("worker")
  /\ queue' = IF family = "manifest" THEN <<[op |-> "identity"]>> ELSE <<>>
  /\ UNCHANGED <<fs, todo, job, faults, family, owner>>

Up(f) == role = "worker" /\ family = f /\ life = "up"
Queue(calls) == queue' = queue \o calls
Quiet == UNCHANGED <<fs, todo, job, role, faults, family>>

Update(state, failure, cleanup) ==
  [op |-> "update", state |-> state, failure |-> failure, cleanup |-> cleanup]

\* A change of readiness.
Readiness ==
  /\ Up("manifest") /\ "ready" \notin made
  /\ made' = made \cup {"ready"}
  /\ Queue(<<Update("ready", None, None), [op |-> "provenance"]>>)
  /\ UNCHANGED <<tickets, published, life, early>> /\ Quiet

\* record_failure: startup-failure.json, best effort, then the manifest.
RecordFailure ==
  /\ Up("manifest")
  /\ life' = "failing"
  /\ early' \in {None, "cause"}
  /\ Queue(<<Update("failed", "cause", "uncertain")>>)
  /\ UNCHANGED <<tickets, published, made>> /\ Quiet

\* The loop has returned: the terminal record is the last call.
Quit ==
  /\ role = "worker" /\ family = "manifest" /\ life # "quit"
  /\ life' = "quit"
  /\ Queue(<<IF life = "failing" THEN Update("failed", "session_failed", "uncertain")
             ELSE Update("stopped", None, "uncertain")>>)
  /\ UNCHANGED <<tickets, published, made, early>> /\ Quiet

\* Journal.close: the queue is worked off, and the process ends.
Exit ==
  /\ role = "worker" /\ queue = <<>> /\ ~Busy
  /\ family = "manifest" => life = "quit"
  /\ role' = "down" /\ known' = FALSE
  /\ UNCHANGED <<disk, acked, todo, job, queue, faults, family, owner>>

(***************************************************************************)
(* Records: the owner's side of one request.                               *)
(***************************************************************************)
Submitted == {n \in 1..Attempts : tickets[n] # None}
\* _ensure: the token, queued again only after a known failure.
Fresh  == Submitted = {} \/ tickets[Cardinality(Submitted)] = "failed"
TokenNo == Cardinality(Submitted) + (IF Fresh THEN 1 ELSE 0)
Ensured(calls) ==
  /\ TokenNo \in 1..Attempts
  /\ Queue((IF Fresh THEN <<[op |-> "request", n |-> TokenNo]>> ELSE <<>>) \o calls)
  /\ tickets' = [tickets EXCEPT ![TokenNo] = IF Fresh THEN "queued" ELSE @]

Phases == <<"admitted", "started", "finalizing", "terminal">>
\* Records.observe and factory, and terminal() once, the last.
Observe ==
  /\ Up("request")
  /\ \E k \in DOMAIN Phases :
       /\ Phases[k] \notin made /\ \A l \in k..Len(Phases) : Phases[l] \notin made
       /\ made' = made \cup {Phases[k]}
       /\ \E outcome \in IF Phases[k] = "terminal" THEN {"success", "unknown"} ELSE {"pending"} :
            Ensured(<<[op |-> "transition", n |-> TokenNo, phase |-> Phases[k], outcome |-> outcome]>>)
  /\ UNCHANGED <<published, life, early>> /\ Quiet

\* What a task queues for itself once it runs, through Records.token.
Allocations ==
  /\ Up("request") /\ "started" \in made
  /\ \E call \in {"allocate", "launch"} \ made :
       /\ made' = made \cup {call}
       /\ Ensured(<<[op |-> call, n |-> TokenNo]>>)
  /\ UNCHANGED <<published, life, early>> /\ Quiet

\* artifact_state, when a log's application is over, which may be after the request.
Settle ==
  /\ Up("request") /\ "complete" \notin made
  /\ \E n \in 1..Attempts :
       /\ acked[Allocated(n)] # Absent
       /\ made' = made \cup {"complete"}
       /\ Queue(<<[op |-> "settle", n |-> n, state |-> "complete"]>>)
  /\ UNCHANGED <<tickets, published, life, early>> /\ Quiet

(***************************************************************************)
(* The application's record and its windows: Registry.publish_windows,     *)
(* published, checkpoint_windows, and the query that calls them.           *)
(***************************************************************************)
Prepare ==
  /\ Up("windows") /\ "prepare" \notin made
  /\ made' = made \cup {"prepare"} /\ Queue(<<[op |-> "prepare"]>>)
  /\ UNCHANGED <<tickets, published, life, early>> /\ Quiet

\* Application.persist, and the batch of processes a scan found.
Persist ==
  /\ Up("windows") /\ acked[AppRecord] # Absent
  /\ \E state \in {"running", "all-exited"} \ made :
       /\ made' = made \cup {state}
       /\ Queue(IF state = "running" THEN <<[op |-> "processes"], [op |-> "app", state |-> state]>>
                ELSE <<[op |-> "app", state |-> state]>>)
  /\ UNCHANGED <<tickets, published, life, early>> /\ Quiet

At(at, q) == [published EXCEPT !.at = at, !.query = q, !.ticket = None]

\* The query's phase observation.
Query ==
  /\ Up("windows") /\ acked[AppRecord] # Absent /\ published.at = None
  /\ \E q \in Queries \ made :
       /\ made' = made \cup {q}
       /\ Queue(<<[op |-> "observe", q |-> q]>>)
       /\ published' = [At("observe", q) EXCEPT !.ticket = "queued"]
  /\ UNCHANGED <<tickets, life, early>> /\ Quiet

WindowsCall(previous, candidate, state) ==
  [op |-> "windows", previous |-> previous, candidate |-> candidate, state |-> state]

\* checkpoint_windows comes first, then the pending record names what memory holds
\* as the confirmed observation.
Checkpoint == IF published.checkpoint = None THEN <<>>
              ELSE <<WindowsCall(published.previous, published.checkpoint, "confirmed")>>
Publish ==
  /\ Up("windows") /\ published.at = "observe" /\ published.ticket = "ok"
  /\ Queue(Checkpoint \o <<WindowsCall(published.current, published.query, "pending")>>)
  /\ published' = [At("publish", published.query) EXCEPT !.ticket = "queued", !.checkpoint = None]
  /\ UNCHANGED <<tickets, made, life, early>> /\ Quiet

Durable == published.ticket = "ok"

\* The record is durable and the check passes: memory takes it over.
Published ==
  /\ Up("windows") /\ published.at = "publish" /\ Durable
  /\ published' = [At(None, None) EXCEPT !.current = published.query, !.previous = published.current,
                                        !.checkpoint = published.query]
  /\ UNCHANGED <<queue, tickets, made, life, early>> /\ Quiet

\* The write failed, the check raised, or the request is over.
Abandon ==
  /\ Up("windows") /\ published.at # None
  /\ published' = At(None, None)
  /\ UNCHANGED <<queue, tickets, made, life, early>> /\ Quiet

\* Registry.tick.
CheckpointTurn ==
  /\ Up("windows") /\ published.checkpoint # None
  /\ Queue(Checkpoint)
  /\ published' = [published EXCEPT !.checkpoint = None]
  /\ UNCHANGED <<tickets, made, life, early>> /\ Quiet

(***************************************************************************)
(* The finalizer (service_cleanup), in the hook or in a later manager.     *)
(***************************************************************************)
Classified(state) == Now(Manifest).failure # None \/ early # None => state = "failed"

Finalize ==
  /\ role \in {"created", "down"} /\ family = "manifest" /\ Attach("finalizer")
  /\ \E run \in {"hook", "reconciliation"} \ made :
       made' = made \cup {run}
  /\ \E state \in {"stopped", "failed"}, disposed \in BOOLEAN :
       LET code == IF state # "failed" THEN None
                   ELSE IF Now(Manifest).failure # None THEN Now(Manifest).failure
                   ELSE IF early # None THEN early ELSE "session_failed"
       IN /\ Classified(state)
          /\ queue' = IF disposed
                      THEN <<Update(state, code, "uncertain"), [op |-> "summarize"], Update(state, code, "complete")>>
                      ELSE <<Update(state, code, "uncertain"), Update(state, None, "uncertain")>>
  /\ UNCHANGED <<fs, todo, job, faults, family, tickets, published, life, early>>

TakeFinal ==
  /\ role = "finalizer" /\ ~Busy
  /\ IF queue = <<>> THEN role' = "down" /\ UNCHANGED <<queue, job, todo>>
     ELSE /\ job' = Head(queue) /\ todo' = Steps(Head(queue)) /\ queue' = Tail(queue) /\ UNCHANGED role
  /\ UNCHANGED <<fs, faults, family, owner>>

Next ==
  \/ Take \/ Do \/ Return \/ Fail \/ Kill \/ PowerLoss
  \/ WorkerStarts \/ Readiness \/ RecordFailure \/ Quit \/ Exit
  \/ Observe \/ Allocations \/ Settle
  \/ Prepare \/ Persist \/ Query \/ Publish \/ Published \/ Abandon \/ CheckpointTurn
  \/ Finalize \/ TakeFinal

Spec == Init /\ [][Next]_vars

(***************************************************************************)
(* Properties.                                                             *)
(***************************************************************************)
\* Every path holds a value of its own kind, whichever side is looked at, and only
\* what was queued is in progress.
KindOf(p) ==
  CASE p.name = "manifest.json" -> "manifest"
    [] p.name = "record" -> "record"
    [] p.name = "allocated" -> "alloc"
    [] p.name = "application-record" -> "app"
    [] p.name \in {"record.lock", "events.jsonl", "worker.log", "partial", "launch", "process",
                   "observation"} -> "file"
    [] OTHER -> "dir"
TypeOK ==
  /\ \A p \in Paths : {disk[p].now.kind, disk[p].safe.kind} \subseteq {KindOf(p), "absent"}
  /\ DOMAIN disk = Paths /\ DOMAIN acked = Paths
  /\ role \in {"creator", "created", "worker", "down", "finalizer", "over"}
  /\ life \in {"up", "failing", "quit"} /\ known \in BOOLEAN /\ faults \in 0..Faults
  /\ published.at \in {None, "observe", "publish"} /\ ~Busy => todo = <<>>

\* A record whose call has succeeded survives a power loss, in this revision or a
\* later one, with every directory above it: also when an earlier call that made one
\* of them failed, or died, before it synced the link (mkdir_durable, _write).
AckedSurvives == \A p \in Paths : acked[p] # Absent => Survives(p, acked[p].rev)

\* The same, with every path still of its own kind.
DiskTrue == TypeOK /\ AckedSurvives

\* A generation with a manifest is complete, now and after any power loss: a failed
\* or interrupted creation never looks like a store one can attach to.
ManifestMeansWhole ==
  Visible(Manifest) => \A p \in Layout : Standing(p) /\ disk[p].safe # Absent

\* Every observation an application's record refers to, confirmed, previous or
\* candidate, is there in every version of the record that may be found, and the
\* reader gives it back with its own windows.
Records == {v \in {disk[AppRecord].now, disk[AppRecord].safe} : v.kind = "app"}
WindowsRecoverable ==
  family = "windows" =>
    \A v \in Records : \A r \in ReadBack(v) \ {NoReference} :
      r = Whole(r.query) /\ Survives(Observation(r.query), 1)

\* The observation status answers from memory is named by the durable record, though
\* the checkpoint that confirms it may be outstanding, and later ones may fail.
PublishedIsRecorded ==
  (family = "windows" /\ role = "worker" /\ published.current # None) =>
    Whole(published.current) \in ReadBack(disk[AppRecord].safe)

\* An observation can be read back as long as anything, memory or disk, names it.
WindowsTrue == WindowsRecoverable /\ PublishedIsRecorded

\* The first failure on record stays the first, and a failure the owner retained, in
\* the manifest or beside it, is what the finalizer's complete record says.
FailureStands ==
  [][/\ acked[Manifest].kind = "manifest" /\ acked[Manifest].failure # None =>
          acked'[Manifest].failure = acked[Manifest].failure
     /\ LET new == acked'[Manifest] IN
          new # acked[Manifest] /\ new.cleanup = "complete" /\ (early # None \/ new.failure # None) =>
            new.state = "failed" /\ new.outcome = "failed"]_vars
============================================================================
