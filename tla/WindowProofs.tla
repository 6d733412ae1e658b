---------------------------- MODULE WindowProofs ----------------------------
(***************************************************************************)
(* Proofs about the window requests and their native operations, for every *)
(* set of kinds and every number of processes that may take a pid.         *)
(***************************************************************************)
EXTENDS WindowTasks, TLAPS

(***************************************************************************)
(* The inductive invariant.  The adapter's slot is given back by two       *)
(* paths, the operation's own last step and its cleanup, which may take    *)
(* over at any phase; what is left behind has to be known from the phase,  *)
(* the cleanup's step and the two memories spawned and absent alone.       *)
(***************************************************************************)
\* The phases before the helper is started, after the script is known to be gone,
\* and after the directory is gone.
Early   == {"prepare", "collision", "dispatch"}
Late    == {"local", "observation", "observed", "recheck", "accept", "publish", "publishing"}
Removed == Late \ {"local"}

\* A free slot has nothing of an operation in it.
SlotFree ==
  Idle => op = NoOp /\ child = None /\ remover = None /\ bus = None /\ ~script /\ ~dir

\* The helper is started once, and lives in one phase, before the cleanup reaps it.
HelperOnce ==
  /\ child # None => op.spawned /\ op.phase = "running" /\ op.cleanup = "reap"
  /\ op.phase \in Early <=> ~op.spawned
  /\ op.present \/ script \/ op.absent => op.spawned

\* Absence is KWin's answer, asked when nothing that could load or unload the script
\* runs any more.
AbsenceKnown ==
  /\ script => ~op.absent
  /\ op.absent => op.cleanup # "reap" \/ op.phase \in Late
  /\ ~op.error /\ op.phase \in Late => op.absent
  /\ bus # None => IF op.error THEN op.cleanup \in {"absence", "verify"}
                   ELSE op.phase \in {"collision", "absence"}
  /\ bus = "absent" => ~script

CleanupOrdered ==
  /\ remover # None => op.cleanup = "remove"
  /\ op.cleanup # "reap" => op.error
  /\ op.cleanup \in {"absence", "remove", "verify"} => op.spawned /\ ~op.absent
  /\ op.cleanup = "local" => ~script
  /\ ~op.error /\ op.phase \in {"prepare"} \cup Removed => ~dir

\* A request leaves nothing to the next, and only a search has a child of its own.
RequestAlone ==
  /\ task.kind = None => task = NoTask
  /\ task.kind = None /\ available => Idle /\ search = None
  /\ ~available => task.kind = None
  /\ search # None => Idle
  /\ search # None /\ task.kind # None => task.kind = "title"

\* A process indexed before the operation began is the one KWin showed; a row is its.
RowOfSnapshot ==
  /\ op.present /\ pid.indexed = "before" => op.snap = pid.holder
  /\ op.row # 0 => op.row = op.snap /\ op.present /\ child = None

\* The native close belongs to the close's second phase; a blame and an exit
\* observed are each about the right side of the request's completion.
CloseOrdered ==
  /\ op.kind = "close" /\ task.kind # None => task.kind = "close" /\ task.phase = "close_request"
  /\ app.completed => app.state = "exited"
  /\ task.exited => task.dispatch = "transport_completed" /\ app.state = "exited"
  /\ ExitNotBlamed

IInv ==
  /\ TypeOK
  /\ SlotFree /\ HelperOnce /\ AbsenceKnown /\ CleanupOrdered
  /\ RequestAlone /\ RowOfSnapshot /\ CloseOrdered

USE DEF None, World, Native, Rest

(***************************************************************************)
(* Proof.                                                                  *)
(***************************************************************************)
LEMMA BlankTypes ==
  /\ NoOp \in OpType /\ NoTask \in TaskType
  /\ \A k \in OpKind : NewOp(k) \in OpType
  /\ NoApp \in [state : {None, "live", "exited"}, completed : BOOLEAN]
  /\ NoPid \in [holder : Holder, last : Holder, indexed : {None, "since", "before"}]
PROOF
<1>1. NoOp \in OpType
  BY WindowAssumption DEF NoOp, OpType, OpKind, Phases, Holder
<1>2. ASSUME NEW k \in OpKind PROVE NewOp(k) \in OpType
  BY <1>1 DEF NewOp, OpType
<1> QED
  BY <1>1, <1>2, WindowAssumption DEF NoTask, TaskType, TaskKind, NoApp, NoPid, Holder

LEMMA InitSound == Init => IInv
PROOF
<1> SUFFICES ASSUME Init PROVE IInv
  OBVIOUS
<1>1. TypeOK
  BY BlankTypes DEF Init, TypeOK, Process, Records
<1> QED
  BY <1>1 DEF Init, IInv, SlotFree, HelperOnce, AbsenceKnown, CleanupOrdered, RequestAlone,
     RowOfSnapshot, CloseOrdered, ExitNotBlamed, Idle, Early, Late, Removed, NoOp, NoTask, NoApp,
     NoPid

(***************************************************************************)
(* A slot that is given back.                                              *)
(***************************************************************************)
\* An operation's last step, and its cleanup's, leave nothing behind.
LEMMA ReturnedFree ==
  ASSUME IInv, Returned
  PROVE  /\ child = None /\ remover = None /\ bus = None /\ ~script /\ ~dir
         /\ search = None /\ ~Idle /\ task.kind # None
BY DEF Returned, Continues, Working, OpReturns, NoOp, IInv, TypeOK, SlotFree, HelperOnce,
     AbsenceKnown, CleanupOrdered, RequestAlone, RowOfSnapshot, CloseOrdered,
     ExitNotBlamed, Idle, Early, Late, Removed

LEMMA CleanedFree ==
  ASSUME IInv, CleanupEnds
  PROVE  child = None /\ remover = None /\ bus = None /\ ~script /\ search = None
BY DEF CleanupEnds, IInv, TypeOK, SlotFree, HelperOnce, AbsenceKnown, CleanupOrdered,
     RequestAlone, RowOfSnapshot, CloseOrdered, ExitNotBlamed, Idle, Early, Late, Removed

\* A request that ends with the slot free is followed by the adapter's first state.
LEMMA FinishSound ==
  ASSUME IInv, task.kind # None, NEW e \in {"succeeded", "failed"}, Finish(e), op' = NoOp,
         child' = None, remover' = None, bus' = None, ~script', ~dir', search' = None,
         script' \in BOOLEAN, dir' \in BOOLEAN
  PROVE  IInv'
PROOF
<1>1. TypeOK'
  BY BlankTypes DEF IInv, TypeOK, Finish, Process, Records
<1> QED
  BY <1>1 DEF Finish, NoOp, NoTask, NoApp, NoPid, IInv, SlotFree, HelperOnce,
       AbsenceKnown, CleanupOrdered, RequestAlone,
     RowOfSnapshot, CloseOrdered, ExitNotBlamed, Idle, Early, Late, Removed

\* The operation's result is taken, and the next operation, if any, is new.
LEMMA ReturnSound ==
  ASSUME IInv, Returned, UNCHANGED <<Native, search, app, pid>>, Rest,
         op' \in {NoOp, NewOp("activation"), NewOp("close")},
         task' \in TaskType, task'.kind = task.kind, queued' \subseteq Records,
         CloseOrdered'
  PROVE  IInv'
PROOF
<1>1. op' \in OpType
  BY BlankTypes DEF OpKind
<1>2. /\ op'.phase = "prepare" /\ ~op'.error /\ ~op'.spawned /\ ~op'.absent /\ op'.cleanup = "reap"
      /\ ~op'.present /\ op'.row = 0 /\ (op'.kind = None => op' = NoOp)
  BY DEF NewOp, NoOp
<1>3. TypeOK'
  BY <1>1, ReturnedFree DEF IInv, TypeOK
<1> QED
  BY <1>2, <1>3, ReturnedFree
     DEF IInv, SlotFree, HelperOnce, AbsenceKnown, CleanupOrdered, RequestAlone,
     RowOfSnapshot, Idle, Early, Late, Removed

(***************************************************************************)
(* The world's steps.                                                      *)
(***************************************************************************)
LEMMA WriterWritesSound == ASSUME IInv, WriterWrites PROVE IInv'
PROOF
<1>1. HelperOnce'
  BY DEF IInv, HelperOnce, Early, WriterWrites
<1>2. TypeOK'
  BY <1>1 DEF IInv, TypeOK, HelperOnce, WriterWrites
<1>3. SlotFree'
  BY DEF IInv, SlotFree, Idle, WriterWrites
<1>4. AbsenceKnown'
  BY DEF IInv, AbsenceKnown, Late, WriterWrites
<1>5. CleanupOrdered'
  BY DEF IInv, CleanupOrdered, Removed, Late, WriterWrites
<1>6. RequestAlone'
  BY DEF IInv, RequestAlone, Idle, WriterWrites
<1>7. RowOfSnapshot'
  BY DEF IInv, RowOfSnapshot, WriterWrites
<1>8. CloseOrdered'
  BY DEF IInv, CloseOrdered, ExitNotBlamed, WriterWrites
<1> QED
  BY <1>1, <1>2, <1>3, <1>4, <1>5, <1>6, <1>7, <1>8 DEF IInv

LEMMA ProcessesSound == ASSUME IInv, Processes PROVE IInv'
PROOF
<1>1. pid' \in [holder : Holder, last : Holder, indexed : {None, "since", "before"}]
  <2> USE DEF IInv, TypeOK
  <2>1. CASE pid.holder # 0 /\ pid' = [pid EXCEPT !.holder = 0, !.indexed = None]
    <3>1. 0 \in Holder
      BY WindowAssumption DEF Holder
    <3> QED
      BY <2>1, <3>1
  <2>2. CASE /\ pid.last < Incarnations
             /\ pid' = [holder |-> pid.last + 1, last |-> pid.last + 1, indexed |-> None]
    BY <2>2, WindowAssumption DEF Holder
  <2>3. CASE pid' = [pid EXCEPT !.indexed = "since"]
    BY <2>3
  <2> QED
    BY <2>1, <2>2, <2>3 DEF Processes
<1>2. HelperOnce'
  BY DEF IInv, HelperOnce, Early, Processes
<1>3. TypeOK'
  BY <1>1, <1>2 DEF IInv, TypeOK, HelperOnce, Processes
<1>4. SlotFree'
  BY DEF IInv, SlotFree, Idle, Processes
<1>5. AbsenceKnown'
  BY DEF IInv, AbsenceKnown, Late, Processes
<1>6. CleanupOrdered'
  BY DEF IInv, CleanupOrdered, Removed, Late, Processes
<1>7. RequestAlone'
  BY DEF IInv, RequestAlone, Idle, Processes
<1>8. RowOfSnapshot'
  <2> USE DEF IInv, TypeOK
  <2>2. CASE pid' = [pid EXCEPT !.holder = 0, !.indexed = None]
    BY <2>2 DEF RowOfSnapshot, Processes
  <2>3. CASE pid' = [holder |-> pid.last + 1, last |-> pid.last + 1, indexed |-> None]
    BY <2>3 DEF RowOfSnapshot, Processes
  <2>4. CASE pid' = [pid EXCEPT !.indexed = "since"]
    BY <2>4 DEF RowOfSnapshot, Processes
  <2> QED
    BY <2>2, <2>3, <2>4 DEF Processes
<1>9. CloseOrdered'
  BY DEF IInv, CloseOrdered, ExitNotBlamed, Processes
<1> QED
  BY <1>2, <1>3, <1>4, <1>5, <1>6, <1>7, <1>8, <1>9 DEF IInv

LEMMA AppExitsSound == ASSUME IInv, AppExits PROVE IInv'
PROOF
<1>1. pid' \in [holder : Holder, last : Holder, indexed : {None, "since", "before"}]
  <2>1. 0 \in Holder
    BY WindowAssumption DEF Holder
  <2> QED
    BY <2>1 DEF IInv, TypeOK, AppExits
<1>2. app' \in [state : {None, "live", "exited"}, completed : BOOLEAN]
  BY DEF IInv, TypeOK, AppExits
<1>3. HelperOnce'
  BY DEF IInv, HelperOnce, Early, AppExits
<1>4. TypeOK'
  BY <1>1, <1>2, <1>3 DEF IInv, TypeOK, HelperOnce, AppExits
<1>5. SlotFree'
  BY DEF IInv, SlotFree, Idle, AppExits
<1>6. AbsenceKnown'
  BY DEF IInv, AbsenceKnown, Late, AppExits
<1>7. CleanupOrdered'
  BY DEF IInv, CleanupOrdered, Removed, Late, AppExits
<1>8. RequestAlone'
  BY DEF IInv, RequestAlone, Idle, AppExits
<1>9. RowOfSnapshot'
  BY DEF IInv, RowOfSnapshot, AppExits
<1>10. CloseOrdered'
  BY DEF IInv, CloseOrdered, ExitNotBlamed, AppExits
<1> QED
  BY <1>3, <1>4, <1>5, <1>6, <1>7, <1>8, <1>9, <1>10 DEF IInv

LEMMA AppObservedSound == ASSUME IInv, AppObserved PROVE IInv'
PROOF
<1>1. app' \in [state : {None, "live", "exited"}, completed : BOOLEAN]
  BY DEF IInv, TypeOK, AppObserved
<1>2. HelperOnce'
  BY DEF IInv, HelperOnce, Early, AppObserved
<1>3. TypeOK'
  BY <1>1, <1>2 DEF IInv, TypeOK, HelperOnce, AppObserved
<1>4. SlotFree'
  BY DEF IInv, SlotFree, Idle, AppObserved
<1>5. AbsenceKnown'
  BY DEF IInv, AbsenceKnown, Late, AppObserved
<1>6. CleanupOrdered'
  BY DEF IInv, CleanupOrdered, Removed, Late, AppObserved
<1>7. RequestAlone'
  BY DEF IInv, RequestAlone, Idle, AppObserved
<1>8. RowOfSnapshot'
  BY DEF IInv, RowOfSnapshot, AppObserved
<1>9. CloseOrdered'
  BY DEF IInv, CloseOrdered, ExitNotBlamed, AppObserved
<1> QED
  BY <1>2, <1>3, <1>4, <1>5, <1>6, <1>7, <1>8, <1>9 DEF IInv

LEMMA KWinAnswersSound == ASSUME IInv, KWinAnswers PROVE IInv'
PROOF
<1>1. HelperOnce'
  BY DEF IInv, HelperOnce, Early, KWinAnswers
<1>2. TypeOK'
  BY <1>1 DEF IInv, TypeOK, HelperOnce, KWinAnswers
<1>3. SlotFree'
  BY DEF IInv, SlotFree, Idle, KWinAnswers
<1>4. AbsenceKnown'
  BY DEF IInv, AbsenceKnown, Late, KWinAnswers
<1>5. CleanupOrdered'
  BY DEF IInv, CleanupOrdered, Removed, Late, KWinAnswers
<1>6. RequestAlone'
  BY DEF IInv, RequestAlone, Idle, KWinAnswers
<1>7. RowOfSnapshot'
  BY DEF IInv, RowOfSnapshot, KWinAnswers
<1>8. CloseOrdered'
  BY DEF IInv, CloseOrdered, ExitNotBlamed, KWinAnswers
<1> QED
  BY <1>1, <1>2, <1>3, <1>4, <1>5, <1>6, <1>7, <1>8 DEF IInv

LEMMA ChildLoadsSound == ASSUME IInv, ChildLoads PROVE IInv'
PROOF
<1>1. op' \in OpType
  <2>1. PICK seen \in BOOLEAN :
          op' = [op EXCEPT !.present = seen, !.snap = IF seen THEN pid.holder ELSE 0]
    BY DEF ChildLoads
  <2>2. pid.holder \in Holder /\ 0 \in Holder
    BY WindowAssumption DEF IInv, TypeOK, Holder
  <2> QED
    BY <2>1, <2>2 DEF IInv, TypeOK, OpType
<1>2. HelperOnce'
  BY DEF IInv, HelperOnce, Early, ChildLoads
<1>3. TypeOK'
  BY <1>1, <1>2 DEF IInv, TypeOK, HelperOnce, ChildLoads
<1>4. SlotFree'
  BY DEF IInv, SlotFree, Idle, ChildLoads
<1>5. AbsenceKnown'
  BY DEF IInv, TypeOK, OpType, HelperOnce, Early, CleanupOrdered, Removed, Late,
       AbsenceKnown, ChildLoads
<1>6. CleanupOrdered'
  BY DEF IInv, TypeOK, OpType, HelperOnce, Early, CleanupOrdered, Removed, Late, ChildLoads
<1>7. RequestAlone'
  BY DEF IInv, RequestAlone, Idle, ChildLoads
<1>8. RowOfSnapshot'
  BY DEF IInv, RowOfSnapshot, ChildLoads
<1>9. CloseOrdered'
  BY DEF IInv, CloseOrdered, ExitNotBlamed, ChildLoads
<1> QED
  BY <1>2, <1>3, <1>4, <1>5, <1>6, <1>7, <1>8, <1>9 DEF IInv

LEMMA ChildEndsSound == ASSUME IInv, ChildEnds PROVE IInv'
PROOF
<1>1. child' \in Process /\ script' \in BOOLEAN
  BY DEF IInv, TypeOK, Process, ChildEnds
<1>2. HelperOnce'
  BY DEF IInv, HelperOnce, Early, ChildEnds
<1>3. TypeOK'
  BY <1>1, <1>2 DEF IInv, TypeOK, HelperOnce, ChildEnds
<1>4. SlotFree'
  BY DEF IInv, SlotFree, Idle, ChildEnds
<1>5. AbsenceKnown'
  BY DEF IInv, TypeOK, OpType, HelperOnce, Early, CleanupOrdered, Removed, Late,
       AbsenceKnown, ChildEnds
<1>6. CleanupOrdered'
  BY DEF IInv, TypeOK, OpType, HelperOnce, Early, CleanupOrdered, Removed, Late, ChildEnds
<1>7. RequestAlone'
  BY DEF IInv, RequestAlone, Idle, ChildEnds
<1>8. RowOfSnapshot'
  BY DEF IInv, RowOfSnapshot, ChildEnds
<1>9. CloseOrdered'
  BY DEF IInv, CloseOrdered, ExitNotBlamed, ChildEnds
<1> QED
  BY <1>2, <1>3, <1>4, <1>5, <1>6, <1>7, <1>8, <1>9 DEF IInv

LEMMA RemoverEndsSound == ASSUME IInv, RemoverEnds PROVE IInv'
PROOF
<1>1. remover' \in Process /\ script' \in BOOLEAN
  BY DEF IInv, TypeOK, Process, RemoverEnds
<1>2. HelperOnce'
  <2>1. UNCHANGED <<op, child>> /\ (script' = script \/ script' = FALSE)
    BY DEF RemoverEnds
  <2>2. script' => script
    BY <2>1
  <2> QED
    BY <2>1, <2>2 DEF IInv, HelperOnce
<1>3. TypeOK'
  BY <1>1, <1>2 DEF IInv, TypeOK, HelperOnce, RemoverEnds
<1>4. SlotFree'
  BY DEF IInv, SlotFree, Idle, RemoverEnds
<1>5. AbsenceKnown'
  BY DEF IInv, TypeOK, OpType, HelperOnce, Early, CleanupOrdered, Removed, Late,
       AbsenceKnown, RemoverEnds
<1>6. CleanupOrdered'
  BY DEF IInv, CleanupOrdered, Removed, Late, RemoverEnds
<1>7. RequestAlone'
  BY DEF IInv, RequestAlone, Idle, RemoverEnds
<1>8. RowOfSnapshot'
  BY DEF IInv, RowOfSnapshot, RemoverEnds
<1>9. CloseOrdered'
  BY DEF IInv, CloseOrdered, ExitNotBlamed, RemoverEnds
<1> QED
  BY <1>2, <1>3, <1>4, <1>5, <1>6, <1>7, <1>8, <1>9 DEF IInv

LEMMA SearchEndsSound == ASSUME IInv, SearchEnds PROVE IInv'
PROOF
<1>1. search' \in Process
  BY DEF IInv, TypeOK, Process, SearchEnds
<1>2. HelperOnce'
  BY DEF IInv, HelperOnce, Early, SearchEnds
<1>3. TypeOK'
  BY <1>1, <1>2 DEF IInv, TypeOK, HelperOnce, SearchEnds
<1>4. SlotFree'
  BY DEF IInv, SlotFree, Idle, SearchEnds
<1>5. AbsenceKnown'
  BY DEF IInv, AbsenceKnown, Late, SearchEnds
<1>6. CleanupOrdered'
  BY DEF IInv, CleanupOrdered, Removed, Late, SearchEnds
<1>7. RequestAlone'
  BY DEF IInv, RequestAlone, Idle, SearchEnds
<1>8. RowOfSnapshot'
  BY DEF IInv, RowOfSnapshot, SearchEnds
<1>9. CloseOrdered'
  BY DEF IInv, CloseOrdered, ExitNotBlamed, SearchEnds
<1> QED
  BY <1>2, <1>3, <1>4, <1>5, <1>6, <1>7, <1>8, <1>9 DEF IInv

(***************************************************************************)
(* The operation's own steps.                                              *)
(***************************************************************************)
LEMMA OpPrepareSound ==
  ASSUME IInv, ~Idle, ~op.error, task.kind # None, UNCHANGED <<task, search>>, Rest,
         OpPrepare
  PROVE  IInv'
PROOF
<1>1. op' \in OpType
  BY DEF IInv, TypeOK, OpType, OpKind, Phases, Holder, OpPrepare, Bracketed, Active
<1>2. pid' \in [holder : Holder, last : Holder, indexed : {None, "since", "before"}]
  BY DEF IInv, TypeOK, Holder, OpPrepare, Bracketed, Active
<1>3. HelperOnce'
  BY DEF IInv, HelperOnce, Early, OpPrepare, Bracketed, Active
<1>4. TypeOK'
  BY <1>1, <1>2, <1>3 DEF IInv, TypeOK, HelperOnce, OpPrepare, Bracketed, Active
<1>5. SlotFree'
  BY DEF IInv, SlotFree, Idle, OpPrepare, Bracketed, Active
<1>6. AbsenceKnown'
  BY DEF IInv, AbsenceKnown, Late, OpPrepare, Bracketed, Active
<1>7. CleanupOrdered'
  BY DEF IInv, CleanupOrdered, Removed, Late, OpPrepare, Bracketed, Active
<1>8. RequestAlone'
  BY DEF IInv, RequestAlone, Idle, OpPrepare, Bracketed, Active
<1>9. RowOfSnapshot'
  BY DEF IInv, TypeOK, OpType, HelperOnce, Early, CleanupOrdered, Removed, Late,
       RowOfSnapshot, OpPrepare, Bracketed, Active
<1>10. CloseOrdered'
  BY DEF IInv, CloseOrdered, ExitNotBlamed, OpPrepare, Bracketed, Active
<1> QED
  BY <1>3, <1>4, <1>5, <1>6, <1>7, <1>8, <1>9, <1>10 DEF IInv

LEMMA OpAsksSound ==
  ASSUME IInv, ~Idle, ~op.error, task.kind # None, UNCHANGED <<task, search>>, Rest,
         OpAsks
  PROVE  IInv'
PROOF
<1>1. HelperOnce'
  BY DEF IInv, HelperOnce, Early, OpAsks, Ask
<1>2. TypeOK'
  BY <1>1 DEF IInv, TypeOK, HelperOnce, OpAsks, Ask
<1>3. SlotFree'
  BY DEF IInv, SlotFree, Idle, OpAsks, Ask
<1>4. AbsenceKnown'
  BY DEF IInv, AbsenceKnown, Late, OpAsks, Ask
<1>5. CleanupOrdered'
  BY DEF IInv, CleanupOrdered, Removed, Late, OpAsks, Ask
<1>6. RequestAlone'
  BY DEF IInv, RequestAlone, Idle, OpAsks, Ask
<1>7. RowOfSnapshot'
  BY DEF IInv, RowOfSnapshot, OpAsks, Ask
<1>8. CloseOrdered'
  BY DEF IInv, CloseOrdered, ExitNotBlamed, OpAsks, Ask
<1> QED
  BY <1>1, <1>2, <1>3, <1>4, <1>5, <1>6, <1>7, <1>8 DEF IInv

LEMMA OpAbsentSound ==
  ASSUME IInv, ~Idle, ~op.error, task.kind # None, UNCHANGED <<task, search>>, Rest,
         OpAbsent
  PROVE  IInv'
PROOF
<1>1. op' \in OpType
  BY ZenonT(60) DEF IInv, TypeOK, OpType, OpKind, Phases, Holder, OpAbsent, To
<1>2. HelperOnce'
  <2>1. CASE op.phase = "collision" /\ To("dispatch")
    BY <2>1 DEF IInv, TypeOK, OpType, HelperOnce, Early, OpAbsent, To
  <2>2. CASE op.phase = "absence" /\ op' = [op EXCEPT !.phase = "local", !.absent = TRUE]
    BY <2>2 DEF IInv, TypeOK, OpType, HelperOnce, Early, OpAbsent
  <2> QED
    BY <2>1, <2>2 DEF OpAbsent
<1>3. TypeOK'
  BY <1>1, <1>2 DEF IInv, TypeOK, HelperOnce, OpAbsent, To
<1>4. SlotFree'
  BY DEF IInv, TypeOK, OpType, SlotFree, Idle, OpAbsent, To
<1>5. AbsenceKnown'
  BY ZenonT(60) DEF IInv, TypeOK, OpType, AbsenceKnown, Late, OpAbsent, To
<1>6. CleanupOrdered'
  BY ZenonT(60) DEF IInv, TypeOK, OpType, CleanupOrdered, Removed, Late, OpAbsent, To
<1>7. RequestAlone'
  BY DEF IInv, RequestAlone, Idle, OpAbsent, To
<1>8. RowOfSnapshot'
  BY DEF IInv, TypeOK, OpType, RowOfSnapshot, OpAbsent, To
<1>9. CloseOrdered'
  BY DEF IInv, TypeOK, OpType, CloseOrdered, ExitNotBlamed, OpAbsent, To
<1> QED
  BY <1>2, <1>3, <1>4, <1>5, <1>6, <1>7, <1>8, <1>9 DEF IInv

LEMMA QueryDispatchSound ==
  ASSUME IInv, ~Idle, ~op.error, task.kind # None, UNCHANGED <<task, search>>, Rest,
         QueryDispatch
  PROVE  IInv'
PROOF
<1>1. op' \in OpType
  BY DEF IInv, TypeOK, OpType, OpKind, Phases, Holder, QueryDispatch, Spawn
<1>2. child' \in Process
  BY DEF IInv, TypeOK, Process, QueryDispatch, Spawn
<1>3. HelperOnce'
  BY DEF IInv, TypeOK, OpType, HelperOnce, Early, CleanupOrdered, Removed, Late,
       QueryDispatch, Spawn
<1>4. TypeOK'
  BY <1>1, <1>2, <1>3 DEF IInv, TypeOK, HelperOnce, QueryDispatch, Spawn
<1>5. SlotFree'
  BY DEF IInv, SlotFree, Idle, QueryDispatch, Spawn
<1>6. AbsenceKnown'
  BY DEF IInv, AbsenceKnown, Late, QueryDispatch, Spawn
<1>7. CleanupOrdered'
  BY DEF IInv, CleanupOrdered, Removed, Late, QueryDispatch, Spawn
<1>8. RequestAlone'
  BY DEF IInv, RequestAlone, Idle, QueryDispatch, Spawn
<1>9. RowOfSnapshot'
  BY DEF IInv, TypeOK, OpType, HelperOnce, Early, CleanupOrdered, Removed, Late,
       RowOfSnapshot, QueryDispatch, Spawn
<1>10. CloseOrdered'
  BY DEF IInv, CloseOrdered, ExitNotBlamed, QueryDispatch, Spawn
<1> QED
  BY <1>3, <1>4, <1>5, <1>6, <1>7, <1>8, <1>9, <1>10 DEF IInv

LEMMA OpReceivesSound ==
  ASSUME IInv, ~Idle, ~op.error, task.kind # None, UNCHANGED <<task, search>>, Rest,
         OpReceives
  PROVE  IInv'
PROOF
<1>1. op' \in OpType
  BY DEF IInv, TypeOK, OpType, OpKind, Phases, Holder, OpReceives, To
<1>2. child' \in Process
  BY DEF IInv, TypeOK, Process, OpReceives, To
<1>3. HelperOnce'
  BY DEF IInv, HelperOnce, Early, OpReceives, To
<1>4. TypeOK'
  BY <1>1, <1>2, <1>3 DEF IInv, TypeOK, HelperOnce, OpReceives, To
<1>5. SlotFree'
  BY DEF IInv, SlotFree, Idle, OpReceives, To
<1>6. AbsenceKnown'
  BY DEF IInv, AbsenceKnown, Late, OpReceives, To
<1>7. CleanupOrdered'
  BY DEF IInv, CleanupOrdered, Removed, Late, OpReceives, To
<1>8. RequestAlone'
  BY DEF IInv, RequestAlone, Idle, OpReceives, To
<1>9. RowOfSnapshot'
  BY DEF IInv, RowOfSnapshot, OpReceives, To
<1>10. CloseOrdered'
  BY DEF IInv, CloseOrdered, ExitNotBlamed, OpReceives, To
<1> QED
  BY <1>3, <1>4, <1>5, <1>6, <1>7, <1>8, <1>9, <1>10 DEF IInv

LEMMA QueryAssociatesSound ==
  ASSUME IInv, ~Idle, ~op.error, task.kind # None, UNCHANGED <<task, search>>, Rest,
         QueryAssociates
  PROVE  IInv'
PROOF
<1>1. op' \in OpType
  <2>1. Associated \in Holder
    BY WindowAssumption DEF IInv, TypeOK, Associated, Identity, Holder
  <2> QED
    BY <2>1 DEF IInv, TypeOK, OpType, Phases, QueryAssociates
<1>2. HelperOnce'
  BY DEF IInv, HelperOnce, Early, QueryAssociates, Associated, Identity
<1>3. TypeOK'
  BY <1>1, <1>2 DEF IInv, TypeOK, HelperOnce, QueryAssociates, Associated, Identity
<1>4. SlotFree'
  BY DEF IInv, SlotFree, Idle, QueryAssociates, Associated, Identity
<1>5. AbsenceKnown'
  BY DEF IInv, AbsenceKnown, Late, QueryAssociates, Associated, Identity
<1>6. CleanupOrdered'
  BY DEF IInv, CleanupOrdered, Removed, Late, QueryAssociates, Associated, Identity
<1>7. RequestAlone'
  BY DEF IInv, RequestAlone, Idle, QueryAssociates, Associated, Identity
<1>8. RowOfSnapshot'
  BY DEF IInv, TypeOK, OpType, HelperOnce, Early, CleanupOrdered, Removed, Late,
       RowOfSnapshot, QueryAssociates, Associated, Identity
<1>9. CloseOrdered'
  BY DEF IInv, CloseOrdered, ExitNotBlamed, QueryAssociates, Associated, Identity
<1> QED
  BY <1>2, <1>3, <1>4, <1>5, <1>6, <1>7, <1>8, <1>9 DEF IInv

LEMMA OpRemovesDirectorySound ==
  ASSUME IInv, ~Idle, ~op.error, task.kind # None, UNCHANGED <<task, search>>, Rest,
         OpRemovesDirectory
  PROVE  IInv'
PROOF
<1>1. op' \in OpType
  BY DEF IInv, TypeOK, OpType, OpKind, Phases, Holder, OpRemovesDirectory, To
<1>2. HelperOnce'
  BY DEF IInv, HelperOnce, Early, OpRemovesDirectory, To
<1>3. TypeOK'
  BY <1>1, <1>2 DEF IInv, TypeOK, HelperOnce, OpRemovesDirectory, To
<1>4. SlotFree'
  BY DEF IInv, SlotFree, Idle, OpRemovesDirectory, To
<1>5. AbsenceKnown'
  BY DEF IInv, AbsenceKnown, Late, OpRemovesDirectory, To
<1>6. CleanupOrdered'
  BY DEF IInv, CleanupOrdered, Removed, Late, OpRemovesDirectory, To
<1>7. RequestAlone'
  BY DEF IInv, RequestAlone, Idle, OpRemovesDirectory, To
<1>8. RowOfSnapshot'
  BY DEF IInv, RowOfSnapshot, OpRemovesDirectory, To
<1>9. CloseOrdered'
  BY DEF IInv, CloseOrdered, ExitNotBlamed, OpRemovesDirectory, To
<1> QED
  BY <1>2, <1>3, <1>4, <1>5, <1>6, <1>7, <1>8, <1>9 DEF IInv

LEMMA QueryObservationSound ==
  ASSUME IInv, ~Idle, ~op.error, task.kind # None, UNCHANGED <<task, search>>, Rest,
         QueryObservation
  PROVE  IInv'
PROOF
<1>1. op' \in OpType
  BY DEF IInv, TypeOK, OpType, OpKind, Phases, Holder, QueryObservation, Records, To
<1>2. HelperOnce'
  BY DEF IInv, HelperOnce, Early, QueryObservation, Records, To
<1>3. TypeOK'
  BY <1>1, <1>2 DEF IInv, TypeOK, HelperOnce, QueryObservation, Records, To
<1>4. SlotFree'
  BY DEF IInv, SlotFree, Idle, QueryObservation, Records, To
<1>5. AbsenceKnown'
  BY DEF IInv, AbsenceKnown, Late, QueryObservation, Records, To
<1>6. CleanupOrdered'
  BY DEF IInv, CleanupOrdered, Removed, Late, QueryObservation, Records, To
<1>7. RequestAlone'
  BY DEF IInv, RequestAlone, Idle, QueryObservation, Records, To
<1>8. RowOfSnapshot'
  BY DEF IInv, RowOfSnapshot, QueryObservation, Records, To
<1>9. CloseOrdered'
  BY DEF IInv, CloseOrdered, ExitNotBlamed, QueryObservation, Records, To
<1> QED
  BY <1>2, <1>3, <1>4, <1>5, <1>6, <1>7, <1>8, <1>9 DEF IInv

LEMMA QueryObservedSound ==
  ASSUME IInv, ~Idle, ~op.error, task.kind # None, UNCHANGED <<task, search>>, Rest,
         QueryObserved
  PROVE  IInv'
PROOF
<1>1. op' \in OpType
  BY DEF IInv, TypeOK, OpType, OpKind, Phases, Holder, QueryObserved, To
<1>2. HelperOnce'
  BY DEF IInv, HelperOnce, Early, QueryObserved, To
<1>3. TypeOK'
  BY <1>1, <1>2 DEF IInv, TypeOK, HelperOnce, QueryObserved, To
<1>4. SlotFree'
  BY DEF IInv, SlotFree, Idle, QueryObserved, To
<1>5. AbsenceKnown'
  BY DEF IInv, AbsenceKnown, Late, QueryObserved, To
<1>6. CleanupOrdered'
  BY DEF IInv, CleanupOrdered, Removed, Late, QueryObserved, To
<1>7. RequestAlone'
  BY DEF IInv, RequestAlone, Idle, QueryObserved, To
<1>8. RowOfSnapshot'
  BY DEF IInv, RowOfSnapshot, QueryObserved, To
<1>9. CloseOrdered'
  BY DEF IInv, CloseOrdered, ExitNotBlamed, QueryObserved, To
<1> QED
  BY <1>2, <1>3, <1>4, <1>5, <1>6, <1>7, <1>8, <1>9 DEF IInv

LEMMA QueryRechecksSound ==
  ASSUME IInv, ~Idle, ~op.error, task.kind # None, UNCHANGED <<task, search>>, Rest,
         QueryRechecks
  PROVE  IInv'
PROOF
<1>1. op' \in OpType
  <2>1. Rechecked(op) \in Holder
    BY WindowAssumption DEF IInv, TypeOK, OpType, Rechecked, Holder
  <2> QED
    BY <2>1 DEF IInv, TypeOK, OpType, Phases, QueryRechecks
<1>2. HelperOnce'
  BY DEF IInv, HelperOnce, Early, QueryRechecks, Rechecked
<1>3. TypeOK'
  BY <1>1, <1>2 DEF IInv, TypeOK, HelperOnce, QueryRechecks, Rechecked
<1>4. SlotFree'
  BY DEF IInv, SlotFree, Idle, QueryRechecks, Rechecked
<1>5. AbsenceKnown'
  BY DEF IInv, AbsenceKnown, Late, QueryRechecks, Rechecked
<1>6. CleanupOrdered'
  BY DEF IInv, CleanupOrdered, Removed, Late, QueryRechecks, Rechecked
<1>7. RequestAlone'
  BY DEF IInv, RequestAlone, Idle, QueryRechecks, Rechecked
<1>8. RowOfSnapshot'
  BY DEF IInv, RowOfSnapshot, QueryRechecks, Rechecked
<1>9. CloseOrdered'
  BY DEF IInv, CloseOrdered, ExitNotBlamed, QueryRechecks, Rechecked
<1> QED
  BY <1>2, <1>3, <1>4, <1>5, <1>6, <1>7, <1>8, <1>9 DEF IInv

LEMMA QueryAcceptsSound ==
  ASSUME IInv, ~Idle, ~op.error, task.kind # None, UNCHANGED <<task, search>>, Rest,
         QueryAccepts
  PROVE  IInv'
PROOF
<1>1. op' \in OpType
  BY DEF IInv, TypeOK, OpType, OpKind, Phases, Holder, QueryAccepts, To
<1>2. HelperOnce'
  BY DEF IInv, HelperOnce, Early, QueryAccepts, To
<1>3. TypeOK'
  BY <1>1, <1>2 DEF IInv, TypeOK, HelperOnce, QueryAccepts, To
<1>4. SlotFree'
  BY DEF IInv, SlotFree, Idle, QueryAccepts, To
<1>5. AbsenceKnown'
  BY DEF IInv, AbsenceKnown, Late, QueryAccepts, To
<1>6. CleanupOrdered'
  BY DEF IInv, CleanupOrdered, Removed, Late, QueryAccepts, To
<1>7. RequestAlone'
  BY DEF IInv, RequestAlone, Idle, QueryAccepts, To
<1>8. RowOfSnapshot'
  BY DEF IInv, RowOfSnapshot, QueryAccepts, To
<1>9. CloseOrdered'
  BY DEF IInv, CloseOrdered, ExitNotBlamed, QueryAccepts, To
<1> QED
  BY <1>2, <1>3, <1>4, <1>5, <1>6, <1>7, <1>8, <1>9 DEF IInv

LEMMA QueryPublishesSound ==
  ASSUME IInv, ~Idle, ~op.error, task.kind # None, UNCHANGED <<task, search>>, Rest,
         QueryPublishes
  PROVE  IInv'
PROOF
<1>1. op' \in OpType
  BY DEF IInv, TypeOK, OpType, OpKind, Phases, Holder, QueryPublishes, Records, To
<1>2. HelperOnce'
  BY DEF IInv, HelperOnce, Early, QueryPublishes, Records, To
<1>3. TypeOK'
  BY <1>1, <1>2 DEF IInv, TypeOK, HelperOnce, QueryPublishes, Records, To
<1>4. SlotFree'
  BY DEF IInv, SlotFree, Idle, QueryPublishes, Records, To
<1>5. AbsenceKnown'
  BY DEF IInv, AbsenceKnown, Late, QueryPublishes, Records, To
<1>6. CleanupOrdered'
  BY DEF IInv, CleanupOrdered, Removed, Late, QueryPublishes, Records, To
<1>7. RequestAlone'
  BY DEF IInv, RequestAlone, Idle, QueryPublishes, Records, To
<1>8. RowOfSnapshot'
  BY DEF IInv, RowOfSnapshot, QueryPublishes, Records, To
<1>9. CloseOrdered'
  BY DEF IInv, CloseOrdered, ExitNotBlamed, QueryPublishes, Records, To
<1> QED
  BY <1>2, <1>3, <1>4, <1>5, <1>6, <1>7, <1>8, <1>9 DEF IInv

LEMMA AdvancesSound == ASSUME IInv, Advances PROVE IInv'
PROOF
<1>1. task.kind # None
  BY DEF Advances, Continues, Working
<1> QED
  BY <1>1, OpPrepareSound, OpAsksSound, OpAbsentSound, QueryDispatchSound, OpReceivesSound,
     QueryAssociatesSound, OpRemovesDirectorySound, QueryObservationSound, QueryObservedSound,
     QueryRechecksSound, QueryAcceptsSound, QueryPublishesSound DEF Advances, OpWorks

(***************************************************************************)
(* The cleanup's steps.                                                    *)
(***************************************************************************)
LEMMA CleanupReapsSound ==
  ASSUME IInv, op.error, task.kind # None, UNCHANGED <<task, search>>, Rest,
         CleanupReaps
  PROVE  IInv'
PROOF
<1>1. op' \in OpType
  BY DEF IInv, TypeOK, OpType, Reaped, CleanupReaps, Reaped, Running, Untouched, NoOp
<1>2. child' \in Process /\ remover' \in Process
  BY DEF IInv, TypeOK, Process, CleanupReaps, Reaped, Running, Untouched, NoOp
<1>3. HelperOnce'
  BY DEF IInv, HelperOnce, Early, CleanupReaps, Reaped, Running, Untouched, NoOp
<1>4. TypeOK'
  BY <1>1, <1>2, <1>3 DEF IInv, TypeOK, HelperOnce, CleanupReaps, Reaped, Running,
       Untouched, NoOp
<1>5. SlotFree'
  BY DEF IInv, SlotFree, Idle, CleanupReaps, Reaped, Running, Untouched, NoOp
<1>6. AbsenceKnown'
  BY DEF IInv, AbsenceKnown, Late, CleanupReaps, Reaped, Running, Untouched, NoOp
<1>7. CleanupOrdered'
  BY DEF IInv, TypeOK, OpType, HelperOnce, Early, AbsenceKnown, Late, CleanupOrdered,
       Removed, SlotFree, Idle, NoOp, CleanupReaps, Reaped, Running, Untouched
<1>8. RequestAlone'
  BY DEF IInv, RequestAlone, Idle, CleanupReaps, Reaped, Running, Untouched, NoOp
<1>9. RowOfSnapshot'
  BY DEF IInv, RowOfSnapshot, CleanupReaps, Reaped, Running, Untouched, NoOp
<1>10. CloseOrdered'
  BY DEF IInv, CloseOrdered, ExitNotBlamed, CleanupReaps, Reaped, Running, Untouched, NoOp
<1> QED
  BY <1>3, <1>4, <1>5, <1>6, <1>7, <1>8, <1>9, <1>10 DEF IInv

LEMMA CleanupAsksSound ==
  ASSUME IInv, op.error, task.kind # None, UNCHANGED <<task, search>>, Rest,
         CleanupAsks
  PROVE  IInv'
PROOF
<1>1. HelperOnce'
  BY DEF IInv, HelperOnce, Early, CleanupAsks, Ask, Untouched, NoOp
<1>2. TypeOK'
  BY <1>1 DEF IInv, TypeOK, HelperOnce, CleanupAsks, Ask, Untouched, NoOp
<1>3. SlotFree'
  BY DEF IInv, SlotFree, Idle, CleanupAsks, Ask, Untouched, NoOp
<1>4. AbsenceKnown'
  BY DEF IInv, AbsenceKnown, Late, CleanupAsks, Ask, Untouched, NoOp
<1>5. CleanupOrdered'
  BY DEF IInv, CleanupOrdered, Removed, Late, CleanupAsks, Ask, Untouched, NoOp
<1>6. RequestAlone'
  BY DEF IInv, RequestAlone, Idle, CleanupAsks, Ask, Untouched, NoOp
<1>7. RowOfSnapshot'
  BY DEF IInv, RowOfSnapshot, CleanupAsks, Ask, Untouched, NoOp
<1>8. CloseOrdered'
  BY DEF IInv, CloseOrdered, ExitNotBlamed, CleanupAsks, Ask, Untouched, NoOp
<1> QED
  BY <1>1, <1>2, <1>3, <1>4, <1>5, <1>6, <1>7, <1>8 DEF IInv

LEMMA CleanupFindsAbsentSound ==
  ASSUME IInv, op.error, task.kind # None, UNCHANGED <<task, search>>, Rest,
         CleanupFindsAbsent
  PROVE  IInv'
PROOF
<1>1. op' \in OpType
  BY DEF IInv, TypeOK, OpType, CleanupFindsAbsent, Untouched
<1>2. HelperOnce'
  BY DEF IInv, TypeOK, OpType, HelperOnce, Early, CleanupOrdered, Removed, Late,
       CleanupFindsAbsent, Untouched
<1>3. TypeOK'
  BY <1>1, <1>2 DEF IInv, TypeOK, HelperOnce, CleanupFindsAbsent, Untouched
<1>4. SlotFree'
  BY DEF IInv, SlotFree, Idle, CleanupFindsAbsent, Untouched
<1>5. AbsenceKnown'
  BY DEF IInv, AbsenceKnown, Late, CleanupFindsAbsent, Untouched
<1>6. CleanupOrdered'
  BY DEF IInv, TypeOK, OpType, HelperOnce, Early, AbsenceKnown, Late, CleanupOrdered,
       Removed, SlotFree, Idle, NoOp, CleanupFindsAbsent, Untouched
<1>7. RequestAlone'
  BY DEF IInv, RequestAlone, Idle, CleanupFindsAbsent, Untouched
<1>8. RowOfSnapshot'
  BY DEF IInv, RowOfSnapshot, CleanupFindsAbsent, Untouched
<1>9. CloseOrdered'
  BY DEF IInv, CloseOrdered, ExitNotBlamed, CleanupFindsAbsent, Untouched
<1> QED
  BY <1>2, <1>3, <1>4, <1>5, <1>6, <1>7, <1>8, <1>9 DEF IInv

LEMMA CleanupFindsLoadedSound ==
  ASSUME IInv, op.error, task.kind # None, UNCHANGED <<task, search>>, Rest,
         CleanupFindsLoaded
  PROVE  IInv'
PROOF
<1>1. op' \in OpType
  BY DEF IInv, TypeOK, OpType, CleanupFindsLoaded, Untouched
<1>2. child' \in Process /\ remover' \in Process
  BY DEF IInv, TypeOK, Process, CleanupFindsLoaded, Untouched
<1>3. HelperOnce'
  <2>1. UNCHANGED <<child, script>> /\ child = None
    BY DEF IInv, HelperOnce, CleanupOrdered, CleanupFindsLoaded, Untouched
  <2>2. op' = [op EXCEPT !.cleanup = "remove"] \/ op' = op
    BY DEF CleanupFindsLoaded
  <2> QED
    BY <2>1, <2>2 DEF IInv, TypeOK, OpType, HelperOnce, Early
<1>4. TypeOK'
  BY <1>1, <1>2, <1>3 DEF IInv, TypeOK, HelperOnce, CleanupFindsLoaded, Untouched
<1>5. SlotFree'
  BY DEF IInv, TypeOK, OpType, SlotFree, Idle, CleanupFindsLoaded, Untouched
<1>6. AbsenceKnown'
  BY DEF IInv, TypeOK, OpType, AbsenceKnown, Late, CleanupFindsLoaded, Untouched
<1>7. CleanupOrdered'
  BY DEF IInv, TypeOK, OpType, CleanupOrdered, Removed, Late, CleanupFindsLoaded, Untouched
<1>8. RequestAlone'
  BY DEF IInv, TypeOK, OpType, RequestAlone, Idle, CleanupFindsLoaded, Untouched
<1>9. RowOfSnapshot'
  BY DEF IInv, TypeOK, OpType, RowOfSnapshot, CleanupFindsLoaded, Untouched
<1>10. CloseOrdered'
  BY DEF IInv, TypeOK, OpType, CloseOrdered, ExitNotBlamed, CleanupFindsLoaded, Untouched
<1> QED
  BY <1>3, <1>4, <1>5, <1>6, <1>7, <1>8, <1>9, <1>10 DEF IInv

LEMMA CleanupRemovedSound ==
  ASSUME IInv, op.error, task.kind # None, UNCHANGED <<task, search>>, Rest,
         CleanupRemoved
  PROVE  IInv'
PROOF
<1>1. op' \in OpType
  BY DEF IInv, TypeOK, OpType, CleanupRemoved, Untouched
<1>2. child' \in Process /\ remover' \in Process
  BY DEF IInv, TypeOK, Process, CleanupRemoved, Untouched
<1>3. HelperOnce'
  BY DEF IInv, HelperOnce, Early, CleanupRemoved, Untouched
<1>4. TypeOK'
  BY <1>1, <1>2, <1>3 DEF IInv, TypeOK, HelperOnce, CleanupRemoved, Untouched
<1>5. SlotFree'
  BY DEF IInv, SlotFree, Idle, CleanupRemoved, Untouched
<1>6. AbsenceKnown'
  BY DEF IInv, AbsenceKnown, Late, CleanupRemoved, Untouched
<1>7. CleanupOrdered'
  BY DEF IInv, CleanupOrdered, Removed, Late, CleanupRemoved, Untouched
<1>8. RequestAlone'
  BY DEF IInv, RequestAlone, Idle, CleanupRemoved, Untouched
<1>9. RowOfSnapshot'
  BY DEF IInv, RowOfSnapshot, CleanupRemoved, Untouched
<1>10. CloseOrdered'
  BY DEF IInv, CloseOrdered, ExitNotBlamed, CleanupRemoved, Untouched
<1> QED
  BY <1>3, <1>4, <1>5, <1>6, <1>7, <1>8, <1>9, <1>10 DEF IInv

LEMMA CleanupSound ==
  ASSUME IInv, op.error, task.kind # None, UNCHANGED <<task, search>>, Rest, CleanupWorks
  PROVE  IInv'
BY CleanupReapsSound, CleanupAsksSound, CleanupFindsAbsentSound, CleanupFindsLoadedSound,
   CleanupRemovedSound DEF CleanupWorks

(***************************************************************************)
(* The tasks' steps.                                                       *)
(***************************************************************************)
LEMMA BeginSound == ASSUME IInv, Begin PROVE IInv'
PROOF
<1>1. task' \in TaskType
  <2>1. PICK k \in Kinds, byApp \in BOOLEAN :
          task' = [NoTask EXCEPT !.kind = k,
                                 !.byApp = byApp /\ k \in {"focus", "title", "close"}]
    BY DEF Begin
  <2>2. k \in TaskKind
    BY WindowAssumption DEF TaskKind
  <2>3. NoTask \in TaskType
    BY BlankTypes
  <2> QED
    BY <2>1, <2>2, <2>3 DEF TaskType
<1>2. pid' \in [holder : Holder, last : Holder, indexed : {None, "since", "before"}]
  BY WindowAssumption DEF IInv, TypeOK, Holder, Begin, NoTask, NoApp, NoOp
<1>3. app' \in [state : {None, "live", "exited"}, completed : BOOLEAN]
  BY DEF IInv, TypeOK, NoApp, Begin, NoTask, NoApp, NoOp
<1>4. queued' \subseteq Records
  BY DEF IInv, TypeOK, Records, Begin, NoTask, NoApp, NoOp
<1>5. HelperOnce'
  BY DEF IInv, HelperOnce, Early, Begin, NoTask, NoApp, NoOp
<1>6. TypeOK'
  BY <1>1, <1>2, <1>3, <1>4, <1>5 DEF IInv, TypeOK, HelperOnce, Begin, NoTask, NoApp, NoOp
<1>7. SlotFree'
  BY DEF IInv, SlotFree, Idle, Begin, NoTask, NoApp, NoOp
<1>8. AbsenceKnown'
  BY DEF IInv, AbsenceKnown, Late, Begin, NoTask, NoApp, NoOp
<1>9. CleanupOrdered'
  BY DEF IInv, CleanupOrdered, Removed, Late, Begin, NoTask, NoApp, NoOp
<1>10. RequestAlone'
  BY DEF IInv, RequestAlone, Idle, Begin, NoTask, NoApp, NoOp
<1>11. RowOfSnapshot'
  BY DEF IInv, TypeOK, SlotFree, HelperOnce, AbsenceKnown, CleanupOrdered, RequestAlone,
       RowOfSnapshot, CloseOrdered, ExitNotBlamed, Idle, Early, Late, Removed, Begin,
       NoTask, NoApp, NoOp, OpType
<1>12. CloseOrdered'
  BY DEF IInv, TypeOK, SlotFree, HelperOnce, AbsenceKnown, CleanupOrdered, RequestAlone,
       RowOfSnapshot, CloseOrdered, ExitNotBlamed, Idle, Early, Late, Removed, Begin,
       NoTask, NoApp, NoOp, OpType
<1> QED
  BY <1>5, <1>6, <1>7, <1>8, <1>9, <1>10, <1>11, <1>12 DEF IInv

LEMMA StartQuerySound == ASSUME IInv, StartQuery PROVE IInv'
PROOF
<1>1. op' \in OpType
  BY BlankTypes DEF IInv, TypeOK, OpKind, StartQuery, Continues, Working, NewOp, NoOp
<1>2. HelperOnce'
  BY DEF IInv, TypeOK, OpType, HelperOnce, Early, AbsenceKnown, Late, CleanupOrdered,
       Removed, SlotFree, Idle, NoOp, StartQuery, Continues, Working, NewOp
<1>3. TypeOK'
  BY <1>1, <1>2 DEF IInv, TypeOK, HelperOnce, StartQuery, Continues, Working, NewOp, NoOp
<1>4. SlotFree'
  BY DEF IInv, SlotFree, Idle, StartQuery, Continues, Working, NewOp, NoOp
<1>5. AbsenceKnown'
  BY DEF IInv, TypeOK, OpType, HelperOnce, Early, AbsenceKnown, Late, CleanupOrdered,
       Removed, SlotFree, Idle, NoOp, StartQuery, Continues, Working, NewOp
<1>6. CleanupOrdered'
  BY DEF IInv, TypeOK, OpType, HelperOnce, Early, AbsenceKnown, Late, CleanupOrdered,
       Removed, SlotFree, Idle, NoOp, StartQuery, Continues, Working, NewOp
<1>7. RequestAlone'
  BY DEF IInv, RequestAlone, Idle, StartQuery, Continues, Working, NewOp, NoOp
<1>8. RowOfSnapshot'
  BY DEF IInv, RowOfSnapshot, StartQuery, Continues, Working, NewOp, NoOp
<1>9. CloseOrdered'
  BY DEF IInv, CloseOrdered, ExitNotBlamed, StartQuery, Continues, Working, NewOp, NoOp
<1> QED
  BY <1>2, <1>3, <1>4, <1>5, <1>6, <1>7, <1>8, <1>9 DEF IInv

LEMMA GuardRecordsSound == ASSUME IInv, GuardRecords PROVE IInv'
PROOF
<1>1. task' \in TaskType
  BY DEF IInv, TypeOK, TaskType, GuardRecords, Continues, Working
<1>2. queued' \subseteq Records
  BY DEF IInv, TypeOK, Records, GuardRecords, Continues, Working
<1>3. HelperOnce'
  BY DEF IInv, HelperOnce, Early, GuardRecords, Continues, Working
<1>4. TypeOK'
  BY <1>1, <1>2, <1>3 DEF IInv, TypeOK, HelperOnce, GuardRecords, Continues, Working
<1>5. SlotFree'
  BY DEF IInv, SlotFree, Idle, GuardRecords, Continues, Working
<1>6. AbsenceKnown'
  BY DEF IInv, AbsenceKnown, Late, GuardRecords, Continues, Working
<1>7. CleanupOrdered'
  BY DEF IInv, CleanupOrdered, Removed, Late, GuardRecords, Continues, Working
<1>8. RequestAlone'
  BY DEF IInv, RequestAlone, Idle, GuardRecords, Continues, Working
<1>9. RowOfSnapshot'
  BY DEF IInv, RowOfSnapshot, GuardRecords, Continues, Working
<1>10. CloseOrdered'
  BY DEF IInv, CloseOrdered, ExitNotBlamed, GuardRecords, Continues, Working
<1> QED
  BY <1>3, <1>4, <1>5, <1>6, <1>7, <1>8, <1>9, <1>10 DEF IInv

LEMMA GuardPassesSound == ASSUME IInv, GuardPasses PROVE IInv'
PROOF
<1>1. op' \in OpType
  BY DEF IInv, TypeOK, OpType, Phases, GuardPasses, Continues, Working, Guarding, Spawn
<1>2. child' \in Process
  BY DEF IInv, TypeOK, Process, GuardPasses, Continues, Working, Guarding, Spawn
<1>3. HelperOnce'
  BY DEF IInv, TypeOK, OpType, HelperOnce, Early, CleanupOrdered, Removed, Late,
       GuardPasses, Continues, Working, Guarding, Spawn
<1>4. TypeOK'
  BY <1>1, <1>2, <1>3 DEF IInv, TypeOK, HelperOnce, GuardPasses, Continues, Working,
       Guarding, Spawn
<1>5. SlotFree'
  BY DEF IInv, SlotFree, Idle, GuardPasses, Continues, Working, Guarding, Spawn
<1>6. AbsenceKnown'
  BY DEF IInv, AbsenceKnown, Late, GuardPasses, Continues, Working, Guarding, Spawn
<1>7. CleanupOrdered'
  BY DEF IInv, CleanupOrdered, Removed, Late, GuardPasses, Continues, Working, Guarding,
       Spawn
<1>8. RequestAlone'
  BY DEF IInv, RequestAlone, Idle, GuardPasses, Continues, Working, Guarding, Spawn
<1>9. RowOfSnapshot'
  BY DEF IInv, TypeOK, OpType, HelperOnce, Early, CleanupOrdered, Removed, Late,
       RowOfSnapshot, GuardPasses, Continues, Working, Guarding, Spawn
<1>10. CloseOrdered'
  BY DEF IInv, CloseOrdered, ExitNotBlamed, GuardPasses, Continues, Working, Guarding, Spawn
<1> QED
  BY <1>3, <1>4, <1>5, <1>6, <1>7, <1>8, <1>9, <1>10 DEF IInv

LEMMA TaskFailsSound == ASSUME IInv, TaskFails PROVE IInv'
PROOF
<1>1. op' \in OpType
  BY ZenonT(60) DEF IInv, TypeOK, OpType, SlotFree, Idle, TaskFails, Working, Fail, Abort,
       Cancelled, Exited, ExitFails, Looks, Guarding
<1>2. task' \in TaskType
  BY DEF IInv, TypeOK, TaskType, TaskFails, Working, Fail, Abort, Cancelled, Exited,
       ExitFails, Looks, Guarding
<1>3. child' \in Process /\ search' \in Process
  BY DEF IInv, TypeOK, Process, TaskFails, Working, Fail, Abort, Cancelled, Exited,
       ExitFails, Looks, Guarding
<1>4. HelperOnce'
  <2>1. UNCHANGED script /\ op' = Cancelled(op) /\ (child' # None => child # None)
    BY DEF TaskFails, Fail, Abort, None
  <2> QED
    BY <2>1 DEF IInv, TypeOK, OpType, HelperOnce, Cancelled
<1>5. TypeOK'
  BY <1>1, <1>2, <1>3, <1>4 DEF IInv, TypeOK, HelperOnce, TaskFails, Working, Fail,
       Abort, Cancelled, Exited, ExitFails, Looks, Guarding
<1>6. SlotFree'
  BY DEF IInv, TypeOK, OpType, SlotFree, Idle, TaskFails, Working, Fail, Abort,
       Cancelled, Exited, ExitFails, Looks, Guarding
<1>7. AbsenceKnown'
  BY DEF IInv, TypeOK, OpType, AbsenceKnown, Late, TaskFails, Working, Fail, Abort,
       Cancelled, Exited, ExitFails, Looks, Guarding
<1>8. CleanupOrdered'
  BY DEF IInv, TypeOK, OpType, CleanupOrdered, Removed, Late, TaskFails, Working, Fail,
       Abort, Cancelled, Exited, ExitFails, Looks, Guarding
<1>9. RequestAlone'
  <2>1. /\ UNCHANGED available /\ op' = Cancelled(op) /\ (search' # None => search # None)
        /\ task'.kind = task.kind /\ task.kind # None
    BY DEF IInv, TypeOK, TaskType, TaskFails, Working, Fail, Abort, None
  <2> QED
    BY <2>1 DEF IInv, RequestAlone, Cancelled, Idle
<1>10. RowOfSnapshot'
  BY DEF IInv, TypeOK, OpType, RowOfSnapshot, TaskFails, Working, Fail, Abort, Cancelled,
       Exited, ExitFails, Looks, Guarding
<1>11. CloseOrdered'
  <2>1. /\ UNCHANGED app /\ op' = Cancelled(op)
        /\ task'.kind = task.kind /\ task'.phase = task.phase /\ task'.exited = task.exited
        /\ task'.dispatch = task.dispatch
        /\ task'.error = "application_exited" => ExitFails /\ (Looks \/ Guarding)
    BY DEF IInv, TypeOK, TaskType, TaskFails, Working, Fail, Abort
  <2>2. op'.kind = op.kind /\ op'.spawned = op.spawned
    BY <2>1 DEF IInv, TypeOK, OpType, Cancelled
  <2>3. op.kind = "close" /\ task.kind = "close" /\ (Looks \/ Guarding) => ~op.spawned
    BY DEF IInv, CloseOrdered, Looks, Guarding, HelperOnce, Early, TaskFails, Working, None
  <2> QED
    BY <2>1, <2>2, <2>3 DEF IInv, CloseOrdered, ExitNotBlamed, ExitFails
<1> QED
  BY <1>4, <1>5, <1>6, <1>7, <1>8, <1>9, <1>10, <1>11 DEF IInv

LEMMA CloseSupersedesSound == ASSUME IInv, CloseSupersedes PROVE IInv'
PROOF
<1>1. op' \in OpType
  BY DEF IInv, TypeOK, OpType, CloseSupersedes, CloseExited, Working, Known, ExitFails,
       Abort, Cancelled
<1>2. task' \in TaskType
  BY DEF IInv, TypeOK, TaskType, CloseSupersedes, CloseExited, Working, Known, ExitFails,
       Abort, Cancelled
<1>3. child' \in Process
  BY DEF IInv, TypeOK, Process, CloseSupersedes, CloseExited, Working, Known, ExitFails,
       Abort, Cancelled
<1>4. HelperOnce'
  BY DEF IInv, HelperOnce, Early, CloseSupersedes, CloseExited, Working, Known,
       ExitFails, Abort, Cancelled
<1>5. TypeOK'
  BY <1>1, <1>2, <1>3, <1>4 DEF IInv, TypeOK, HelperOnce, CloseSupersedes, CloseExited,
       Working, Known, ExitFails, Abort, Cancelled
<1>6. SlotFree'
  BY DEF IInv, SlotFree, Idle, CloseSupersedes, CloseExited, Working, Known, ExitFails,
       Abort, Cancelled
<1>7. AbsenceKnown'
  BY DEF IInv, AbsenceKnown, Late, CloseSupersedes, CloseExited, Working, Known,
       ExitFails, Abort, Cancelled
<1>8. CleanupOrdered'
  BY DEF IInv, CleanupOrdered, Removed, Late, CloseSupersedes, CloseExited, Working,
       Known, ExitFails, Abort, Cancelled
<1>9. RequestAlone'
  BY DEF IInv, RequestAlone, Idle, CloseSupersedes, CloseExited, Working, Known,
       ExitFails, Abort, Cancelled
<1>10. RowOfSnapshot'
  BY DEF IInv, RowOfSnapshot, CloseSupersedes, CloseExited, Working, Known, ExitFails,
       Abort, Cancelled
<1>11. CloseOrdered'
  BY DEF IInv, CloseOrdered, ExitNotBlamed, CloseSupersedes, CloseExited, Working, Known,
       Found, ExitFails, Abort, Cancelled
<1> QED
  BY <1>4, <1>5, <1>6, <1>7, <1>8, <1>9, <1>10, <1>11 DEF IInv

LEMMA EscalatesSound == ASSUME IInv, Escalates PROVE IInv'
PROOF
<1>1. remover' \in Process
  BY DEF IInv, TypeOK, Process, Escalates, Failed, NoTask
<1>2. task' \in TaskType
  BY BlankTypes DEF IInv, TypeOK, Escalates, Failed, NoTask
<1>3. HelperOnce'
  BY DEF IInv, HelperOnce, Early, Escalates, Failed, NoTask
<1>4. TypeOK'
  BY <1>1, <1>2, <1>3 DEF IInv, TypeOK, HelperOnce, Escalates, Failed, NoTask
<1>5. SlotFree'
  BY DEF IInv, SlotFree, Idle, Escalates, Failed, NoTask
<1>6. AbsenceKnown'
  BY DEF IInv, AbsenceKnown, Late, Escalates, Failed, NoTask
<1>7. CleanupOrdered'
  BY DEF IInv, CleanupOrdered, Removed, Late, Escalates, Failed, NoTask
<1>8. RequestAlone'
  BY DEF IInv, RequestAlone, Idle, Escalates, Failed, NoTask
<1>9. RowOfSnapshot'
  BY DEF IInv, RowOfSnapshot, Escalates, Failed, NoTask
<1>10. CloseOrdered'
  BY DEF IInv, CloseOrdered, ExitNotBlamed, Escalates, Failed, NoTask
<1> QED
  BY <1>3, <1>4, <1>5, <1>6, <1>7, <1>8, <1>9, <1>10 DEF IInv

(***************************************************************************)
(* The steps that take an operation's result.                              *)
(***************************************************************************)
LEMMA SucceedsSound == ASSUME IInv, Returned, Succeeds PROVE IInv'
PROOF
<1>1. Finish("succeeded") /\ op' = NoOp /\ UNCHANGED <<child, remover, script, dir, bus, search>>
  BY DEF Succeeds
<1>2. script' \in BOOLEAN /\ dir' \in BOOLEAN
  BY <1>1 DEF IInv, TypeOK
<1> QED
  BY <1>1, <1>2, ReturnedFree, FinishSound

LEMMA AgainSound == ASSUME IInv, Returned, Again, task.phase # "close_request" PROVE IInv'
PROOF
<1>1. op' = NoOp /\ task' = task /\ UNCHANGED <<Native, search, app, pid, queued>> /\ Rest
  BY DEF Again, Then
<1>2. task' \in TaskType /\ queued' \subseteq Records
  BY <1>1 DEF IInv, TypeOK
<1>3. CloseOrdered'
  BY <1>1 DEF IInv, CloseOrdered, ExitNotBlamed, NoOp
<1> QED
  BY <1>1, <1>2, <1>3, ReturnSound

LEMMA ResultRefusedSound == ASSUME IInv, ResultRefused PROVE IInv'
PROOF
<1>1. /\ op' = NoOp /\ task' = [task EXCEPT !.error = "application_exited"]
      /\ UNCHANGED <<Native, search, app, pid, queued>> /\ Rest
      /\ Returned /\ task.dispatch # "transport_completed"
  BY DEF ResultRefused, Then, ExitFails
<1>2. task' \in TaskType /\ task'.kind = task.kind /\ queued' \subseteq Records
  BY <1>1 DEF IInv, TypeOK, TaskType
<1>3. CloseOrdered'
  BY <1>1 DEF IInv, TypeOK, TaskType, CloseOrdered, ExitNotBlamed, NoOp
<1> QED
  BY <1>1, <1>2, <1>3, ReturnSound

LEMMA FocusReturnsSound == ASSUME IInv, FocusReturns PROVE IInv'
PROOF
<1>1. Returned /\ task.kind = "focus"
  BY DEF FocusReturns
<1>2. CASE Then(NewOp("activation"), [task EXCEPT !.phase = "activate", !.row = op.row])
           /\ UNCHANGED queued
  <2>1. /\ op' = NewOp("activation") /\ task' = [task EXCEPT !.phase = "activate", !.row = op.row]
        /\ UNCHANGED <<Native, search, app, pid, queued>> /\ Rest
    BY <1>2 DEF Then
  <2>2. task' \in TaskType /\ task'.kind = "focus" /\ queued' \subseteq Records
    BY <1>1, <2>1 DEF IInv, TypeOK, TaskType, OpType
  <2>3. CloseOrdered'
    BY <1>1, <2>1, <2>2 DEF IInv, TypeOK, TaskType, CloseOrdered, ExitNotBlamed, NewOp, NoOp
  <2> QED
    BY <1>1, <2>1, <2>2, <2>3, ReturnSound
<1>3. CASE Then(NoOp, [task EXCEPT !.phase = "focus_wait"]) /\ UNCHANGED queued
  <2>1. /\ op' = NoOp /\ task' = [task EXCEPT !.phase = "focus_wait"]
        /\ UNCHANGED <<Native, search, app, pid, queued>> /\ Rest
    BY <1>3 DEF Then
  <2>2. task' \in TaskType /\ task'.kind = "focus" /\ queued' \subseteq Records
    BY <1>1, <2>1 DEF IInv, TypeOK, TaskType
  <2>3. CloseOrdered'
    BY <1>1, <2>1, <2>2 DEF IInv, TypeOK, TaskType, CloseOrdered, ExitNotBlamed, NoOp
  <2> QED
    BY <1>1, <2>1, <2>2, <2>3, ReturnSound
<1>4. CASE task.phase = "focus_wait" /\ (Again \/ Succeeds)
  BY <1>1, <1>4, AgainSound, SucceedsSound
<1> QED
  BY <1>2, <1>3, <1>4 DEF FocusReturns

LEMMA TitleReturnsSound == ASSUME IInv, TitleReturns PROVE IInv'
PROOF
<1>1. Returned /\ task.kind = "title"
  BY DEF TitleReturns
<1>2. CASE Again
  <2>1. op' = NoOp /\ task' = task /\ UNCHANGED <<Native, search, app, pid, queued>> /\ Rest
    BY <1>2 DEF Again, Then
  <2>2. task' \in TaskType /\ queued' \subseteq Records
    BY <2>1 DEF IInv, TypeOK
  <2>3. CloseOrdered'
    BY <1>1, <2>1 DEF IInv, CloseOrdered, ExitNotBlamed, NoOp
  <2> QED
    BY <1>1, <2>1, <2>2, <2>3, ReturnSound
<1>3. CASE Succeeds
  BY <1>1, <1>3, SucceedsSound
<1>4. CASE op' = NoOp /\ search' = "running" /\ UNCHANGED <<task, Native, World>> /\ Rest
  <2>1. TypeOK'
    BY <1>4, BlankTypes, ReturnedFree, <1>1 DEF IInv, TypeOK, Process
  <2> QED
    BY <1>1, <1>4, <2>1, ReturnedFree DEF NoOp, IInv, SlotFree, HelperOnce, AbsenceKnown,
       CleanupOrdered, RequestAlone, RowOfSnapshot, CloseOrdered, ExitNotBlamed, Idle, Early, Late,
       Removed
<1> QED
  BY <1>2, <1>3, <1>4 DEF TitleReturns

LEMMA TitleSearchedSound == ASSUME IInv, TitleSearched PROVE IInv'
PROOF
<1>1. search' = None /\ task.kind # None /\ search # None /\ Idle
  BY DEF IInv, RequestAlone, TitleSearched, Continues, Working
<1>2. CASE UNCHANGED <<task, op, Native, World>> /\ Rest
  <2>1. TypeOK'
    BY <1>1, <1>2 DEF IInv, TypeOK, Process
  <2> QED
    BY <1>1, <1>2, <2>1 DEF IInv, SlotFree, HelperOnce, AbsenceKnown,
       CleanupOrdered, RequestAlone, RowOfSnapshot, CloseOrdered, ExitNotBlamed, Idle, Early, Late,
       Removed
<1>3. CASE Finish("succeeded") /\ UNCHANGED <<op, Native>>
  <2>1. op' = NoOp /\ child' = None /\ remover' = None /\ bus' = None /\ ~script' /\ ~dir'
    BY <1>1, <1>3 DEF IInv, SlotFree
  <2>2. script' \in BOOLEAN /\ dir' \in BOOLEAN
    BY <1>3 DEF IInv, TypeOK
  <2> QED
    BY <1>1, <1>3, <2>1, <2>2, FinishSound
<1> QED
  BY <1>2, <1>3 DEF TitleSearched

LEMMA CloseReturnsSound ==
  ASSUME IInv, CloseResolves \/ CloseRequested \/ ClosePolls PROVE IInv'
PROOF
<1>1. Returned /\ task.kind = "close"
  BY DEF CloseResolves, CloseRequested, ClosePolls
<1>2. CASE CloseResolves
  <2>1. /\ op' = NewOp("close")
        /\ task' = [task EXCEPT !.phase = "close_request", !.row = op.row, !.byApp = TRUE]
        /\ UNCHANGED <<Native, search, app, pid, queued>> /\ Rest
    BY <1>2 DEF CloseResolves, Then
  <2>2. task' \in TaskType /\ task'.kind = "close" /\ queued' \subseteq Records
    BY <1>1, <2>1 DEF IInv, TypeOK, TaskType, OpType
  <2>3. CloseOrdered'
    BY <1>1, <2>1, <2>2 DEF IInv, TypeOK, TaskType, CloseOrdered, ExitNotBlamed, NewOp, NoOp
  <2> QED
    BY <1>1, <2>1, <2>2, <2>3, ReturnSound
<1>3. CASE CloseRequested
  <2>1. PICK seen \in {Found, Exited} :
        /\ op' = NoOp
        /\ task' = [task EXCEPT !.phase = "exit_wait", !.dispatch = "transport_completed",
                                !.exited = seen]
        /\ queued' = queued \cup {"effects"}
        /\ UNCHANGED <<Native, search, app, pid>> /\ Rest
    BY <1>3 DEF CloseRequested
  <2>2. task' \in TaskType /\ task'.kind = "close" /\ queued' \subseteq Records
    BY <1>1, <2>1 DEF IInv, TypeOK, TaskType, Exited, Found, Records
  <2>3. task.error = None
    BY <1>1 DEF Returned, Continues, Working
  <2>4. CloseOrdered'
    BY <1>1, <2>1, <2>2, <2>3
       DEF IInv, TypeOK, TaskType, CloseOrdered, ExitNotBlamed, NoOp, Exited, Found
  <2> QED
    BY <1>1, <2>1, <2>2, <2>4, ReturnSound
<1>4. CASE ClosePolls
  <2>1. /\ op' = NoOp /\ task' = task /\ queued' = queued \cup {"effects"}
        /\ UNCHANGED <<Native, search, app, pid>> /\ Rest
    BY <1>4 DEF ClosePolls, Then
  <2>2. task' \in TaskType /\ queued' \subseteq Records
    BY <2>1 DEF IInv, TypeOK, Records
  <2>3. CloseOrdered'
    BY <1>1, <2>1 DEF IInv, CloseOrdered, ExitNotBlamed, NoOp
  <2> QED
    BY <1>1, <2>1, <2>2, <2>3, ReturnSound
<1> QED
  BY <1>2, <1>3, <1>4

\* A request's end in its cleanup, or with nothing to clean up.
LEMMA EndsSound == ASSUME IInv, CloseEnds \/ FailedEnds PROVE IInv'
PROOF
<1>1. task.kind # None /\ search' = None
  BY DEF IInv, RequestAlone, CloseEnds, FailedEnds, CloseExited, Working, Failed, NoTask
<1>2. PICK e \in {"succeeded", "failed"} : Finish(e)
  BY DEF CloseEnds, FailedEnds
<1>3. CASE Idle /\ UNCHANGED <<op, Native>>
  <2>1. op' = NoOp /\ child' = None /\ remover' = None /\ bus' = None /\ ~script' /\ ~dir'
    BY <1>3 DEF IInv, SlotFree
  <2>2. script' \in BOOLEAN /\ dir' \in BOOLEAN
    BY <1>3 DEF IInv, TypeOK
  <2> QED
    BY <1>1, <1>2, <2>1, <2>2, FinishSound
<1>4. CASE CleanupEnds /\ Freed
  <2>1. /\ op' = NoOp /\ dir' = FALSE
        /\ child' = None /\ remover' = None /\ bus' = None /\ ~script'
    BY <1>4, CleanedFree DEF Freed
  <2>2. script' \in BOOLEAN /\ dir' \in BOOLEAN
    BY <1>4 DEF IInv, TypeOK, Freed
  <2> QED
    BY <1>1, <1>2, <2>1, <2>2, FinishSound
<1> QED
  BY <1>3, <1>4 DEF CloseEnds, FailedEnds

LEMMA IInvStep == ASSUME IInv, [Next]_vars PROVE IInv'
PROOF
<1>1. CASE Environment
  BY <1>1, WriterWritesSound, ProcessesSound, AppExitsSound, AppObservedSound,
       KWinAnswersSound,
     ChildLoadsSound, ChildEndsSound, RemoverEndsSound, SearchEndsSound DEF Environment
<1>2. CASE WindowsEnds \/ GoneReturns
  <2>1. Returned /\ task.kind \in {"windows", "gone"} /\ (Succeeds \/ Again)
    BY <1>2 DEF WindowsEnds, GoneReturns
  <2>2. CASE Succeeds
    BY <2>1, <2>2, SucceedsSound
  <2>3. CASE Again
    <3>1. op' = NoOp /\ task' = task /\ UNCHANGED <<Native, search, app, pid, queued>> /\ Rest
      BY <2>3 DEF Again, Then
    <3>2. task' \in TaskType /\ queued' \subseteq Records
      BY <3>1 DEF IInv, TypeOK
    <3>3. CloseOrdered'
      BY <2>1, <3>1 DEF IInv, CloseOrdered, ExitNotBlamed, NoOp
    <3> QED
      BY <2>1, <3>1, <3>2, <3>3, ReturnSound
  <2> QED
    BY <2>1, <2>2, <2>3
<1>3. CASE CleansUp \/ CloseCleans
  <2>1. task.kind # None
    BY <1>3 DEF IInv, RequestAlone, CleansUp, CloseCleans, CloseExited, Working, Failed,
         NoTask
  <2> QED
    BY <1>3, <2>1, CleanupSound DEF CleansUp, CloseCleans
<1>4. CASE UNCHANGED vars
  BY <1>4 DEF vars, IInv, TypeOK, SlotFree, HelperOnce, AbsenceKnown, CleanupOrdered,
       RequestAlone,
     RowOfSnapshot, CloseOrdered, ExitNotBlamed, Idle
<1> QED
  BY <1>1, <1>2, <1>3, <1>4, BeginSound, StartQuerySound, AdvancesSound, GuardRecordsSound,
     GuardPassesSound, ResultRefusedSound, FocusReturnsSound, TitleReturnsSound,
     TitleSearchedSound, CloseReturnsSound, CloseSupersedesSound, EndsSound, TaskFailsSound,
     EscalatesSound DEF Next

THEOREM WindowInvariant == Spec => []IInv
PROOF
<1>1. IInv /\ [Next]_vars => IInv'
  BY IInvStep
<1> QED
  BY InitSound, <1>1, PTL DEF Spec

\* No process of an application that exited holds the window's pid, whether or not the
\* registry has seen the exit.
HolderGone == app.state = "exited" => pid.holder = 0

LEMMA HolderGoneStep == IInv /\ HolderGone /\ [Next]_vars => HolderGone'
PROOF
<1> SUFFICES ASSUME IInv, HolderGone, [Next]_vars PROVE HolderGone'
  OBVIOUS
<1>1. CASE UNCHANGED <<app, pid>>
  BY <1>1 DEF HolderGone
<1>2. CASE Begin
  BY <1>2 DEF Begin, HolderGone, NoApp, None
<1>3. CASE Processes \/ AppExits \/ AppObserved
  BY <1>3 DEF Processes, AppExits, AppObserved, HolderGone, IInv, TypeOK
<1>4. ASSUME NEW e, Finish(e) PROVE HolderGone'
  BY <1>4 DEF Finish, HolderGone, NoApp, None
<1>5. CASE OpWorks
  BY <1>5 DEF OpWorks, OpPrepare, Bracketed, OpAsks, OpAbsent, QueryDispatch, OpReceives,
       QueryAssociates, OpRemovesDirectory, QueryObservation, QueryObserved, QueryRechecks,
       QueryAccepts, QueryPublishes, World, HolderGone, IInv, TypeOK
<1>6. CASE Environment
  BY <1>1, <1>3, <1>6 DEF Environment, WriterWrites, KWinAnswers, ChildLoads, ChildEnds,
       RemoverEnds, SearchEnds, World
<1>7. CASE StartQuery \/ GuardRecords \/ GuardPasses \/ ResultRefused \/ CloseResolves
           \/ CloseRequested \/ ClosePolls \/ CloseSupersedes \/ TaskFails \/ Escalates
           \/ UNCHANGED vars
  BY <1>1, <1>7 DEF StartQuery, GuardRecords, GuardPasses, ResultRefused, CloseResolves,
       CloseRequested, ClosePolls, CloseSupersedes, TaskFails, Fail, Escalates, Then, World, vars
<1>8. CASE CloseCleans \/ CleansUp
  BY <1>1, <1>8 DEF CloseCleans, CleansUp, CleanupWorks, CleanupReaps, CleanupAsks,
       CleanupFindsAbsent, CleanupFindsLoaded, CleanupRemoved, Untouched, World
<1>9. CASE WindowsEnds \/ GoneReturns \/ FocusReturns \/ TitleReturns \/ TitleSearched
           \/ CloseEnds \/ FailedEnds
  BY <1>1, <1>4, <1>9 DEF WindowsEnds, GoneReturns, FocusReturns, TitleReturns,
       TitleSearched, CloseEnds, FailedEnds, Succeeds, Again, Then, World
<1> QED
  BY <1>2, <1>5, <1>6, <1>7, <1>8, <1>9 DEF Next, Advances

THEOREM WindowHolderGone == Spec => []HolderGone
PROOF
<1>1. Init => HolderGone
  BY DEF Init, HolderGone, NoApp, None
<1> QED
  BY <1>1, HolderGoneStep, WindowInvariant, PTL DEF Spec

\* The adapter is free again only when nothing of its operation is left, on the bus, in
\* KWin or on disk, and a request that starts finds it free (Query.cleanup, Adapter.start).
THEOREM WindowSlotSound == Spec => []SlotSound
PROOF
<1>1. IInv => SlotSound
  BY DEF IInv, SlotSound, SlotReturned, SlotFree, RequestAlone, Running
<1> QED
  BY WindowInvariant, <1>1, PTL

\* A window is an application's only if the process KWin showed is, and an exit is
\* blamed on the application only before the close that causes it (window_identity,
\* observe_exit).
THEOREM WindowAttributionTrue == Spec => []AttributionTrue
PROOF
<1>1. IInv => AttributionTrue
  BY DEF IInv, AttributionTrue, AttributedToOwner, RowOfSnapshot, CloseOrdered
<1> QED
  BY WindowInvariant, <1>1, PTL

\* The helper of a focus or a close starts only once what it may do is durable and, where
\* the target is an application's, with its process verified in that very turn
\* (activation_guard).
THEOREM WindowEffectVerified == Spec => EffectVerified
PROOF
<1> DEFINE Started == op.kind \in {"activation", "close"} /\ child' = "running" /\ child # "running"
<1>1. ASSUME IInv, HolderGone, [Next]_vars, Started
      PROVE  /\ queued = {} /\ task.dispatch = "uncertain"
             /\ task.byApp => app.state = "live" /\ pid.holder = task.row
  <2>1. GuardPasses
    BY <1>1 DEF Next, vars, Begin, StartQuery, Advances, OpWorks, OpPrepare, OpAsks,
         OpAbsent,
       QueryDispatch, OpReceives, QueryAssociates, OpRemovesDirectory, QueryObservation,
       QueryObserved, QueryRechecks, QueryAccepts, QueryPublishes, GuardRecords, WindowsEnds,
       GoneReturns, ResultRefused, FocusReturns, TitleReturns, TitleSearched, Succeeds, Again, Then,
       CloseResolves, CloseRequested, ClosePolls, CloseSupersedes, CloseCleans, CloseEnds,
       TaskFails, Fail, Abort, CleansUp, CleanupWorks, CleanupReaps, CleanupAsks,
       CleanupFindsAbsent, CleanupFindsLoaded, CleanupRemoved, FailedEnds, Freed, Escalates,
       Environment, WriterWrites, Processes, AppExits, AppObserved, KWinAnswers, ChildLoads,
       ChildEnds, RemoverEnds, SearchEnds
  <2> QED
    BY <1>1, <2>1 DEF IInv, TypeOK, GuardPasses, Recorded, GuardHolds, Selected,
         SelectedHolds,
       Active, HolderGone
<1>2. IInv /\ HolderGone /\ [Next]_vars =>
        [Started => /\ queued = {} /\ task.dispatch = "uncertain"
                    /\ task.byApp => app.state = "live" /\ pid.holder = task.row]_vars
  BY <1>1
<1> QED
  BY WindowInvariant, WindowHolderGone, <1>2, PTL DEF Spec, EffectVerified

\* A close that succeeds had its request go through and its application exit, and the
\* adapter is free again (CloseOperation).
THEOREM WindowCloseProven == Spec => CloseProven
PROOF
<1> DEFINE Succeeded == task.kind = "close" /\ ended' = "succeeded" /\ ended # ended'
<1>1. ASSUME IInv, [Next]_vars, Succeeded
      PROVE  /\ task.dispatch = "transport_completed" /\ app.state = "exited"
             /\ op'.kind = None
  <2>1. CloseEnds
    BY <1>1 DEF Next, vars, Begin, StartQuery, Advances, GuardRecords, GuardPasses,
         WindowsEnds,
       GoneReturns, ResultRefused, FocusReturns, TitleReturns, TitleSearched, Then,
       CloseResolves, CloseRequested, ClosePolls, CloseSupersedes, CloseCleans,
       TaskFails, Fail, CleansUp, FailedEnds, Finish, Escalates, IInv, RequestAlone,
       Environment, WriterWrites, Processes, AppExits, AppObserved, KWinAnswers, ChildLoads,
       ChildEnds, RemoverEnds, SearchEnds
  <2>2. task.dispatch = "transport_completed" /\ app.state = "exited"
    BY <2>1 , <1>1 DEF IInv, CloseOrdered, CloseEnds, CloseExited, Known, Found,
         ExitFails
  <2>3. op'.kind = None
    BY <2>1 DEF CloseEnds, Idle, Freed, NoOp
  <2> QED
    BY <2>2, <2>3
<1>2. IInv /\ [Next]_vars =>
        [Succeeded => /\ task.dispatch = "transport_completed" /\ app.state = "exited"
                      /\ op'.kind = None]_vars
  BY <1>1
<1> QED
  BY WindowInvariant, <1>2, PTL DEF Spec, CloseProven
=============================================================================
