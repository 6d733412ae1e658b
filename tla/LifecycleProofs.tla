-------------------------- MODULE LifecycleProofs --------------------------
(***************************************************************************)
(* Proofs about the session lifecycle, for any number of managers and      *)
(* generations.                                                            *)
(***************************************************************************)
EXTENDS Lifecycle, TLAPS

-----------------------------------------------------------------------------
(* The invariant.                                                            *)

Unstarted == {"none", "inflight", "lost"}
Running == {"starting", "active", "draining", "stopping", "post"}

\* The unit was seen by systemd.
Begun(g) == unit[g] \notin Unstarted

\* Its processes count: no manager was overtaken by its hook.
Counted(g) == g \notin overtaken /\ Live(g)

\* What a record, on disk or remembered, says of the submission is true.
Known(g, data) ==
  /\ data.submission \in {"none", "reserved"} => unit[g] = "none"
  /\ data.submission = "acknowledged" => Begun(g)

Sound(g) ==
  /\ Known(g, meta[g])
  /\ populated[g] => Begun(g)
  /\ unit[g] \in Running => populated[g]
  /\ Counted(g) => g = current
  /\ g = current => meta[g] \in Meta
  /\ meta[g].state = "stopped" =>
       /\ intent[g] = "clean" /\ ~failure[g]
       /\ unit[g] \notin {"inflight", "starting", "active", "draining", "stopping"}
  /\ g \in overtaken => unit[g] \in {"post", "failed", "gone"}
  /\ g \in told =>
       ~Counted(g) /\ (g \notin overtaken => ~files[g]) /\ Terminal(meta[g].state)

\* Unless the hook came in between, what an inspection shows agrees with the record that
\* completes it.
Snapshot(k) ==
  /\ k.info.unit \in Unstarted /\ k.gen \notin overtaken =>
       meta[k.gen].submission # "acknowledged" /\ k.data.submission # "acknowledged"
  /\ k.info.unit \notin Unstarted => Begun(k.gen)
  /\ k.info.unit \in {"failed", "gone"} /\ k.info.empty =>
       unit[k.gen] \in {"failed", "gone"} /\ ~populated[k.gen]

\* What the manager that holds the name has read stays true of the records.
Informed(k) ==
  /\ k.gen \in Generation /\ k.data \in Meta /\ meta[k.gen] \in Meta
  /\ Known(k.gen, k.data)
  /\ k.data.state = "stopped" => Terminal(meta[k.gen].state)
  /\ k.pc # "publish" => k.gen = current

\* From the decision to retire to the submission of the next, nothing that counts runs.
Still(k) == k.pc \in {"retire", "retiring", "reserve", "publish", "mark", "submit"} =>
              \A g \in Generation : ~Counted(g)

\* What is done when a generation is replaced, and true of the one that replaces it.
Finished(k) ==
  /\ k.pc = "retiring" => Terminal(meta[k.gen].state)
  /\ k.pc \in {"reserve", "publish"} /\ current # None =>
       (current \notin overtaken => ~files[current]) /\ Terminal(meta[current].state)
New(k) ==
  /\ k.pc \in {"publish", "mark", "submit"} =>
       unit[k.gen] = "none" /\ k.gen \notin told /\ meta[k.gen].state # "stopped"
  /\ k.pc = "submit" => k.data.submission = "uncertain" /\ meta[k.gen].submission = "uncertain"
  /\ k.pc = "ack" => Begun(k.gen)

Fits(k) ==
  k.pc \in Holding =>
       /\ k.mode # "none"
       /\ k.pc # "reserve" => Informed(k)
       /\ k.pc = "decide" => Snapshot(k)
       /\ Still(k) /\ Finished(k) /\ New(k)

AllSound == \A g \in Generation : Sound(g)
AllFit == \A m \in Manager : Fits(mgr[m])

IInv == TypeOK /\ AllSound /\ AllFit

-----------------------------------------------------------------------------
(* The parts of the type invariant, and what holds of whoever holds the name. *)

MgrOK ==
  /\ mgr \in [Manager -> Progress] /\ name \in Manager \cup {None}
  /\ \A m \in Manager : mgr[m].pc \in Holding <=> name = m

GuardOK ==
  /\ guard \in [Generation -> Manager \cup {None, Hook}]
  /\ \A g \in Generation :
       /\ guard[g] = Hook => unit[g] = "post"
       /\ guard[g] \in Manager => mgr[guard[g]].pc = "retiring" /\ mgr[guard[g]].gen = g

RecOK ==
  /\ current \in Generation \cup {None}
  /\ meta \in [Generation -> Meta \cup {Absent}]
  /\ intent \in [Generation -> {"none", "clean", "failed"}]
  /\ failure \in [Generation -> BOOLEAN] /\ files \in [Generation -> BOOLEAN]
  /\ unit \in [Generation -> Units] /\ result \in [Generation -> {"success", "other", "fault"}]
  /\ populated \in [Generation -> BOOLEAN]
  /\ calls \in 0 .. MaxCalls /\ told \subseteq Generation /\ overtaken \subseteq Generation

LEMMA Parts == TypeOK <=> MgrOK /\ GuardOK /\ RecOK
BY Zenon DEF TypeOK, MgrOK, GuardOK, RecOK

LEMMA InitInv == ASSUME Init PROVE IInv
PROOF
<1>1. MgrOK
  <2>1. Idle \in Progress /\ Idle.pc = "idle"
    BY DEF Idle, Progress, NoInfo, Info, Units
  <2> QED
    BY <2>1, ConstantsAssumption DEF Init, MgrOK, Holding
<1>2. GuardOK /\ RecOK
  BY ConstantsAssumption DEF Init, GuardOK, RecOK, Units
<1>3. AllSound
  BY ConstantsAssumption DEF Init, AllSound, Sound, Known, Begun, Unstarted, Running,
       Counted, Live, Absent
<1>4. AllFit
  BY DEF Init, AllFit, Fits, Idle, Holding
<1> QED
  BY <1>1, <1>2, <1>3, <1>4, Parts DEF IInv

LEMMA Holder ==
  ASSUME IInv, NEW m \in Manager, mgr[m].pc \in Holding
  PROVE  /\ name = m /\ mgr[m] \in Progress /\ m # None /\ Fits(mgr[m]) /\ mgr[m].mode # "none"
         /\ mgr[m].pc # "reserve" => Informed(mgr[m])
         /\ \A k \in Manager : k # m => mgr[k].pc \notin Holding
BY Parts, ConstantsAssumption DEF IInv, MgrOK, AllFit, Fits

\* What a manager that does not hold the name must be.
LEMMA Outside ==
  ASSUME NEW k, k.pc \notin Holding
  PROVE  Fits(k) /\ Fits(k)'
BY DEF Fits

\* Where the records and the service do not move, what is said of them stays true.
LEMMA Unmoved ==
  ASSUME UNCHANGED <<current, meta, files, unit, populated, told, overtaken>>
  PROVE  /\ \A r : Fits(r)' <=> Fits(r)
         /\ \A r : Informed(r)' <=> Informed(r)
         /\ \A g : Counted(g)' <=> Counted(g)
PROOF
<1>1. \A g : (Counted(g)' <=> Counted(g)) /\ (Begun(g)' <=> Begun(g))
  BY DEF Counted, Live, Begun
<1>2. \A g, d : Known(g, d)' <=> Known(g, d)
  BY <1>1 DEF Known
<1>3. \A r : Informed(r)' <=> Informed(r)
  BY <1>2 DEF Informed
<1>4. \A r : Snapshot(r)' <=> Snapshot(r)
  BY <1>1 DEF Snapshot
<1>5. \A r : (Still(r)' <=> Still(r)) /\ (Finished(r)' <=> Finished(r)) /\ (New(r)' <=> New(r))
  BY <1>1 DEF Still, Finished, New
<1> QED
  BY <1>1, <1>3, <1>4, <1>5 DEF Fits

LEMMA SoundSame ==
  ASSUME UNCHANGED <<current, meta, intent, failure, files, unit, populated, told, overtaken>>
  PROVE  AllSound' <=> AllSound
BY DEF AllSound, Sound, Known, Begun, Counted, Live

LEMMA GuardSame ==
  ASSUME IInv, NEW m \in Manager, mgr[m].pc \in Holding, mgr[m].pc # "retiring",
         guard' = guard, \A g \in Generation : unit[g] = "post" => unit'[g] = "post"
  PROVE  /\ guard' \in [Generation -> Manager \cup {None, Hook}]
         /\ \A g \in Generation : guard'[g] \notin Manager /\ (guard'[g] = Hook => unit'[g] = "post")
PROOF
<1>1. GuardOK /\ \A k \in Manager : mgr[k].pc # "retiring"
  BY Holder, Parts DEF IInv, Holding
<1> QED
  BY <1>1 DEF GuardOK

\* The holder of the name moves on, or lets go of it.
Held(m, r) == Step(m, r) /\ name' = IF r.pc \in Holding THEN name ELSE None

LEMMA HolderStep ==
  ASSUME IInv, NEW m \in Manager, mgr[m].pc \in Holding,
         NEW r \in Progress, Held(m, r), Fits(r)',
         guard' \in [Generation -> Manager \cup {None, Hook}],
         \A g \in Generation : /\ guard'[g] = Hook => unit'[g] = "post"
                               /\ guard'[g] \in Manager =>
                                    guard'[g] = m /\ r.pc = "retiring" /\ r.gen = g,
         RecOK', AllSound'
  PROVE  IInv'
PROOF
<1>1. /\ mgr \in [Manager -> Progress] /\ name = m /\ m # None
      /\ \A k \in Manager : k # m => mgr[k].pc \notin Holding
  BY Holder, Parts DEF IInv, MgrOK
<1>2. /\ mgr' \in [Manager -> Progress] /\ mgr'[m] = r
      /\ \A k \in Manager : k # m => mgr'[k] = mgr[k]
  BY <1>1 DEF Held, Step
<1>3. MgrOK'
  BY <1>1, <1>2, ConstantsAssumption DEF MgrOK, Held
<1>4. GuardOK'
  BY <1>2 DEF GuardOK
<1>5. ASSUME NEW k \in Manager, k # m PROVE Fits(mgr[k])'
  <2>1. PICK s : s = mgr[k]
    OBVIOUS
  <2>2. Fits(s) /\ s.pc \notin Holding
    BY <1>1, <1>5, <2>1 DEF IInv, AllFit
  <2>3. Fits(s)'
    BY <2>2 DEF Fits
  <2> QED
    BY <1>2, <1>5, <2>1, <2>3
<1>6. AllFit'
  BY <1>2, <1>5 DEF AllFit
<1> QED
  BY <1>3, <1>4, <1>6, Parts, PTL DEF IInv

\* The common case: only the manager moves.
LEMMA OnlyStep ==
  ASSUME IInv, NEW m \in Manager, mgr[m].pc \in Holding, mgr[m].pc # "retiring",
         NEW r \in Progress, Held(m, r), Fits(r), r.pc # "retiring",
         UNCHANGED <<guard, calls, told, overtaken, records, service>>
  PROVE  IInv'
PROOF
<1>1. Fits(r)' /\ AllSound'
  BY Unmoved, SoundSame DEF records, service, IInv
<1>2. RecOK'
  BY Parts DEF IInv, RecOK, records, service
<1>3. \A g \in Generation : unit[g] = "post" => unit'[g] = "post"
  BY DEF service
<1> QED
  BY <1>1, <1>2, <1>3, GuardSame, HolderStep

\* A manager that does not hold the name, and does not take it.
LEMMA OutsideStep ==
  ASSUME IInv, NEW m \in Manager, mgr[m].pc \notin Holding,
         NEW r \in Progress, Step(m, r), r.pc \notin Holding, name' = name,
         calls' \in 0 .. MaxCalls, UNCHANGED <<guard, told, overtaken, records, service>>
  PROVE  IInv'
PROOF
<1>1. MgrOK /\ GuardOK /\ RecOK
  BY Parts DEF IInv
<1>2. /\ mgr' \in [Manager -> Progress] /\ mgr'[m] = r
      /\ \A k \in Manager : k # m => mgr'[k] = mgr[k]
  BY <1>1 DEF MgrOK, Step
<1>3. MgrOK'
  BY <1>1, <1>2 DEF MgrOK
<1>4. GuardOK'
  <2>1. \A g \in Generation : guard[g] # m
    BY <1>1 DEF GuardOK, Holding
  <2> QED
    BY <1>1, <1>2, <2>1 DEF GuardOK, service
<1>5. RecOK'
  BY <1>1 DEF RecOK, records, service
<1>6. AllSound'
  BY SoundSame DEF records, service, IInv
<1>7. ASSUME NEW k \in Manager PROVE Fits(mgr[k])'
  <2>1. PICK s : s = mgr'[k]
    OBVIOUS
  <2>2. Fits(s)
    BY <1>2, <2>1, Outside DEF IInv, AllFit
  <2>3. Fits(s)'
    BY <2>2, Unmoved DEF records, service
  <2> QED
    BY <2>1, <2>3
<1>8. AllFit'
  BY <1>7 DEF AllFit
<1> QED
  BY <1>3, <1>4, <1>5, <1>6, <1>8, Parts, PTL DEF IInv

-----------------------------------------------------------------------------
(* The operators: what is written over what is on disk, and what is concluded. *)

LEMMA MergedFacts ==
  ASSUME NEW disk \in Meta, NEW data \in Meta
  PROVE  /\ Merged(disk, data) \in Meta
         /\ Merged(disk, data).submission = data.submission
         /\ Terminal(disk.state) => Terminal(Merged(disk, data).state)
         /\ Merged(disk, data).state \in {disk.state, data.state}
         /\ Terminal(disk.state) /\ Merged(disk, data).state = "stopped" => disk.state = "stopped"
         /\ disk.state = "failed" => Merged(disk, data).state = "failed"
BY DEF Merged, Meta, Terminal

\* A record that is over stays over.
LEMMA ObservedFacts ==
  ASSUME IInv, NEW m \in Manager, mgr[m].pc = "decide"
  PROVE  /\ Observed(m) \in Meta /\ Known(mgr[m].gen, Observed(m))
         /\ Observed(m).state = meta[mgr[m].gen].state
PROOF
<1>1. Informed(mgr[m]) /\ Snapshot(mgr[m])
  BY Holder DEF Holding, Fits
<1>2. mgr[m].gen \in Generation /\ meta[mgr[m].gen] \in Meta /\ mgr[m].data \in Meta
      /\ mgr[m].info.unit \in Units
  BY <1>1, Holder DEF Informed, Holding, Progress, Info
<1>3. Known(mgr[m].gen, meta[mgr[m].gen]) /\ Known(mgr[m].gen, mgr[m].data)
  BY <1>1, <1>2 DEF IInv, AllSound, Sound, Informed
<1>4. Loaded(mgr[m].info) => Begun(mgr[m].gen)
  BY <1>1, <1>2 DEF Snapshot, Loaded, Unstarted
<1> QED
  BY <1>2, <1>3, <1>4 DEF Observed, Known, Meta

\* What is found quiescent has no process, now and for good.
LEMMA QuietMeansStill ==
  ASSUME IInv, NEW m \in Manager, mgr[m].pc = "decide", Quiescent(Observed(m), mgr[m].info)
  PROVE  \A g \in Generation : ~Counted(g)
PROOF
<1> DEFINE h == mgr[m].gen
<1>1. Informed(mgr[m]) /\ Snapshot(mgr[m])
  BY Holder DEF Holding, Fits
<1>2. h \in Generation /\ h = current /\ meta[h] \in Meta
      /\ mgr[m].info \in Info
  BY <1>1, Holder DEF Informed, Holding, Progress
<1>3. Sound(h) /\ unit[h] \in Units
  BY <1>2, Parts DEF IInv, AllSound, RecOK
<1>4. ~Counted(h)
  <2>1. mgr[m].info.unit \in Unstarted \cup {"failed", "gone"} /\ mgr[m].info.empty
    BY <1>2 DEF Quiescent, Settled, Info, Units, Unstarted
  <2>2. CASE mgr[m].info.unit \in {"failed", "gone"}
    BY <1>1, <2>1, <2>2 DEF Snapshot, Counted, Live
  <2>4. CASE h \in overtaken
    BY <2>4 DEF Counted
  <2>3. CASE mgr[m].info.unit \in Unstarted /\ h \notin overtaken
    <3>1. /\ meta[h].submission # "acknowledged" /\ mgr[m].data.submission # "acknowledged"
          /\ ~Loaded(mgr[m].info)
      BY <1>1, <2>3 DEF Snapshot, Loaded, Unstarted
    <3>2. Observed(m) = meta[h]
      BY <3>1 DEF Observed
    <3>3. meta[h].submission \in {"none", "reserved"}
      BY <1>2, <3>1, <3>2 DEF Quiescent, Meta
    <3>4. unit[h] = "none"
      BY <1>3, <3>3 DEF Sound, Known
    <3> QED
      BY <1>3, <3>4 DEF Sound, Counted, Live, Begun, Unstarted
  <2> QED
    BY <2>1, <2>2, <2>3, <2>4
<1> QED
  BY <1>2, <1>4 DEF IInv, AllSound, Sound

\* A record written by the holder of the name from what it knows.
LEMMA WriteSound ==
  ASSUME IInv, NEW m \in Manager, mgr[m].pc \in Holding, mgr[m].pc # "reserve",
         NEW data \in Meta, Known(mgr[m].gen, data),
         data.state = "stopped" => Terminal(meta[mgr[m].gen].state),
         Write(m, data), UNCHANGED <<calls, told, overtaken, service>>
  PROVE  /\ RecOK' /\ AllSound'
         /\ \A h \in Generation : meta[h] \in Meta => meta'[h] \in Meta
         /\ Terminal(meta[mgr[m].gen].state) => Terminal(meta'[mgr[m].gen].state)
         /\ meta'[mgr[m].gen] = Merged(meta[mgr[m].gen], data)
         /\ meta'[mgr[m].gen].state = "stopped" => meta[mgr[m].gen].state = "stopped"
PROOF
<1> DEFINE g == mgr[m].gen
           new == Merged(meta[g], data)
<1>1. g \in Generation /\ meta[g] \in Meta
  BY Holder DEF Informed
<1>2. /\ new \in Meta /\ new.submission = data.submission
      /\ Terminal(meta[g].state) => Terminal(new.state)
      /\ new.state = "stopped" => meta[g].state = "stopped"
  BY <1>1, MergedFacts
<1>3. meta' = [meta EXCEPT ![g] = new] /\ UNCHANGED <<current, intent, failure, files>>
  BY DEF Write
<1>4. RecOK
  BY Parts DEF IInv
<1> HIDE DEF g, new
<1>5. meta'[g] = new /\ \A h \in Generation : h # g => meta'[h] = meta[h]
  BY <1>1, <1>3, <1>4 DEF RecOK
<1>6. RecOK'
  BY <1>2, <1>3, <1>4 DEF RecOK, service
<1>7. ASSUME NEW h \in Generation PROVE Sound(h)'
  <2>1. Sound(h) /\ (Counted(h)' <=> Counted(h)) /\ (Begun(h)' <=> Begun(h))
    BY DEF IInv, AllSound, Counted, Live, Begun, service
  <2>2. CASE h # g
    BY <1>3, <1>5, <2>1, <2>2 DEF Sound, Known, service
  <2>3. CASE h = g
    <3>1. Known(h, data)' /\ Known(h, data)
      BY <2>1, <2>3 DEF Known, service, g
    <3>2. Known(h, meta[h])'
      BY <1>2, <1>5, <2>3, <3>1 DEF Known
    <3> QED
      BY <1>2, <1>3, <1>5, <2>1, <2>3, <3>2 DEF Sound, service
  <2> QED
    BY <2>2, <2>3
<1>8. AllSound'
  BY <1>7 DEF AllSound
<1> QED
  BY <1>2, <1>5, <1>6, <1>8 DEF g, new

-----------------------------------------------------------------------------
(* A manager's steps.                                                        *)

Looking == {"inspect", "ping", "ready", "intent", "write", "stop"}

LEMMA LookingFits ==
  ASSUME NEW r, r.pc \in Looking, r.mode # "none"
  PROVE  (Informed(r) => Fits(r)) /\ (Informed(r)' => Fits(r)')
BY DEF Looking, Fits, Still, Finished, New

LEMMA RetireFits ==
  ASSUME NEW r, r.pc = "retire", r.mode # "none"
  PROVE  /\ Informed(r) /\ (\A g \in Generation : ~Counted(g)) => Fits(r)
         /\ Informed(r)' /\ (\A g \in Generation : ~Counted(g)') => Fits(r)'
BY DEF Fits, Still, Finished, New

LEMMA IdleFits == Idle \in Progress /\ Idle.pc = "idle" /\ Fits(Idle) /\ Fits(Idle)'
BY DEF Idle, Progress, NoInfo, Info, Units, Fits, Holding

LEMMA EndsHeld ==
  ASSUME IInv, NEW m \in Manager, mgr[m].pc \in Holding, Ends(m)
  PROVE  Held(m, Idle)
BY Holder, IdleFits DEF Ends, Held, Holding

\* A call that raises ends, or turns to the cleanup of what it has published.
LEMMA RaisesHeld ==
  ASSUME IInv, NEW m \in Manager, mgr[m].pc \in Holding, mgr[m].pc \notin {"reserve", "publish"},
         Raises(m), NEW k, k = mgr[m], Informed(k)'
  PROVE  \E r \in Progress : Held(m, r) /\ Fits(r)' /\ r.pc # "retiring"
PROOF
<1>1. CASE k.mode # "startup"
  <2>1. Held(m, Idle)
    BY <1>1, EndsHeld DEF Raises
  <2> QED
    BY <2>1, IdleFits
<1>2. CASE k.mode = "startup"
  <2>1. PICK r : r = [k EXCEPT !.pc = "inspect", !.mode = "abort", !.info = NoInfo, !.failed = TRUE]
    OBVIOUS
  <2>2. k \in Progress
    BY Holder
  <2>3. /\ r \in Progress /\ r.pc = "inspect" /\ r.mode = "abort" /\ r.gen = k.gen /\ r.data = k.data
    BY <2>1, <2>2 DEF Progress, Holding, NoInfo, Info, Units
  <2>4. Informed(r)'
    BY <2>3 DEF Informed
  <2>5. Held(m, r)
    BY <1>2, <2>1, <2>3 DEF Raises, Held, Holding
  <2> QED
    BY <2>3, <2>4, <2>5, LookingFits DEF Looking
<1> QED
  BY <1>1, <1>2

LEMMA RaisesInv ==
  ASSUME IInv, NEW m \in Manager, mgr[m].pc \in Holding,
         mgr[m].pc \notin {"reserve", "publish", "retiring"},
         Raises(m), UNCHANGED <<guard, calls, told, overtaken, records, service>>
  PROVE  IInv'
PROOF
<1>1. PICK k : k = mgr[m]
  OBVIOUS
<1>2. Informed(k)'
  BY <1>1, Holder, Unmoved DEF records, service
<1>3. PICK r \in Progress : Held(m, r) /\ Fits(r)' /\ r.pc # "retiring"
  BY <1>1, <1>2, RaisesHeld
<1>4. Fits(r)
  BY <1>3, Unmoved DEF records, service
<1> QED
  BY <1>3, <1>4, OnlyStep

LEMMA EndsInv ==
  ASSUME IInv, NEW m \in Manager, mgr[m].pc \in Holding, mgr[m].pc # "retiring",
         Ends(m), UNCHANGED <<guard, calls, told, overtaken, records, service>>
  PROVE  IInv'
BY EndsHeld, IdleFits, OnlyStep

LEMMA TakeStep ==
  ASSUME IInv, NEW m \in Manager, mgr[m].pc \notin Holding, name = None,
         NEW r \in Progress, Step(m, r), r.pc \in Holding, r.pc # "retiring", name' = m, Fits(r),
         calls' \in 0 .. MaxCalls, UNCHANGED <<guard, told, overtaken, records, service>>
  PROVE  IInv'
PROOF
<1>1. MgrOK /\ GuardOK /\ RecOK
  BY Parts DEF IInv
<1>2. /\ mgr' \in [Manager -> Progress] /\ mgr'[m] = r
      /\ \A k \in Manager : k # m => mgr'[k] = mgr[k]
  BY <1>1 DEF MgrOK, Step
<1>3. MgrOK'
  BY <1>1, <1>2, ConstantsAssumption DEF MgrOK
<1>4. GuardOK'
  <2>1. \A g \in Generation : guard[g] # m
    BY <1>1 DEF GuardOK, Holding
  <2> QED
    BY <1>1, <1>2, <2>1 DEF GuardOK, service
<1>5. RecOK'
  BY <1>1 DEF RecOK, records, service
<1>6. AllSound'
  BY SoundSame DEF records, service, IInv
<1>7. ASSUME NEW k \in Manager PROVE Fits(mgr[k])'
  <2>1. PICK s : s = mgr'[k]
    OBVIOUS
  <2>2. Fits(s)
    BY <1>2, <2>1 DEF IInv, AllFit
  <2>3. Fits(s)'
    BY <2>2, Unmoved DEF records, service
  <2> QED
    BY <2>1, <2>3
<1>8. AllFit'
  BY <1>7 DEF AllFit
<1> QED
  BY <1>3, <1>4, <1>5, <1>6, <1>8, Parts, PTL DEF IInv

LEMMA AcquireInv == 
  ASSUME IInv, NEW m \in Manager, NEW mode \in Calling, Acquire(m, mode) PROVE IInv'
PROOF
<1>1. /\ name = None /\ Idle \in Progress /\ mgr[m].pc \notin Holding
      /\ calls' \in 0 .. MaxCalls /\ UNCHANGED <<guard, told, overtaken, records, service>>
  BY Parts, IdleFits, ConstantsAssumption DEF IInv, Acquire, Unclaimed, RecOK, Holding
<1>2. RecOK /\ m # None
  BY Parts, ConstantsAssumption DEF IInv
<1>3. CASE current = None /\ mode # "start"
  <2>1. Step(m, Idle) /\ name' = name
    BY <1>1, <1>2, <1>3 DEF Acquire, Ends
  <2> QED
    BY <1>1, <2>1, IdleFits, OutsideStep DEF Holding
<1>4. CASE ~(current = None /\ mode # "start")
  <2>1. PICK r : r = [Idle EXCEPT !.pc = IF current = None THEN "reserve" ELSE "inspect",
                                    !.mode = mode, !.gen = current,
                                    !.data = IF current = None THEN Absent ELSE meta[current]]
    OBVIOUS
  <2>2. Step(m, r) /\ name' = m
    BY <1>4, <2>1 DEF Acquire
  <2>3. CASE current = None
    <3>1. r \in Progress /\ r.pc = "reserve" /\ r.mode = mode
      BY <1>1, <1>2, <2>1, <2>3 DEF Progress, Holding, Calling
    <3>2. \A g \in Generation : ~Counted(g)
      BY <2>3, ConstantsAssumption DEF IInv, AllSound, Sound
    <3>3. Fits(r)
      BY <1>1, <2>3, <3>1, <3>2 DEF Fits, Still, Finished, New, Calling
    <3> QED
      BY <1>1, <2>2, <3>1, <3>3, TakeStep DEF Holding
  <2>4. CASE current # None
    <3>1. current \in Generation /\ meta[current] \in Meta /\ Known(current, meta[current])
      BY <1>2, <2>4 DEF RecOK, IInv, AllSound, Sound
    <3>2. /\ r \in Progress /\ r.pc = "inspect" /\ r.mode = mode /\ r.gen = current
          /\ r.data = meta[current]
      BY <1>1, <1>2, <2>1, <2>4, <3>1 DEF Progress, Holding, Calling
    <3>3. Informed(r)
      BY <3>1, <3>2 DEF Informed, Terminal
    <3>4. Fits(r)
      BY <1>1, <3>2, <3>3, LookingFits DEF Looking, Calling
    <3> QED
      BY <1>1, <2>2, <3>2, <3>4, TakeStep DEF Holding
  <2> QED
    BY <2>3, <2>4
<1> QED
  BY <1>3, <1>4

LEMMA FailsInv == ASSUME IInv, NEW m \in Manager, Fails(m) PROVE IInv'
PROOF
<1>1. mgr[m] \in Progress /\ UNCHANGED <<guard, calls, told, overtaken, records, service>>
  BY Parts DEF IInv, Fails, MgrOK
<1>3. CASE Raises(m)
  <2>1. mgr[m].pc \in Holding /\ mgr[m].pc \notin {"reserve", "publish", "retiring"}
    BY <1>3 DEF Fails, Holding
  <2> QED
    BY <1>1, <1>3, <2>1, RaisesInv
<1>4. CASE mgr[m].pc = "ping" /\ Go(m, "inspect") /\ UNCHANGED name
  <2>1. PICK r : r = [mgr[m] EXCEPT !.pc = "inspect"]
    OBVIOUS
  <2>2. Informed(mgr[m]) /\ mgr[m].mode # "none"
    BY <1>4, Holder DEF Holding
  <2>3. /\ r \in Progress /\ r.pc = "inspect" /\ r.mode = mgr[m].mode /\ r.gen = mgr[m].gen
        /\ r.data = mgr[m].data
    BY <1>1, <2>1 DEF Progress, Holding
  <2>4. Informed(r)
    BY <1>4, <2>2, <2>3 DEF Informed
  <2>5. Held(m, r)
    BY <1>4, <2>1, <2>3 DEF Held, Go, Holding
  <2>6. Fits(r)
    BY <2>2, <2>3, <2>4, LookingFits DEF Looking
  <2> QED
    BY <1>1, <1>4, <2>3, <2>5, <2>6, OnlyStep DEF Holding
<1> QED
  BY <1>3, <1>4 DEF Fails

LEMMA InspectInv == ASSUME IInv, NEW m \in Manager, Inspect(m) PROVE IInv'
PROOF
<1> DEFINE g == mgr[m].gen
<1>1. /\ mgr[m].pc = "inspect" /\ mgr[m].pc \in Holding
      /\ UNCHANGED <<name, guard, calls, told, overtaken, records, service>>
  BY DEF Inspect, Holding
<1>2. mgr[m] \in Progress /\ Informed(mgr[m]) /\ mgr[m].mode # "none"
  BY <1>1, Holder
<1>3. g \in Generation /\ Sound(g) /\ RecOK
  BY <1>2, Parts DEF Informed, IInv, AllSound
<1> DEFINE i == [unit |-> unit[g], empty |-> ~populated[g], good |-> result[g] = "success"]
<1>0. i \in Info /\ i.unit = unit[g] /\ i.empty = ~populated[g]
  BY <1>3 DEF Info, RecOK
<1>4. PICK r : r = [mgr[m] EXCEPT !.pc = "decide", !.info = i]
  OBVIOUS
<1>5. /\ r \in Progress /\ r.pc = "decide" /\ r.mode = mgr[m].mode /\ r.gen = g
      /\ r.data = mgr[m].data /\ r.info = i
  <2> HIDE DEF i
  <2> QED
    BY <1>2, <1>3, <1>4, <1>0 DEF Progress, Holding
<1>6. Held(m, r)
  BY <1>1, <1>4, <1>5 DEF Inspect, Held, Holding
<1>7. Informed(r)
  BY <1>1, <1>2, <1>5 DEF Informed
<1>8. Snapshot(r)
  BY <1>0, <1>2, <1>3, <1>5 DEF Snapshot, Informed, Sound, Known, Begun
<1>9. Fits(r)
  BY <1>2, <1>5, <1>7, <1>8 DEF Fits, Still, Finished, New
<1> QED
  BY <1>1, <1>5, <1>6, <1>9, OnlyStep

-----------------------------------------------------------------------------
(* The decisions.                                                            *)

\* What the holder knows, once it is on disk.
LEMMA InformedWritten ==
  ASSUME IInv, NEW m \in Manager, mgr[m].pc \in Holding, mgr[m].pc \notin {"reserve", "publish"},
         NEW data \in Meta, Known(mgr[m].gen, data),
         data.state = "stopped" => Terminal(meta[mgr[m].gen].state),
         Write(m, data), UNCHANGED <<calls, told, overtaken, service>>,
         NEW r, r.gen = mgr[m].gen, r.data \in Meta, Known(mgr[m].gen, r.data),
         r.data.state = "stopped" => Terminal(meta[mgr[m].gen].state) \/ Terminal(meta'[mgr[m].gen].state)
  PROVE  Informed(r)'
PROOF
<1>1. Informed(mgr[m])
  BY Holder
<1>2. /\ meta'[mgr[m].gen] \in Meta
      /\ Terminal(meta[mgr[m].gen].state) => Terminal(meta'[mgr[m].gen].state)
  BY <1>1, WriteSound DEF Informed
<1>3. Known(r.gen, r.data)'
  <2>1. Known(r.gen, r.data)
    BY Zenon
  <2> QED
    BY <2>1 DEF Known, Begun, service
<1>4. current' = current
  BY DEF Write
<1>5. meta'[r.gen] \in Meta /\ (r.data.state = "stopped" => Terminal(meta'[r.gen].state))
  BY <1>2
<1>6. r.gen \in Generation /\ r.gen = current
  BY <1>1 DEF Informed
<1> QED
  BY <1>3, <1>4, <1>5, <1>6 DEF Informed

LEMMA WriteStep ==
  ASSUME IInv, NEW m \in Manager, mgr[m].pc \in Holding,
         mgr[m].pc \notin {"reserve", "publish", "retiring"},
         NEW data \in Meta, Known(mgr[m].gen, data),
         data.state = "stopped" => Terminal(meta[mgr[m].gen].state),
         Write(m, data), UNCHANGED <<guard, calls, told, overtaken, service>>,
         NEW r \in Progress, Held(m, r), Fits(r)', r.pc # "retiring"
  PROVE  IInv'
PROOF
<1>1. RecOK' /\ AllSound'
  BY WriteSound
<1>2. \A g \in Generation : unit[g] = "post" => unit'[g] = "post"
  BY DEF service
<1> QED
  BY <1>1, <1>2, GuardSame, HolderStep

LEMMA ObserveInv ==
  ASSUME IInv, NEW m \in Manager, mgr[m].pc = "decide",
         NEW data, data = Observed(m), NEW r \in Progress,
         r.pc \in {"retire", "ping", "inspect"}, r.mode = mgr[m].mode, r.gen = mgr[m].gen,
         r.data = data, r.pc = "retire" => \A g \in Generation : ~Counted(g),
         Observe(m, data, r), UNCHANGED <<guard, calls, told, overtaken, service>>
  PROVE  IInv'
PROOF
<1>1. mgr[m].pc \in Holding /\ r.pc \in Holding
  BY DEF Holding
<1>2. /\ data \in Meta /\ Known(mgr[m].gen, data) /\ data.state = meta[mgr[m].gen].state
  BY ObservedFacts
<1>3. Informed(mgr[m]) /\ r.mode # "none"
  BY <1>1, Holder
<1>4. CASE Write(m, data) /\ Step(m, r) /\ UNCHANGED name
  <2>1. Informed(r)'
    BY <1>1, <1>2, <1>4, InformedWritten DEF Terminal
  <2>2. r.pc = "retire" => \A g \in Generation : ~Counted(g)'
    BY DEF Counted, Live, service
  <2>3. Fits(r)'
    BY <1>3, <2>1, <2>2, LookingFits, RetireFits DEF Looking
  <2>4. Held(m, r)
    BY <1>1, <1>4 DEF Held
  <2> QED
    BY <1>1, <1>2, <1>4, <2>3, <2>4, WriteStep DEF Terminal
<1>5. CASE Raises(m) /\ UNCHANGED records
  BY <1>1, <1>5, RaisesInv
<1>6. CASE Step(m, r) /\ UNCHANGED <<name, records>> /\ data = meta[mgr[m].gen]
  <2>1. Informed(r)
    BY <1>2, <1>3, <1>6 DEF Informed, Terminal
  <2>2. Fits(r)
    BY <1>3, <2>1, LookingFits, RetireFits DEF Looking
  <2>3. Held(m, r)
    BY <1>1, <1>6 DEF Held
  <2> QED
    BY <1>1, <1>6, <2>2, <2>3, OnlyStep
<1> QED
  BY <1>4, <1>5, <1>6 DEF Observe

LEMMA Decided ==
  ASSUME IInv, NEW m \in Manager, mgr[m].pc = "decide"
  PROVE  mgr[m] \in Progress /\ Observed(m) \in Meta /\ NoInfo \in Info
PROOF
<1>1. mgr[m].pc \in Holding
  BY DEF Holding
<1> QED
  BY <1>1, Holder, ObservedFacts DEF NoInfo, Info, Units

LEMMA DecideStartInv ==
  ASSUME IInv, NEW m \in Manager, mgr[m].pc = "decide", DecideStart(m),
         UNCHANGED <<guard, calls, told, overtaken, service>>
  PROVE  IInv'
PROOF
<1>1. PICK data : data = Observed(m)
  OBVIOUS
<1> DEFINE seen == [mgr[m] EXCEPT !.data = data, !.info = NoInfo]
<1>2. CASE Quiescent(data, mgr[m].info)
  <2>1. PICK r : r = [seen EXCEPT !.pc = "retire", !.failed = data.state # "stopped"]
    OBVIOUS
  <2>2. Observe(m, data, r)
    BY <1>1, <1>2, <2>1 DEF DecideStart, AfterQuiet
  <2>3. /\ r \in Progress /\ r.pc = "retire" /\ r.mode = mgr[m].mode /\ r.gen = mgr[m].gen
        /\ r.data = data
    BY ZenonT(60), <1>1, <2>1, Decided DEF Progress, Holding
  <2>4. \A g \in Generation : ~Counted(g)
    BY <1>1, <1>2, QuietMeansStill
  <2> QED
    BY <1>1, <2>2, <2>3, <2>4, ObserveInv
<1>3. CASE ~Quiescent(data, mgr[m].info) /\ Active(mgr[m].info)
  <2>1. PICK r : r = [seen EXCEPT !.pc = "ping"]
    OBVIOUS
  <2>2. Observe(m, data, r)
    BY <1>1, <1>3, <2>1 DEF DecideStart
  <2>3. /\ r \in Progress /\ r.pc = "ping" /\ r.mode = mgr[m].mode /\ r.gen = mgr[m].gen
        /\ r.data = data
    BY <1>1, <2>1, Decided DEF Progress, Holding
  <2> QED
    BY <1>1, <2>2, <2>3, ObserveInv
<1>4. CASE ~Quiescent(data, mgr[m].info) /\ ~Active(mgr[m].info)
  <2>1. Ends(m) /\ UNCHANGED records
    BY <1>1, <1>4 DEF DecideStart
  <2> QED
    BY <2>1, EndsInv DEF Holding
<1> QED
  BY <1>2, <1>3, <1>4

LEMMA DecideStatusInv ==
  ASSUME IInv, NEW m \in Manager, mgr[m].pc = "decide", DecideStatus(m),
         UNCHANGED <<guard, calls, told, overtaken, service>>
  PROVE  IInv'
PROOF
<1>1. PICK data : data = Observed(m)
  OBVIOUS
<1> DEFINE seen == [mgr[m] EXCEPT !.data = data, !.info = NoInfo]
<1>2. CASE Quiescent(data, mgr[m].info)
  <2>1. PICK r : r = [seen EXCEPT !.pc = "retire", !.failed = data.state # "stopped"]
    OBVIOUS
  <2>2. Observe(m, data, r)
    BY <1>1, <1>2, <2>1 DEF DecideStatus
  <2>3. /\ r \in Progress /\ r.pc = "retire" /\ r.mode = mgr[m].mode /\ r.gen = mgr[m].gen
        /\ r.data = data
    BY ZenonT(60), <1>1, <2>1, Decided DEF Progress, Holding
  <2>4. \A g \in Generation : ~Counted(g)
    BY <1>1, <1>2, QuietMeansStill
  <2> QED
    BY <1>1, <2>2, <2>3, <2>4, ObserveInv
<1>3. CASE ~Quiescent(data, mgr[m].info) /\ Active(mgr[m].info)
  <2>1. PICK r : r = [seen EXCEPT !.pc = "ping"]
    OBVIOUS
  <2>2. Observe(m, data, r)
    BY <1>1, <1>3, <2>1 DEF DecideStatus
  <2>3. /\ r \in Progress /\ r.pc = "ping" /\ r.mode = mgr[m].mode /\ r.gen = mgr[m].gen
        /\ r.data = data
    BY <1>1, <2>1, Decided DEF Progress, Holding
  <2> QED
    BY <1>1, <2>2, <2>3, ObserveInv
<1>4. CASE ~Quiescent(data, mgr[m].info) /\ ~Active(mgr[m].info)
  <2>1. Ends(m) /\ UNCHANGED records
    BY <1>1, <1>4 DEF DecideStatus
  <2> QED
    BY <2>1, EndsInv DEF Holding
<1> QED
  BY <1>2, <1>3, <1>4

LEMMA DecideStartupInv ==
  ASSUME IInv, NEW m \in Manager, mgr[m].pc = "decide", DecideStartup(m),
         UNCHANGED <<guard, calls, told, overtaken, service>>
  PROVE  IInv'
PROOF
<1>1. PICK data : data = Observed(m)
  OBVIOUS
<1> DEFINE seen == [mgr[m] EXCEPT !.data = data, !.info = NoInfo]
<1>2. CASE Quiescent(data, mgr[m].info)
  <2>1. Raises(m) /\ UNCHANGED records
    BY <1>1, <1>2 DEF DecideStartup
  <2> QED
    BY <2>1, RaisesInv DEF Holding
<1>3. CASE ~Quiescent(data, mgr[m].info)
  <2>1. PICK pc \in {"ping", "inspect"} : pc = IF Active(mgr[m].info) THEN "ping" ELSE "inspect"
    OBVIOUS
  <2>2. PICK r : r = [seen EXCEPT !.pc = pc]
    OBVIOUS
  <2>3. Observe(m, data, r)
    BY <1>1, <1>3, <2>1, <2>2 DEF DecideStartup
  <2>4. /\ r \in Progress /\ r.pc = pc /\ r.mode = mgr[m].mode /\ r.gen = mgr[m].gen
        /\ r.data = data
    BY <1>1, <2>1, <2>2, Decided DEF Progress, Holding
  <2> QED
    BY <1>1, <2>1, <2>3, <2>4, ObserveInv
<1> QED
  BY <1>2, <1>3

LEMMA DecideStopInv ==
  ASSUME IInv, NEW m \in Manager, mgr[m].pc = "decide", DecideStop(m),
         UNCHANGED <<guard, calls, told, overtaken, service>>
  PROVE  IInv'
PROOF
<1>1. PICK data : data = Observed(m)
  OBVIOUS
<1>2. PICK r : /\ \E pc \in {"retire", "intent", "write", "inspect"}, failed \in BOOLEAN, submitted \in BOOLEAN :
                    /\ r = [mgr[m] EXCEPT !.pc = pc, !.data = data, !.info = NoInfo,
                                          !.failed = failed, !.submitted = submitted]
                    /\ pc = "retire" => Quiescent(data, mgr[m].info)
               /\ Step(m, r) /\ UNCHANGED <<name, records>>
  <2> DEFINE quiet == Quiescent(data, mgr[m].info)
             alive == data.state \in {"starting", "ready"}
             failed == \/ mgr[m].failed
                       \/ ~mgr[m].submitted /\ alive /\ (quiet \/ mgr[m].info.unit = "failed" \/ ~mgr[m].info.good)
             submitted == mgr[m].submitted \/ Deactivating(mgr[m].info)
             late == IF quiet THEN mgr[m].submitted ELSE submitted
             next == CASE quiet -> "retire"
                       [] ~quiet /\ ~submitted /\ Loaded(mgr[m].info) ->
                            IF mgr[m].mode = "stop" THEN "intent" ELSE "write"
                       [] OTHER -> "inspect"
  <2>1. Step(m, [mgr[m] EXCEPT !.pc = next, !.data = data, !.info = NoInfo, !.failed = failed,
                               !.submitted = late])
    BY <1>1, Zenon DEF DecideStop
  <2>2. next \in {"retire", "intent", "write", "inspect"} /\ (next = "retire" => quiet)
    OBVIOUS
  <2>3. failed \in BOOLEAN /\ late \in BOOLEAN
    <3>1. mgr[m] \in Progress
      BY Holder DEF Holding
    <3>2. mgr[m].failed \in BOOLEAN /\ mgr[m].submitted \in BOOLEAN
      BY <3>1 DEF Progress
    <3> QED
      BY <3>2 DEF Deactivating
  <2>4. UNCHANGED <<name, records>>
    BY DEF DecideStop
  <2> HIDE DEF failed, late, next
  <2> QED
    BY <2>1, <2>2, <2>3, <2>4
<1>3. mgr[m].pc \in Holding
  BY DEF Holding
<1>4. mgr[m] \in Progress /\ Informed(mgr[m]) /\ mgr[m].mode # "none" /\ NoInfo \in Info
  BY <1>3, Holder DEF NoInfo, Info, Units
<1>5. /\ data \in Meta /\ Known(mgr[m].gen, data) /\ data.state = meta[mgr[m].gen].state
  BY <1>1, ObservedFacts
<1>6. /\ r \in Progress /\ r.pc \in {"retire", "intent", "write", "inspect"} /\ r.mode = mgr[m].mode
      /\ r.gen = mgr[m].gen /\ r.data = data
      /\ r.pc = "retire" => Quiescent(data, mgr[m].info)
  BY ZenonT(60), <1>2, <1>4, <1>5 DEF Progress, Holding
<1>7. Informed(r)
  BY <1>4, <1>5, <1>6 DEF Informed, Terminal
<1>8. r.pc = "retire" => \A g \in Generation : ~Counted(g)
  BY <1>1, <1>6, QuietMeansStill
<1>9. Fits(r)
  BY <1>4, <1>6, <1>7, <1>8, LookingFits, RetireFits DEF Looking
<1>10. Held(m, r)
  BY <1>2, <1>6 DEF Held, Holding
<1> QED
  BY <1>2, <1>3, <1>6, <1>9, <1>10, OnlyStep

LEMMA DecideInv == ASSUME IInv, NEW m \in Manager, Decide(m) PROVE IInv'
PROOF
<1>1. mgr[m].pc = "decide" /\ UNCHANGED <<guard, calls, told, overtaken, service>>
  BY DEF Decide
<1>2. mgr[m].mode \in {"start", "status", "startup", "stop", "abort"}
  BY <1>1, Holder DEF Holding, Progress, Calling
<1>3. CASE mgr[m].mode = "start"
  BY <1>1, <1>3, DecideStartInv DEF Decide
<1>4. CASE mgr[m].mode = "status"
  BY <1>1, <1>4, DecideStatusInv DEF Decide
<1>5. CASE mgr[m].mode = "startup"
  BY <1>1, <1>5, DecideStartupInv DEF Decide
<1>6. CASE mgr[m].mode \in {"stop", "abort"}
  BY <1>1, <1>6, DecideStopInv DEF Decide
<1> QED
  BY <1>2, <1>3, <1>4, <1>5, <1>6

-----------------------------------------------------------------------------
(* The rest of a manager's steps.                                            *)

LEMMA StutterInv == ASSUME IInv, UNCHANGED vars PROVE IInv'
PROOF
<1>1. MgrOK' /\ GuardOK' /\ RecOK'
  BY Parts DEF IInv, vars, records, service, MgrOK, GuardOK, RecOK
<1>2. AllSound'
  BY SoundSame DEF IInv, vars, records, service
<1>3. \A r : Fits(r)' <=> Fits(r)
  BY Unmoved DEF vars, records, service
<1>4. \A m \in Manager : Fits(mgr[m])'
  BY <1>3 DEF IInv, AllFit, vars
<1>5. AllFit'
  BY <1>4 DEF AllFit
<1> QED
  BY <1>1, <1>2, <1>5, Parts, PTL DEF IInv

\* Only the progress moves: what was known is known.
LEMMA GoInv ==
  ASSUME IInv, NEW m \in Manager, mgr[m].pc \in Looking, NEW pc \in Looking, Go(m, pc),
         UNCHANGED <<name, guard, calls, told, overtaken, records, service>>
  PROVE  IInv'
PROOF
<1>1. mgr[m].pc \in Holding /\ mgr[m].pc \notin {"reserve", "publish", "retiring"}
  BY DEF Looking, Holding
<1>2. Informed(mgr[m]) /\ mgr[m].mode # "none" /\ mgr[m] \in Progress
  BY <1>1, Holder
<1>3. PICK r : r = [mgr[m] EXCEPT !.pc = pc]
  OBVIOUS
<1>4. /\ r \in Progress /\ r.pc = pc /\ r.mode = mgr[m].mode /\ r.gen = mgr[m].gen
      /\ r.data = mgr[m].data
  BY <1>2, <1>3 DEF Progress, Holding, Looking
<1>5. Informed(r)
  BY <1>1, <1>2, <1>4 DEF Informed
<1>6. Held(m, r)
  BY <1>3, <1>4 DEF Held, Go, Looking, Holding
<1>7. Fits(r)
  BY <1>2, <1>4, <1>5, LookingFits
<1> QED
  BY <1>1, <1>4, <1>6, <1>7, OnlyStep DEF Looking

LEMMA PingInv == ASSUME IInv, NEW m \in Manager, NEW ready \in BOOLEAN, Ping(m, ready) PROVE IInv'
PROOF
<1>1. mgr[m].pc = "ping" /\ UNCHANGED <<guard, calls, told, overtaken, records, service>>
  BY DEF Ping
<1>2. \/ Go(m, "ready") /\ UNCHANGED name
      \/ Go(m, "inspect") /\ UNCHANGED name
      \/ UNCHANGED <<mgr, name>>
      \/ Ends(m)
  BY DEF Ping
<1>3. CASE Go(m, "ready") /\ UNCHANGED name
  BY <1>1, <1>3, GoInv DEF Looking
<1>4. CASE Go(m, "inspect") /\ UNCHANGED name
  BY <1>1, <1>4, GoInv DEF Looking
<1>5. CASE UNCHANGED <<mgr, name>>
  BY <1>1, <1>5, StutterInv DEF vars, records, service
<1>6. CASE Ends(m)
  BY <1>1, <1>6, EndsInv DEF Holding
<1> QED
  BY <1>2, <1>3, <1>4, <1>5, <1>6

LEMMA ReadyInv == ASSUME IInv, NEW m \in Manager, Ready(m) PROVE IInv'
PROOF
<1>1. mgr[m].pc = "ready" /\ mgr[m].pc \in Holding /\ UNCHANGED <<guard, calls, told, overtaken, service>>
  BY DEF Ready, Holding
<1>2. Informed(mgr[m])
  BY <1>1, Holder
<1>3. ASSUME NEW data, data = [mgr[m].data EXCEPT !.state = "ready"], Write(m, data),
             Ends(m) \/ Raises(m)
      PROVE  IInv'
  <2>1. data \in Meta /\ Known(mgr[m].gen, data) /\ data.state # "stopped"
    BY <1>2, <1>3 DEF Informed, Known, Meta
  <2>2. CASE Ends(m)
    BY <1>1, <1>3, <2>1, <2>2, EndsHeld, IdleFits, WriteStep
  <2>3. CASE Raises(m)
    <3>1. PICK k : k = mgr[m]
      OBVIOUS
    <3>2. Informed(k)'
      BY <1>1, <1>2, <1>3, <2>1, <3>1, InformedWritten DEF Informed
    <3>3. PICK r \in Progress : Held(m, r) /\ Fits(r)' /\ r.pc # "retiring"
      BY <1>1, <2>3, <3>1, <3>2, RaisesHeld
    <3> QED
      BY <1>1, <1>3, <2>1, <3>3, WriteStep
  <2> QED
    BY <1>3, <2>2, <2>3
<1>4. CASE UNCHANGED records /\ UNCHANGED name /\ Go(m, "inspect")
  BY <1>1, <1>4, GoInv DEF Looking
<1>5. CASE UNCHANGED records /\ Raises(m)
  BY <1>1, <1>5, RaisesInv
<1> QED
  BY <1>3, <1>4, <1>5 DEF Ready

\* Where one generation moves.
LEMMA SoundAt ==
  ASSUME IInv, NEW g \in Generation, current' = current, told' \subseteq told \cup {g},
         \A h \in Generation : h # g =>
           /\ meta'[h] = meta[h] /\ intent'[h] = intent[h] /\ failure'[h] = failure[h]
           /\ files'[h] = files[h] /\ unit'[h] = unit[h] /\ populated'[h] = populated[h]
           /\ h \in overtaken' <=> h \in overtaken,
         Sound(g)'
  PROVE  AllSound'
PROOF
<1>1. ASSUME NEW h \in Generation, h # g PROVE Sound(h)'
  <2>1. Sound(h) /\ (Counted(h)' <=> Counted(h)) /\ (Begun(h)' <=> Begun(h))
    BY <1>1 DEF IInv, AllSound, Counted, Live, Begun
  <2>2. Known(h, meta[h])'
    BY <1>1, <2>1 DEF Sound, Known
  <2> QED
    BY <1>1, <2>1, <2>2 DEF Sound
<1> QED
  BY <1>1 DEF AllSound

LEMMA MetaSound ==
  ASSUME IInv, NEW g \in Generation, NEW new \in Meta, meta' = [meta EXCEPT ![g] = new],
         Known(g, new), g \in told => Terminal(new.state),
         new.state = "stopped" =>
           /\ intent[g] = "clean" /\ ~failure[g]
           /\ unit[g] \notin {"inflight", "starting", "active", "draining", "stopping"},
         UNCHANGED <<current, intent, failure, files, calls, told, overtaken, service>>
  PROVE  RecOK' /\ AllSound' /\ meta'[g] = new
         /\ \A h \in Generation : h # g => meta'[h] = meta[h]
PROOF
<1>1. RecOK /\ Sound(g)
  BY Parts DEF IInv, AllSound
<1>2. meta'[g] = new /\ \A h \in Generation : h # g => meta'[h] = meta[h]
  BY <1>1 DEF RecOK
<1>3. RecOK'
  BY <1>1 DEF RecOK, service
<1>4. Sound(g)'
  <2>1. (Counted(g)' <=> Counted(g)) /\ (Begun(g)' <=> Begun(g))
    BY DEF Counted, Live, Begun, service
  <2>2. Known(g, meta[g])'
    BY <1>2, <2>1 DEF Known, service
  <2> QED
    BY <1>1, <1>2, <2>1, <2>2 DEF Sound, service
<1> QED
  BY <1>2, <1>3, <1>4, SoundAt DEF service

LEMMA RetireInv == ASSUME IInv, NEW m \in Manager, Retire(m) PROVE IInv'
PROOF
<1> DEFINE d == mgr[m].data
<1>1. mgr[m].pc = "retire" /\ mgr[m].pc \in Holding /\ UNCHANGED <<calls, told, overtaken, service>>
  BY DEF Retire, Holding
<1>2. /\ mgr[m] \in Progress /\ Informed(mgr[m]) /\ mgr[m].mode # "none"
      /\ \A h \in Generation : ~Counted(h)
  BY <1>1, Holder DEF Fits, Still
<1>3. PICK g : g = mgr[m].gen
  OBVIOUS
<1>4. g \in Generation /\ g = current /\ meta[g] \in Meta /\ d \in Meta /\ Known(g, d) /\ Sound(g)
  BY <1>1, <1>2, <1>3 DEF Informed, IInv, AllSound
<1>5. PICK done : done = Finalized(g, d.submission, mgr[m].failed \/ d.state = "failed", FALSE, FALSE)
  OBVIOUS
<1>6. /\ done \in Meta /\ Terminal(done.state)
      /\ done.submission = IF d.submission = "acknowledged" THEN "acknowledged" ELSE meta[g].submission
      /\ done.state = "stopped" => intent[g] = "clean" /\ ~failure[g]
  <2>1. intent[g] \in {"none", "clean", "failed"}
    BY <1>4, Parts DEF IInv, RecOK
  <2> HIDE DEF d
  <2> QED
    BY <1>4, <1>5, <2>1 DEF Finalized, Classify, Meta, Terminal, Sound
<1>7. CASE Raises(m) /\ UNCHANGED <<guard, records>>
  BY <1>1, <1>7, RaisesInv
<1>8. CASE /\ guard[g] = None /\ guard' = [guard EXCEPT ![g] = m]
           /\ meta' = [meta EXCEPT ![g] = done]
           /\ Step(m, [mgr[m] EXCEPT !.pc = "retiring", !.data = done])
           /\ UNCHANGED <<name, current, intent, failure, files>>
  <2>1. Known(g, done)
    BY <1>4, <1>6 DEF Known, Sound
  <2>2. unit[g] \notin {"inflight", "starting", "active", "draining", "stopping"}
    BY <1>2, <1>4 DEF Counted, Live, Sound
  <2>3. RecOK' /\ AllSound' /\ meta'[g] = done
    BY <1>1, <1>4, <1>6, <1>8, <2>1, <2>2, MetaSound
  <2>4. PICK r : r = [mgr[m] EXCEPT !.pc = "retiring", !.data = done]
    OBVIOUS
  <2>5. /\ r \in Progress /\ r.pc = "retiring" /\ r.mode = mgr[m].mode /\ r.gen = g
        /\ r.data = done
    BY <1>2, <1>3, <1>6, <2>4 DEF Progress, Holding
  <2>6. Known(g, done)'
    BY <1>1, <2>1 DEF Known, Begun, service
  <2>7. Informed(r)'
    BY <1>4, <1>6, <1>8, <2>3, <2>5, <2>6 DEF Informed
  <2>8. \A h \in Generation : ~Counted(h)'
    BY <1>1, <1>2 DEF Counted, Live, service
  <2>9. Fits(r)'
    BY <1>2, <1>6, <2>3, <2>5, <2>7, <2>8 DEF Fits, Still, Finished, New
  <2>10. /\ guard \in [Generation -> Manager \cup {None, Hook}]
         /\ \A h \in Generation : guard[h] \notin Manager /\ (guard[h] = Hook => unit[h] = "post")
    <3>1. GuardOK /\ \A k \in Manager : mgr[k].pc # "retiring"
      BY <1>1, Holder, Parts DEF IInv, Holding
    <3> QED
      BY <3>1 DEF GuardOK
  <2>11. /\ guard' \in [Generation -> Manager \cup {None, Hook}]
         /\ \A h \in Generation : /\ guard'[h] = Hook => unit'[h] = "post"
                                  /\ guard'[h] \in Manager => guard'[h] = m /\ r.pc = "retiring" /\ r.gen = h
    BY <1>1, <1>4, <1>8, <2>5, <2>10, ConstantsAssumption DEF service
  <2>12. Held(m, r)
    BY <1>8, <2>4, <2>5 DEF Held, Holding
  <2> QED
    BY <1>1, <2>3, <2>5, <2>9, <2>11, <2>12, HolderStep
<1> QED
  BY <1>3, <1>5, <1>7, <1>8 DEF Retire

LEMMA RetiredInv == ASSUME IInv, NEW m \in Manager, Retired(m) PROVE IInv'
PROOF
<1>1. /\ mgr[m].pc = "retiring" /\ mgr[m].pc \in Holding
      /\ UNCHANGED <<calls, overtaken, current, meta, intent, failure, result, populated>>
  BY DEF Retired, Holding
<1>2. PICK k : k = mgr[m]
  OBVIOUS
<1>3. /\ k \in Progress /\ Informed(k) /\ k.mode # "none" /\ \A h \in Generation : ~Counted(h)
      /\ Terminal(meta[k.gen].state)
  BY <1>1, <1>2, Holder DEF Fits, Still, Finished
<1>4. PICK g : g = k.gen
  OBVIOUS
<1>5. g \in Generation /\ g = current /\ meta[g] \in Meta /\ Sound(g) /\ RecOK
  BY <1>1, <1>2, <1>3, <1>4, Parts DEF Informed, IInv, AllSound
<1>6. /\ guard' = [guard EXCEPT ![g] = None]
      /\ unit' \in {unit, [unit EXCEPT ![g] = IF @ = "failed" THEN "gone" ELSE @]}
      /\ files' \in {files, [files EXCEPT ![g] = FALSE]}
      /\ told' \in {told, told \cup {g}}
      /\ told' # told => ~files'[g]
  BY <1>2, <1>4, <1>5 DEF Retired, RecOK
<1>7. unit'[g] \in Units /\ (unit'[g] = unit[g] \/ (unit[g] = "failed" /\ unit'[g] = "gone"))
      /\ unit' \in [Generation -> Units]
      /\ \A h \in Generation : h # g => unit'[h] = unit[h]
  <2>1. PICK u : u = IF unit[g] = "failed" THEN "gone" ELSE unit[g]
    OBVIOUS
  <2>2. u \in Units /\ (u = unit[g] \/ (unit[g] = "failed" /\ u = "gone"))
    BY <1>5, <2>1 DEF RecOK, Units
  <2>3. unit' = unit \/ unit' = [unit EXCEPT ![g] = u]
    BY <1>6, <2>1
  <2>4. unit \in [Generation -> Units]
    BY <1>5 DEF RecOK
  <2> QED
    BY <1>5, <2>2, <2>3, <2>4
<1>8. /\ files' \in [Generation -> BOOLEAN] /\ (files'[g] => files[g])
      /\ \A h \in Generation : h # g => files'[h] = files[h]
  BY <1>5, <1>6 DEF RecOK
<1>9. RecOK'
  BY <1>1, <1>5, <1>6, <1>7, <1>8 DEF RecOK
<1>10. /\ \A h \in Generation : ~Counted(h)'
       /\ Begun(g)' <=> Begun(g)
       /\ unit'[g] = "none" <=> unit[g] = "none"
  BY <1>1, <1>3, <1>7 DEF Counted, Live, Begun, Unstarted
<1>11. \A d : Known(g, d)' <=> Known(g, d)
  BY <1>10 DEF Known
<1>12. Sound(g)'
  <2>1. Known(g, meta[g])' /\ (populated[g] => Begun(g))' /\ (unit'[g] \in Running => populated'[g])
    BY <1>1, <1>5, <1>7, <1>10, <1>11 DEF Sound, Running
  <2>2. (meta[g].state = "stopped" =>
          /\ intent[g] = "clean" /\ ~failure[g]
          /\ unit[g] \notin {"inflight", "starting", "active", "draining", "stopping"})'
    BY <1>1, <1>5, <1>7 DEF Sound
  <2>3. (g \in told =>
          ~Counted(g) /\ (g \notin overtaken => ~files[g]) /\ Terminal(meta[g].state))'
    BY <1>1, <1>3, <1>4, <1>5, <1>6, <1>8, <1>10 DEF Sound
  <2>4. ~Counted(g)' /\ (unit[g] \in {"post", "failed", "gone"} => unit'[g] \in {"post", "failed", "gone"})
    BY <1>5, <1>7, <1>10
  <2> QED
    BY <1>1, <1>5, <1>10, <2>1, <2>2, <2>3, <2>4 DEF Sound
<1>13. AllSound'
  BY <1>1, <1>5, <1>6, <1>7, <1>8, <1>12, SoundAt
<1>14. /\ guard' \in [Generation -> Manager \cup {None, Hook}]
       /\ \A h \in Generation : guard'[h] \notin Manager /\ (guard'[h] = Hook => unit'[h] = "post")
  <2>1. GuardOK /\ \A j \in Manager : j # m => mgr[j].pc # "retiring"
    BY <1>1, Holder, Parts DEF IInv, Holding
  <2>2. \A h \in Generation : h # g => guard[h] \notin Manager
    BY <1>2, <1>4, <2>1 DEF GuardOK
  <2> QED
    BY <1>5, <1>6, <1>7, <2>1, <2>2, ConstantsAssumption DEF GuardOK
<1>15. ASSUME NEW r \in Progress, Held(m, r), Fits(r)' PROVE IInv'
  BY <1>1, <1>9, <1>13, <1>14, <1>15, HolderStep
<1>16. CASE Raises(m)
  <2>1. Informed(k)'
    BY <1>1, <1>3, <1>4, <1>5, <1>11 DEF Informed
  <2> QED
    BY <1>1, <1>2, <1>15, <1>16, <2>1, RaisesHeld
<1>17. CASE Ends(m)
  BY <1>1, <1>15, <1>17, EndsHeld, IdleFits
<1>18. CASE files' = [files EXCEPT ![g] = FALSE] /\ Go(m, "reserve") /\ UNCHANGED name
  <2>1. PICK r : r = [k EXCEPT !.pc = "reserve"]
    OBVIOUS
  <2>2. r \in Progress /\ r.pc = "reserve" /\ r.mode = k.mode
    BY <1>3, <2>1 DEF Progress, Holding
  <2>3. Held(m, r)
    BY <1>2, <1>18, <2>1, <2>2 DEF Held, Go, Holding
  <2>4. ~files'[g]
    BY <1>5, <1>18 DEF RecOK
  <2>5. Fits(r)'
    BY <1>1, <1>3, <1>4, <1>5, <1>10, <2>2, <2>4 DEF Fits, Still, Finished, New
  <2> QED
    BY <1>15, <2>2, <2>3, <2>5
<1> QED
  BY <1>2, <1>4, <1>16, <1>17, <1>18 DEF Retired

LEMMA ReserveInv == ASSUME IInv, NEW m \in Manager, NEW g \in Generation, Reserve(m, g) PROVE IInv'
PROOF
<1>1. /\ mgr[m].pc = "reserve" /\ mgr[m].pc \in Holding /\ meta[g] = Absent
      /\ UNCHANGED <<name, guard, calls, told, overtaken, current, intent, failure, files, service>>
  BY DEF Reserve, Holding
<1>2. /\ mgr[m] \in Progress /\ mgr[m].mode # "none" /\ \A h \in Generation : ~Counted(h)
      /\ current # None => (current \notin overtaken => ~files[current]) /\ Terminal(meta[current].state)
  BY <1>1, Holder DEF Fits, Still, Finished
<1>3. PICK new : new = [submission |-> "reserved", state |-> "starting"]
  OBVIOUS
<1>4. new \in Meta /\ new.submission = "reserved" /\ new.state = "starting"
  BY <1>3 DEF Meta
<1>5. Sound(g) /\ RecOK
  BY Parts DEF IInv, AllSound
<1>6. g # current /\ unit[g] = "none" /\ g \notin told /\ Known(g, new)
  BY <1>1, <1>4, <1>5 DEF Sound, Known, Absent, Meta, Terminal
<1>7. /\ RecOK' /\ AllSound' /\ meta'[g] = new
      /\ \A h \in Generation : h # g => meta'[h] = meta[h]
  BY <1>1, <1>3, <1>4, <1>6, MetaSound DEF Reserve
<1>8. PICK r : r = [mgr[m] EXCEPT !.pc = "publish", !.gen = g, !.failed = FALSE, !.data = new]
  OBVIOUS
<1>9. /\ r \in Progress /\ r.pc = "publish" /\ r.mode = mgr[m].mode /\ r.gen = g /\ r.data = new
  BY <1>2, <1>4, <1>8 DEF Progress, Holding
<1>10. Held(m, r)
  BY <1>1, <1>3, <1>8, <1>9 DEF Held, Reserve, Holding
<1>11. /\ \A h \in Generation : ~Counted(h)'
       /\ Known(g, new)'
  BY <1>1, <1>2, <1>6 DEF Counted, Live, Known, Begun, service
<1>12. Informed(r)'
  BY <1>4, <1>7, <1>9, <1>11 DEF Informed
<1>13. current' # None =>
         (current' \notin overtaken' => ~files'[current']) /\ Terminal(meta'[current'].state)
  BY <1>1, <1>2, <1>5, <1>6, <1>7 DEF RecOK
<1>14. Fits(r)'
  BY <1>1, <1>2, <1>4, <1>6, <1>7, <1>9, <1>11, <1>12, <1>13
     DEF Fits, Still, Finished, New, service
<1>15. \A h \in Generation : unit[h] = "post" => unit'[h] = "post"
  BY <1>1 DEF service
<1> QED
  BY <1>1, <1>7, <1>9, <1>10, <1>14, <1>15, GuardSame, HolderStep

LEMMA ReserveFailsInv == ASSUME IInv, NEW m \in Manager, ReserveFails(m) PROVE IInv'
BY EndsInv DEF ReserveFails, Holding

LEMMA PublishInv == ASSUME IInv, NEW m \in Manager, Publish(m) PROVE IInv'
PROOF
<1>1. /\ mgr[m].pc = "publish" /\ mgr[m].pc \in Holding
      /\ UNCHANGED <<guard, calls, told, overtaken, meta, intent, failure, files, service>>
  BY DEF Publish, Holding
<1>2. CASE Ends(m) /\ UNCHANGED current
  BY <1>1, <1>2, EndsInv DEF records
<1>3. CASE /\ current' = mgr[m].gen
           /\ Step(m, [mgr[m] EXCEPT !.pc = "mark", !.mode = "startup"])
           /\ UNCHANGED name
  <2>1. PICK k : k = mgr[m]
    OBVIOUS
  <2>2. /\ k \in Progress /\ Informed(k) /\ \A h \in Generation : ~Counted(h)
        /\ unit[k.gen] = "none" /\ k.gen \notin told /\ meta[k.gen].state # "stopped"
    BY <1>1, <2>1, Holder DEF Fits, Still, New
  <2>3. PICK r : r = [k EXCEPT !.pc = "mark", !.mode = "startup"]
    OBVIOUS
  <2>4. /\ r \in Progress /\ r.pc = "mark" /\ r.mode = "startup" /\ r.gen = k.gen /\ r.data = k.data
    BY <2>2, <2>3 DEF Progress, Holding
  <2>5. Held(m, r)
    BY <1>3, <2>1, <2>3, <2>4 DEF Held, Holding
  <2>6. \A h \in Generation : (Counted(h)' <=> Counted(h)) /\ (Begun(h)' <=> Begun(h))
    BY <1>1 DEF Counted, Live, Begun, service
  <2>7. \A d, h : Known(h, d)' <=> Known(h, d)
    BY <1>1 DEF Known, Begun, service
  <2>8. Informed(r)'
    BY <1>1, <1>3, <2>1, <2>2, <2>4, <2>7 DEF Informed
  <2>9. Fits(r)'
    BY <1>1, <2>2, <2>4, <2>6, <2>8 DEF Fits, Still, Finished, New, service
  <2>10. RecOK'
    BY <1>1, <1>3, <2>1, <2>2, Parts DEF IInv, RecOK, Informed, service
  <2>11. ASSUME NEW h \in Generation PROVE Sound(h)'
    <3>1. Sound(h) /\ Known(h, meta[h])'
      BY <1>1, <2>7 DEF IInv, AllSound, Sound
    <3>2. h = current' => meta[h] \in Meta
      BY <1>3, <2>1, <2>2 DEF Informed
    <3> QED
      BY <1>1, <2>2, <2>6, <3>1, <3>2 DEF Sound, service
  <2>12. AllSound'
    BY <2>11 DEF AllSound
  <2>13. \A h \in Generation : unit[h] = "post" => unit'[h] = "post"
    BY <1>1 DEF service
  <2> QED
    BY <1>1, <2>4, <2>5, <2>9, <2>10, <2>12, <2>13, GuardSame, HolderStep
<1> QED
  BY <1>2, <1>3 DEF Publish

LEMMA MarkInv == ASSUME IInv, NEW m \in Manager, Mark(m) PROVE IInv'
PROOF
<1>1. mgr[m].pc = "mark" /\ mgr[m].pc \in Holding /\ UNCHANGED <<guard, calls, told, overtaken, service>>
  BY DEF Mark, Holding
<1>2. PICK k : k = mgr[m]
  OBVIOUS
<1>3. /\ k \in Progress /\ Informed(k) /\ k.mode # "none" /\ \A h \in Generation : ~Counted(h)
      /\ unit[k.gen] = "none" /\ k.gen \notin told /\ meta[k.gen].state # "stopped"
  BY <1>1, <1>2, Holder DEF Fits, Still, New
<1>4. CASE UNCHANGED records /\ Raises(m)
  BY <1>1, <1>4, RaisesInv
<1>5. PICK data : data = [k.data EXCEPT !.submission = "uncertain"]
  OBVIOUS
<1>6. CASE Write(m, data) /\ UNCHANGED name /\ Step(m, [mgr[m] EXCEPT !.pc = "submit", !.data = data])
  <2>1. data \in Meta /\ data.submission = "uncertain" /\ data.state = k.data.state
    BY <1>3, <1>5 DEF Informed, Meta
  <2>2. Known(k.gen, data) /\ (data.state = "stopped" => Terminal(meta[k.gen].state))
    BY <1>3, <2>1 DEF Known, Informed
  <2>3. PICK r : r = [k EXCEPT !.pc = "submit", !.data = data]
    OBVIOUS
  <2>4. /\ r \in Progress /\ r.pc = "submit" /\ r.mode = k.mode /\ r.gen = k.gen /\ r.data = data
    BY <1>3, <2>1, <2>3 DEF Progress, Holding
  <2>5. Held(m, r)
    BY <1>2, <1>6, <2>3, <2>4 DEF Held, Holding
  <2>6. Informed(r)'
    BY <1>1, <1>2, <1>6, <2>1, <2>2, <2>4, InformedWritten
  <2>7. meta'[k.gen] = Merged(meta[k.gen], data) /\ meta'[k.gen].state # "stopped"
    BY <1>1, <1>2, <1>3, <1>6, <2>1, <2>2, WriteSound
  <2>8. meta'[k.gen].submission = "uncertain"
    BY <1>3, <2>1, <2>7, MergedFacts DEF Informed
  <2>9. \A h \in Generation : ~Counted(h)'
    BY <1>1, <1>3 DEF Counted, Live, service
  <2>10. Fits(r)'
    BY <1>1, <1>3, <2>1, <2>4, <2>6, <2>7, <2>8, <2>9
       DEF Fits, Still, Finished, New, service
  <2> QED
    BY <1>1, <1>2, <1>6, <2>1, <2>2, <2>4, <2>5, <2>10, WriteStep
<1> QED
  BY <1>2, <1>4, <1>5, <1>6 DEF Mark

\* The unit of the generation being started appears, or may appear later.
LEMMA SubmitSound ==
  ASSUME IInv, NEW m \in Manager, mgr[m].pc = "submit", NEW k, k = mgr[m],
         NEW u \in {"none", "inflight", "starting"}, unit' = [unit EXCEPT ![k.gen] = u],
         populated' = IF u = "starting" THEN [populated EXCEPT ![k.gen] = TRUE] ELSE populated,
         UNCHANGED <<calls, told, overtaken, records, result>>
  PROVE  /\ RecOK' /\ AllSound' /\ Informed(k)' /\ unit'[k.gen] = u
         /\ \A h \in Generation : unit[h] = "post" => unit'[h] = "post"
PROOF
<1>1. PICK g : g = k.gen
  OBVIOUS
<1>2. /\ Informed(k) /\ unit[g] = "none" /\ g \notin told /\ meta[g].state # "stopped"
      /\ k.data.submission = "uncertain" /\ meta[g].submission = "uncertain"
      /\ k.pc = "submit"
  BY <1>1, Holder DEF Fits, New, Holding
<1>3. g \in Generation /\ g = current /\ meta[g] \in Meta /\ Sound(g) /\ RecOK
  BY <1>1, <1>2, Parts DEF Informed, IInv, AllSound
<1>4. ~populated[g]
  BY <1>2, <1>3 DEF Sound, Begun, Unstarted
<1>5. /\ unit'[g] = u /\ unit' \in [Generation -> Units]
      /\ \A h \in Generation : h # g => unit'[h] = unit[h]
  BY <1>1, <1>3 DEF RecOK, Units
<1>6. /\ populated'[g] <=> u = "starting"
      /\ populated' \in [Generation -> BOOLEAN]
      /\ \A h \in Generation : h # g => populated'[h] = populated[h]
  BY <1>1, <1>3, <1>4 DEF RecOK
<1>7. RecOK'
  BY <1>3, <1>5, <1>6 DEF RecOK, records
<1>8. Sound(g)'
  <2>1. Known(g, meta[g])'
    BY <1>2 DEF Known, records
  <2>2. (populated[g] => Begun(g))' /\ (unit[g] \in Running => populated[g])'
    BY <1>5, <1>6 DEF Begun, Unstarted, Running
  <2> QED
    BY <1>2, <1>3, <2>1, <2>2 DEF Sound, records
<1>9. AllSound'
  BY <1>3, <1>5, <1>6, <1>8, SoundAt DEF records
<1>10. Informed(k)'
  BY <1>1, <1>2 DEF Informed, Known, records
<1>11. \A h \in Generation : unit[h] = "post" => unit'[h] = "post"
  BY <1>2, <1>5
<1> QED
  BY <1>1, <1>5, <1>7, <1>9, <1>10, <1>11

LEMMA SubmitInv == ASSUME IInv, NEW m \in Manager, Submit(m) PROVE IInv'
PROOF
<1>1. /\ mgr[m].pc = "submit" /\ mgr[m].pc \in Holding
      /\ UNCHANGED <<guard, calls, told, overtaken, records, result>>
  BY DEF Submit, Holding
<1>2. PICK k : k = mgr[m]
  OBVIOUS
<1>3. k \in Progress /\ k.mode # "none" /\ k.gen \in Generation /\ unit[k.gen] = "none"
      /\ unit \in [Generation -> Units]
  BY <1>1, <1>2, Holder, Parts DEF Fits, New, Informed, IInv, RecOK
<1>4. CASE /\ unit' = [unit EXCEPT ![k.gen] = "starting"] /\ populated' = [populated EXCEPT ![k.gen] = TRUE]
           /\ Go(m, "ack") /\ UNCHANGED name
  <2>1. PICK u \in {"none", "inflight", "starting"} : u = "starting"
    OBVIOUS
  <2>2. /\ RecOK' /\ AllSound' /\ Informed(k)' /\ unit'[k.gen] = u
        /\ \A h \in Generation : unit[h] = "post" => unit'[h] = "post"
    BY <1>1, <1>2, <1>4, <2>1, SubmitSound
  <2>3. PICK r : r = [k EXCEPT !.pc = "ack"]
    OBVIOUS
  <2>4. /\ r \in Progress /\ r.pc = "ack" /\ r.mode = k.mode /\ r.gen = k.gen /\ r.data = k.data
    BY <1>3, <2>3 DEF Progress, Holding
  <2>5. Held(m, r)
    BY <1>2, <1>4, <2>3, <2>4 DEF Held, Go, Holding
  <2>6. k.pc = "submit"
    BY <1>1, <1>2
  <2>7. Informed(r)'
    BY <2>2, <2>4, <2>6 DEF Informed
  <2>8. Fits(r)'
    BY <1>3, <2>1, <2>2, <2>4, <2>7 DEF Fits, Still, Finished, New, Begun, Unstarted
  <2> QED
    BY <1>1, <2>2, <2>4, <2>5, <2>8, GuardSame, HolderStep
<1>5. CASE unit' \in {unit, [unit EXCEPT ![k.gen] = "inflight"]} /\ Raises(m) /\ UNCHANGED populated
  <2>1. PICK u \in {"none", "inflight", "starting"} :
          u \in {"none", "inflight"} /\ unit' = [unit EXCEPT ![k.gen] = u]
    <3>1. unit = [unit EXCEPT ![k.gen] = "none"]
      BY <1>3
    <3> QED
      BY <1>5, <3>1
  <2>2. populated' = IF u = "starting" THEN [populated EXCEPT ![k.gen] = TRUE] ELSE populated
    BY <1>5, <2>1
  <2>3. /\ RecOK' /\ AllSound' /\ Informed(k)'
        /\ \A h \in Generation : unit[h] = "post" => unit'[h] = "post"
    BY <1>1, <1>2, <2>1, <2>2, SubmitSound
  <2>4. PICK r \in Progress : Held(m, r) /\ Fits(r)' /\ r.pc # "retiring"
    BY <1>1, <1>2, <1>5, <2>3, RaisesHeld
  <2> QED
    BY <1>1, <2>3, <2>4, GuardSame, HolderStep
<1> QED
  BY <1>2, <1>4, <1>5 DEF Submit

LEMMA AckInv == ASSUME IInv, NEW m \in Manager, Ack(m) PROVE IInv'
PROOF
<1>1. mgr[m].pc = "ack" /\ mgr[m].pc \in Holding /\ UNCHANGED <<guard, calls, told, overtaken, service>>
  BY DEF Ack, Holding
<1>2. PICK k : k = mgr[m]
  OBVIOUS
<1>3. PICK data : data = [k.data EXCEPT !.submission = "acknowledged"]
  OBVIOUS
<1>4. /\ k \in Progress /\ Informed(k) /\ k.mode # "none" /\ Begun(k.gen) /\ k.pc = "ack"
  BY <1>1, <1>2, Holder DEF Fits, New
<1>5. data \in Meta /\ data.submission = "acknowledged" /\ data.state = k.data.state
  BY <1>3, <1>4 DEF Informed, Meta
<1>6. Known(k.gen, data) /\ (data.state = "stopped" => Terminal(meta[k.gen].state))
  BY <1>4, <1>5 DEF Known, Informed
<1>7. CASE Write(m, data) /\ UNCHANGED name
           /\ Step(m, [k EXCEPT !.pc = "inspect", !.data = Merged(meta[k.gen], data)])
  <2>1. PICK new : new = Merged(meta[k.gen], data)
    OBVIOUS
  <2>2. /\ new \in Meta /\ new.submission = "acknowledged"
        /\ new.state \in {meta[k.gen].state, data.state}
    BY <1>4, <1>5, <2>1, MergedFacts DEF Informed
  <2>3. Known(k.gen, new) /\ (new.state = "stopped" => Terminal(meta[k.gen].state))
    BY <1>4, <1>6, <2>2 DEF Known, Terminal
  <2>4. PICK r : r = [k EXCEPT !.pc = "inspect", !.data = new]
    OBVIOUS
  <2>5. /\ r \in Progress /\ r.pc = "inspect" /\ r.mode = k.mode /\ r.gen = k.gen /\ r.data = new
    BY <1>4, <2>2, <2>4 DEF Progress, Holding
  <2>6. Held(m, r)
    BY <1>7, <2>1, <2>4, <2>5 DEF Held, Holding
  <2>7. Informed(r)'
    BY <1>1, <1>2, <1>5, <1>6, <1>7, <2>2, <2>3, <2>5, InformedWritten
  <2>8. Fits(r)'
    BY <1>4, <2>5, <2>7, LookingFits DEF Looking
  <2> QED
    BY <1>1, <1>2, <1>5, <1>6, <1>7, <2>5, <2>6, <2>8, WriteStep
<1>8. CASE /\ UNCHANGED <<records, name>>
           /\ Step(m, [k EXCEPT !.pc = "inspect", !.mode = "abort", !.failed = TRUE, !.data = data])
  <2>1. PICK r : r = [k EXCEPT !.pc = "inspect", !.mode = "abort", !.failed = TRUE, !.data = data]
    OBVIOUS
  <2>2. /\ r \in Progress /\ r.pc = "inspect" /\ r.mode = "abort" /\ r.gen = k.gen /\ r.data = data
    BY <1>4, <1>5, <2>1 DEF Progress, Holding
  <2>3. Held(m, r)
    BY <1>8, <2>1, <2>2 DEF Held, Holding
  <2>4. Informed(r)
    BY <1>4, <1>5, <1>6, <2>2 DEF Informed
  <2>5. Fits(r)
    BY <2>2, <2>4, LookingFits DEF Looking
  <2> QED
    BY <1>1, <1>8, <2>2, <2>3, <2>5, OnlyStep
<1> QED
  BY <1>2, <1>3, <1>7, <1>8 DEF Ack

LEMMA IntentInv == ASSUME IInv, NEW m \in Manager, Intent(m) PROVE IInv'
PROOF
<1>1. /\ mgr[m].pc = "intent" /\ mgr[m].pc \in Holding
      /\ UNCHANGED <<name, guard, calls, told, overtaken, service>>
  BY DEF Intent, Holding
<1>2. CASE Go(m, "stop") /\ UNCHANGED records
  BY <1>1, <1>2, GoInv DEF Looking
<1>3. PICK k : k = mgr[m]
  OBVIOUS
<1>4. PICK d : d = IF k.failed THEN [k.data EXCEPT !.state = "failed"] ELSE k.data
  OBVIOUS
<1>5. k \in Progress /\ Informed(k) /\ k.mode # "none" /\ k.pc = "intent"
  BY <1>1, <1>3, Holder
<1>6. PICK g : g = k.gen
  OBVIOUS
<1>7. g \in Generation /\ Sound(g) /\ RecOK
  BY <1>5, <1>6, Parts DEF Informed, IInv, AllSound
<1>8. CASE /\ intent' = [intent EXCEPT ![g] = IF @ # "none" THEN @ ELSE IF d.state = "failed" THEN "failed" ELSE "clean"]
           /\ Step(m, [k EXCEPT !.pc = "write", !.data = d])
           /\ UNCHANGED <<current, meta, failure, files>>
  <2>1. /\ intent' \in [Generation -> {"none", "clean", "failed"}]
        /\ intent[g] # "none" => intent'[g] = intent[g]
        /\ \A h \in Generation : h # g => intent'[h] = intent[h]
    BY <1>7, <1>8 DEF RecOK
  <2>2. RecOK'
    BY <1>1, <1>7, <1>8, <2>1 DEF RecOK, service
  <2>3. Sound(g)'
    <3>1. (Counted(g)' <=> Counted(g)) /\ (Begun(g)' <=> Begun(g)) /\ (Known(g, meta[g])' <=> Known(g, meta[g]))
      BY <1>1, <1>8 DEF Counted, Live, Begun, Known, service
    <3> QED
      BY <1>1, <1>7, <1>8, <2>1, <3>1 DEF Sound, service
  <2>4. AllSound'
    BY <1>1, <1>7, <1>8, <2>1, <2>3, SoundAt DEF service
  <2>5. d \in Meta /\ d.submission = k.data.submission /\ (d.state = "stopped" => k.data.state = "stopped")
    BY <1>4, <1>5 DEF Informed, Meta
  <2>6. PICK r : r = [k EXCEPT !.pc = "write", !.data = d]
    OBVIOUS
  <2>7. /\ r \in Progress /\ r.pc = "write" /\ r.mode = k.mode /\ r.gen = k.gen /\ r.data = d
    BY <1>5, <2>5, <2>6 DEF Progress, Holding
  <2>8. Held(m, r)
    BY <1>1, <1>8, <2>6, <2>7 DEF Held, Holding
  <2>9. Informed(r)
    BY <1>5, <2>5, <2>7 DEF Informed, Known
  <2>10. Fits(r)'
    BY <1>1, <1>5, <1>8, <2>7, <2>9, Unmoved, LookingFits DEF Looking, service
  <2>11. \A h \in Generation : unit[h] = "post" => unit'[h] = "post"
    BY <1>1 DEF service
  <2> QED
    BY <1>1, <2>2, <2>4, <2>7, <2>8, <2>10, <2>11, GuardSame, HolderStep
<1> QED
  BY <1>2, <1>3, <1>4, <1>6, <1>8 DEF Intent

LEMMA StopWriteInv == ASSUME IInv, NEW m \in Manager, StopWrite(m) PROVE IInv'
PROOF
<1>1. /\ mgr[m].pc = "write" /\ mgr[m].pc \in Holding
      /\ UNCHANGED <<name, guard, calls, told, overtaken, service>>
  BY DEF StopWrite, Holding
<1>2. PICK k : k = mgr[m]
  OBVIOUS
<1>3. PICK data : data = [k.data EXCEPT !.state = IF k.failed THEN "failed" ELSE "stopping"]
  OBVIOUS
<1>4. k \in Progress /\ Informed(k) /\ k.mode # "none" /\ k.pc = "write"
  BY <1>1, <1>2, Holder
<1>5. data \in Meta /\ data.submission = k.data.submission /\ data.state # "stopped"
  BY <1>3, <1>4 DEF Informed, Meta
<1>6. Known(k.gen, data)
  BY <1>4, <1>5 DEF Known, Informed
<1>7. PICK r : r = [k EXCEPT !.pc = "stop", !.data = data]
  OBVIOUS
<1>8. /\ r \in Progress /\ r.pc = "stop" /\ r.mode = k.mode /\ r.gen = k.gen /\ r.data = data
  BY <1>4, <1>5, <1>7 DEF Progress, Holding
<1>9. (Write(m, data) \/ UNCHANGED records) /\ Step(m, r)
  BY <1>2, <1>3, <1>7 DEF StopWrite
<1>10. Held(m, r)
  BY <1>1, <1>8, <1>9 DEF Held, Holding
<1>11. CASE Write(m, data)
  <2>1. Informed(r)'
    BY <1>1, <1>2, <1>5, <1>6, <1>8, <1>11, InformedWritten
  <2>2. Fits(r)'
    BY <1>4, <1>8, <2>1, LookingFits DEF Looking
  <2> QED
    BY <1>1, <1>2, <1>5, <1>6, <1>8, <1>10, <1>11, <2>2, WriteStep
<1>12. CASE UNCHANGED records
  <2>1. Informed(r)
    BY <1>4, <1>5, <1>6, <1>8 DEF Informed
  <2>2. Fits(r)
    BY <1>4, <1>8, <2>1, LookingFits DEF Looking
  <2> QED
    BY <1>1, <1>8, <1>10, <1>12, <2>2, OnlyStep
<1> QED
  BY <1>9, <1>11, <1>12

LEMMA StopInv == ASSUME IInv, NEW m \in Manager, Stop(m) PROVE IInv'
PROOF
<1>1. /\ mgr[m].pc = "stop" /\ mgr[m].pc \in Holding
      /\ UNCHANGED <<guard, calls, told, overtaken, records, result, populated>>
  BY DEF Stop, Holding
<1>2. PICK k : k = mgr[m]
  OBVIOUS
<1>3. k \in Progress /\ Informed(k) /\ k.mode # "none" /\ k.pc = "stop"
  BY <1>1, <1>2, Holder
<1>4. PICK g : g = k.gen
  OBVIOUS
<1>5. g \in Generation /\ Sound(g) /\ RecOK
  BY <1>3, <1>4, Parts DEF Informed, IInv, AllSound
<1>6. PICK u : u = IF unit[g] \in {"starting", "active", "draining"} THEN "stopping" ELSE unit[g]
  OBVIOUS
<1>7. unit' = [unit EXCEPT ![g] = u]
  BY <1>2, <1>4, <1>6 DEF Stop
<1>8. /\ unit'[g] = u /\ unit' \in [Generation -> Units]
      /\ \A h \in Generation : h # g => unit'[h] = unit[h]
  <2>1. unit \in [Generation -> Units]
    BY <1>5 DEF RecOK
  <2>2. u \in Units
    BY <1>5, <1>6, <2>1 DEF Units
  <2> QED
    BY <1>5, <1>7, <2>1, <2>2
<1>9. RecOK'
  BY <1>1, <1>5, <1>8 DEF RecOK, records
<1>10. /\ Counted(g)' <=> Counted(g)
       /\ g \in overtaken => unit'[g] = unit[g]
       /\ Begun(g)' <=> Begun(g)
       /\ unit'[g] = "none" <=> unit[g] = "none"
  BY <1>1, <1>5, <1>6, <1>8 DEF Counted, Live, Begun, Unstarted, Sound
<1>11. Sound(g)'
  <2>1. Known(g, meta[g])'
    BY <1>1, <1>5, <1>10 DEF Sound, Known, records
  <2>2. (unit[g] \in Running => populated[g])'
    BY <1>1, <1>5, <1>6, <1>8 DEF Sound, Running
  <2>3. (meta[g].state = "stopped" =>
          /\ intent[g] = "clean" /\ ~failure[g]
          /\ unit[g] \notin {"inflight", "starting", "active", "draining", "stopping"})'
    BY <1>1, <1>5, <1>6, <1>8 DEF Sound, records
  <2> QED
    BY <1>1, <1>5, <1>10, <2>1, <2>2, <2>3 DEF Sound, records
<1>12. AllSound'
  BY <1>1, <1>5, <1>8, <1>11, SoundAt DEF records
<1>13. Informed(k)'
  BY <1>1, <1>3, <1>4, <1>10 DEF Informed, Known, records
<1>14. \A h \in Generation : unit[h] = "post" => unit'[h] = "post"
  BY <1>6, <1>8
<1>15. CASE Raises(m)
  <2>1. PICK r \in Progress : Held(m, r) /\ Fits(r)' /\ r.pc # "retiring"
    BY <1>1, <1>2, <1>13, <1>15, RaisesHeld
  <2> QED
    BY <1>1, <1>9, <1>12, <1>14, <2>1, GuardSame, HolderStep
<1>16. CASE Step(m, [k EXCEPT !.pc = "inspect", !.submitted = TRUE]) /\ UNCHANGED name
  <2>1. PICK r : r = [k EXCEPT !.pc = "inspect", !.submitted = TRUE]
    OBVIOUS
  <2>2. /\ r \in Progress /\ r.pc = "inspect" /\ r.mode = k.mode /\ r.gen = k.gen /\ r.data = k.data
    BY <1>3, <2>1 DEF Progress, Holding
  <2>3. Held(m, r)
    BY <1>16, <2>1, <2>2 DEF Held, Holding
  <2>4. Informed(r)'
    BY <1>3, <1>13, <2>2 DEF Informed
  <2>5. Fits(r)'
    BY <1>3, <2>2, <2>4, LookingFits DEF Looking
  <2> QED
    BY <1>1, <1>9, <1>12, <1>14, <2>2, <2>3, <2>5, GuardSame, HolderStep
<1> QED
  BY <1>2, <1>15, <1>16 DEF Stop

\* Whatever it was doing, a manager may be killed: the locks it held are free, and a
\* submission it had begun may still come up.
LEMMA CrashInv == ASSUME IInv, NEW m \in Manager, Crash(m) PROVE IInv'
PROOF
<1>1. /\ mgr[m].pc # "idle" /\ Ends(m)
      /\ UNCHANGED <<calls, told, overtaken, records, result, populated>>
      /\ guard' = [g \in Generation |-> IF guard[g] = m THEN None ELSE guard[g]]
  BY DEF Crash
<1>2. GuardOK /\ RecOK /\ MgrOK
  BY Parts DEF IInv
<1>3. CASE mgr[m].pc \notin Holding
  <2>1. \A g \in Generation : guard[g] # m
    BY <1>2, <1>3 DEF GuardOK, Holding
  <2>2. guard' = guard
    BY <1>1, <1>2, <2>1 DEF GuardOK
  <2>3. unit' = unit
    BY <1>3 DEF Crash, Holding
  <2>4. Step(m, Idle) /\ name' = name /\ calls' \in 0 .. MaxCalls
    BY <1>1, <1>2, <1>3 DEF Ends, MgrOK, RecOK
  <2> QED
    BY <1>1, <1>3, <2>2, <2>3, <2>4, IdleFits, OutsideStep DEF Holding, service
<1>4. CASE mgr[m].pc \in Holding
  <2>1. Held(m, Idle)
    BY <1>1, <1>4, EndsHeld
  <2>2. /\ guard' \in [Generation -> Manager \cup {None, Hook}]
        /\ \A h \in Generation : guard'[h] \notin Manager /\ (guard'[h] = Hook => guard[h] = Hook)
    <3>1. \A j \in Manager : j # m => mgr[j].pc # "retiring"
      BY <1>4, Holder DEF Holding
    <3> QED
      BY <1>1, <1>2, <3>1, ConstantsAssumption DEF GuardOK
  <2>3. CASE UNCHANGED unit
    <3>1. RecOK' /\ AllSound'
      BY <1>1, <1>2, <2>3, SoundSame DEF RecOK, records, IInv
    <3> QED
      BY <1>2, <1>4, <2>1, <2>2, <2>3, <3>1, IdleFits, HolderStep DEF GuardOK
  <2>4. CASE mgr[m].pc = "submit" /\ unit' = [unit EXCEPT ![mgr[m].gen] = "inflight"]
    <3>1. PICK u, k : u \in {"none", "inflight", "starting"} /\ u = "inflight" /\ k = mgr[m]
      OBVIOUS
    <3>2. populated' = IF u = "starting" THEN [populated EXCEPT ![k.gen] = TRUE] ELSE populated
      BY <1>1, <3>1
    <3>3. RecOK' /\ AllSound' /\ \A h \in Generation : unit[h] = "post" => unit'[h] = "post"
      BY <1>1, <2>4, <3>1, <3>2, SubmitSound
    <3> QED
      BY <1>2, <1>4, <2>1, <2>2, <3>3, IdleFits, HolderStep DEF GuardOK
  <2> QED
    BY <2>3, <2>4 DEF Crash
<1> QED
  BY <1>3, <1>4

LEMMA WorkInv == ASSUME IInv, NEW m \in Manager, Work(m) PROVE IInv'
BY AcquireInv, FailsInv, InspectInv, DecideInv, PingInv, ReadyInv, RetireInv,
     RetiredInv,
   ReserveInv, ReserveFailsInv, PublishInv, MarkInv, SubmitInv, AckInv, IntentInv, StopWriteInv,
   StopInv, CrashInv DEF Work

-----------------------------------------------------------------------------
(* The service's steps.  What a manager knows of it may only come to be over.  *)

Advances(g) ==
  /\ \A h \in Generation : h # g =>
       /\ meta'[h] = meta[h] /\ intent'[h] = intent[h] /\ failure'[h] = failure[h]
       /\ files'[h] = files[h] /\ unit'[h] = unit[h] /\ populated'[h] = populated[h]
       /\ h \in overtaken' <=> h \in overtaken
  /\ g \in overtaken => g \in overtaken'
  /\ unit'[g] = "none" <=> unit[g] = "none"
  /\ Begun(g) => Begun(g)'
  /\ unit[g] \in {"failed", "gone"} /\ ~populated[g] => unit'[g] \in {"failed", "gone"} /\ ~populated'[g]
  /\ Counted(g)' => Counted(g)
  /\ files'[g] => files[g] \/ Counted(g)
  /\ \/ meta'[g] = meta[g]
     \/ /\ meta'[g] \in Meta /\ Terminal(meta'[g].state) /\ unit[g] = "post"
        /\ Stale(g) => g \in overtaken'

LEMMA ServiceFits ==
  ASSUME IInv, NEW g \in Generation, Advances(g), UNCHANGED <<told, current>>,
         NEW m \in Manager, NEW k, k = mgr[m]
  PROVE  Fits(k)'
PROOF
<1>1. Fits(k) /\ RecOK
  BY Parts DEF IInv, AllFit
<1>2. CASE k.pc \notin Holding
  BY <1>1, <1>2 DEF Fits
<1>3. CASE k.pc \in Holding
  <2>1. \A h \in Generation : /\ unit'[h] = "none" <=> unit[h] = "none"
                              /\ Begun(h) => Begun(h)'
                              /\ Counted(h)' => Counted(h)
    BY DEF Advances, Begun, Counted, Live
  <2>2. \A d : \A h \in Generation : Known(h, d) => Known(h, d)'
    BY <2>1 DEF Known
  <2>3. \A h \in Generation : /\ meta[h] \in Meta => meta'[h] \in Meta
                              /\ Terminal(meta[h].state) => Terminal(meta'[h].state)
                              /\ unit[h] # "post" => meta'[h] = meta[h]
    BY DEF Advances
  <2>4. k.pc # "reserve" => Informed(k)
    BY <1>1, <1>3 DEF Fits
  <2>5. Informed(k) => Informed(k)'
    BY <2>2, <2>3 DEF Informed
  <2>6. k.pc = "decide" => Snapshot(k)'
    <3> SUFFICES ASSUME k.pc = "decide" PROVE Snapshot(k)'
      OBVIOUS
    <3>1. Snapshot(k) /\ k.gen \in Generation
      BY <1>1, <1>3, <2>4 DEF Fits, Informed
    <3>2. k.info.unit \in Unstarted /\ k.gen \notin overtaken' =>
            meta'[k.gen] = meta[k.gen] /\ k.gen \notin overtaken
      <4>1. k.info.unit \in Unstarted /\ k.gen \notin overtaken => meta[k.gen].submission # "acknowledged"
        BY <3>1 DEF Snapshot
      <4>2. unit[k.gen] = "post" => meta[k.gen].submission \notin {"none", "reserved"}
        BY <3>1 DEF IInv, AllSound, Sound, Known
      <4>3. meta[k.gen] \in Meta
        BY <2>4 DEF Informed
      <4> QED
        BY <3>1, <4>1, <4>2, <4>3 DEF Advances, Stale, Loaded, Unstarted, Meta
    <3>3. unit[k.gen] \in {"failed", "gone"} /\ ~populated[k.gen]
            => unit'[k.gen] \in {"failed", "gone"} /\ ~populated'[k.gen]
      BY <3>1 DEF Advances
    <3> QED
      BY <2>1, <3>1, <3>2, <3>3 DEF Snapshot
  <2>7. Still(k) /\ Finished(k) /\ New(k) /\ k.mode # "none"
    BY <1>1, <1>3 DEF Fits
  <2>8. Still(k)'
    BY <2>1, <2>7 DEF Still
  <2>9. Finished(k)'
    <3>1. k.pc = "retiring" => Terminal(meta'[k.gen].state)
      BY <2>3, <2>4, <2>7 DEF Finished, Informed
    <3> SUFFICES ASSUME k.pc \in {"reserve", "publish"}, current # None
                 PROVE  /\ current \notin overtaken' => ~files'[current]
                        /\ Terminal(meta'[current].state)
      BY <3>1 DEF Finished
    <3>2. /\ current \in Generation /\ Terminal(meta[current].state) /\ ~Counted(current)
          /\ current \notin overtaken => ~files[current]
      BY <1>1, <2>7 DEF RecOK, Finished, Still
    <3>3. current \notin overtaken' => ~files'[current]
      BY <3>2 DEF Advances
    <3> QED
      BY <2>3, <3>2, <3>3
  <2>10. New(k)'
    <3> SUFFICES ASSUME k.pc \in {"publish", "mark", "submit", "ack"} PROVE New(k)'
      BY DEF New
    <3>1. k.gen \in Generation
      BY <2>4 DEF Informed
    <3>2. k.pc # "ack" => meta'[k.gen] = meta[k.gen]
      BY <2>3, <2>7, <3>1 DEF New
    <3> QED
      BY <2>1, <2>7, <3>1, <3>2 DEF New
  <2> QED
    BY <2>4, <2>5, <2>6, <2>7, <2>8, <2>9, <2>10 DEF Fits
<1> QED
  BY <1>2, <1>3

LEMMA ServiceStep ==
  ASSUME IInv, NEW g \in Generation, Advances(g), UNCHANGED <<mgr, name, calls, told>>, current' = current,
         RecOK', Sound(g)',
         guard' \in [Generation -> Manager \cup {None, Hook}],
         \A h \in Generation : /\ guard'[h] = Hook => unit'[h] = "post"
                               /\ guard'[h] \in Manager => guard'[h] = guard[h]
  PROVE  IInv'
PROOF
<1>1. MgrOK' /\ GuardOK'
  BY Parts DEF IInv, MgrOK, GuardOK
<1>2. AllSound'
  BY SoundAt DEF Advances
<1>3. ASSUME NEW m \in Manager PROVE Fits(mgr[m])'
  <2>1. PICK k : k = mgr[m]
    OBVIOUS
  <2>2. Fits(k)'
    BY <2>1, ServiceFits
  <2> QED
    BY <2>1, <2>2
<1>4. AllFit'
  BY <1>3 DEF AllFit
<1> QED
  BY <1>1, <1>2, <1>4, Parts, PTL DEF IInv

\* The locks, where they are not touched.
LEMMA GuardKept ==
  ASSUME IInv, guard' = guard, \A h \in Generation : unit[h] = "post" => unit'[h] = "post"
  PROVE  /\ guard' \in [Generation -> Manager \cup {None, Hook}]
         /\ \A h \in Generation : /\ guard'[h] = Hook => unit'[h] = "post"
                                  /\ guard'[h] \in Manager => guard'[h] = guard[h]
BY Parts DEF IInv, GuardOK

LEMMA MaterialiseInv == ASSUME IInv, NEW g \in Generation, Materialise(g) PROVE IInv'
PROOF
<1>1. RecOK /\ Sound(g)
  BY Parts DEF IInv, AllSound
<1>2. /\ unit[g] = "inflight" /\ Quiet /\ UNCHANGED <<guard, records, result>>
  BY DEF Materialise
<1>3. ~populated[g] /\ ~Begun(g) /\ Counted(g)
  BY <1>1, <1>2 DEF Sound, Begun, Unstarted, Counted, Live
<1>4. /\ \/ unit'[g] = "starting" /\ populated'[g]
         \/ unit'[g] = "lost" /\ ~populated'[g]
      /\ unit' \in [Generation -> Units] /\ populated' \in [Generation -> BOOLEAN]
      /\ \A h \in Generation : h # g => unit'[h] = unit[h] /\ populated'[h] = populated[h]
  BY <1>1, <1>3 DEF Materialise, RecOK, Units
<1>5. RecOK'
  BY <1>1, <1>2, <1>4 DEF RecOK, records, Quiet
<1>6. Advances(g)
  BY <1>2, <1>3, <1>4 DEF Advances, records, Quiet
<1>7. Sound(g)'
  <2>1. Known(g, meta[g])'
    BY <1>1, <1>2, <1>3, <1>4 DEF Sound, Known, Begun, Unstarted, records
  <2>2. (populated[g] => Begun(g))' /\ (unit[g] \in Running => populated[g])'
    BY <1>4 DEF Begun, Unstarted, Running
  <2> QED
    BY <1>1, <1>2, <1>3, <2>1, <2>2 DEF Sound, records, Quiet
<1>8. \A h \in Generation : unit[h] = "post" => unit'[h] = "post"
  BY <1>2, <1>4
<1> QED
  BY <1>2, <1>5, <1>6, <1>7, <1>8, GuardKept, ServiceStep DEF records, Quiet

\* While it is up, the unit only moves on.
LEMMA UpInv ==
  ASSUME IInv, NEW g \in Generation, Quiet,
         unit[g] \in Running, NEW u \in Running \cup {"failed", "gone"}, unit' = [unit EXCEPT ![g] = u],
         meta[g].state = "stopped" => u \in {"post", "failed", "gone"} /\ intent'[g] = intent[g] /\ ~failure'[g],
         g \in overtaken => u \in {"post", "failed", "gone"} /\ (files'[g] => files[g]),
         meta' = meta, UNCHANGED <<current, populated>>,
         result' \in [Generation -> {"success", "other", "fault"}],
         intent' \in [Generation -> {"none", "clean", "failed"}],
         failure' \in [Generation -> BOOLEAN], files' \in [Generation -> BOOLEAN],
         \A h \in Generation : h # g =>
           intent'[h] = intent[h] /\ failure'[h] = failure[h] /\ files'[h] = files[h],
         guard' \in [Generation -> Manager \cup {None, Hook}],
         \A h \in Generation : /\ guard'[h] = Hook => unit'[h] = "post"
                               /\ guard'[h] \in Manager => guard'[h] = guard[h]
  PROVE  IInv'
PROOF
<1>1. RecOK /\ Sound(g)
  BY Parts DEF IInv, AllSound
<1>2. /\ populated[g] /\ Begun(g) /\ UNCHANGED <<overtaken, told>>
      /\ g \notin overtaken => Counted(g) /\ g = current /\ g \notin told
  BY <1>1 DEF Sound, Begun, Unstarted, Running, Counted, Live, Quiet
<1>3. /\ unit'[g] = u /\ unit' \in [Generation -> Units]
      /\ \A h \in Generation : h # g => unit'[h] = unit[h]
  BY <1>1 DEF RecOK, Units, Running
<1>4. RecOK'
  BY <1>1, <1>3 DEF RecOK, Quiet
<1>5. Begun(g)' /\ (Counted(g)' <=> Counted(g))
  BY <1>2, <1>3 DEF Begun, Counted, Live, Unstarted, Running
<1>6. Advances(g)
  BY <1>2, <1>3, <1>5 DEF Advances, Begun, Unstarted, Running
<1>7. Sound(g)'
  <2>1. Known(g, meta[g])'
    BY <1>1, <1>2, <1>3, <1>5 DEF Sound, Known, Running, Begun, Unstarted
  <2>2. unit[g] \in Running => populated'[g]
    BY <1>2
  <2> QED
    BY <1>1, <1>2, <1>3, <1>5, <2>1, <2>2 DEF Sound, Counted
<1> QED
  BY <1>4, <1>6, <1>7, ServiceStep DEF Quiet

LEMMA ExecutesInv == ASSUME IInv, NEW g \in Generation, Executes(g) PROVE IInv'
PROOF
<1>1. RecOK /\ Sound(g)
  BY Parts DEF IInv, AllSound
<1>2. /\ unit[g] = "starting" /\ Quiet /\ UNCHANGED <<guard, populated, current, meta, intent, failure>>
  BY DEF Executes
<1>3. PICK u \in {"active", "post"} : unit' = [unit EXCEPT ![g] = u]
  BY DEF Executes
<1>4. /\ result' \in [Generation -> {"success", "other", "fault"}]
      /\ files' \in [Generation -> BOOLEAN]
      /\ \A h \in Generation : h # g => files'[h] = files[h]
  BY <1>1 DEF Executes, RecOK
<1>5. /\ meta[g].state # "stopped" /\ g \notin overtaken /\ unit[g] \in Running /\ u \in Running
      /\ \A h \in Generation : unit[h] = "post" => unit'[h] = "post"
  BY <1>1, <1>2, <1>3 DEF Sound, Running, RecOK
<1>6. intent' \in [Generation -> {"none", "clean", "failed"}] /\ failure' \in [Generation -> BOOLEAN]
  BY <1>1, <1>2 DEF RecOK
<1> QED
  BY ZenonT(60), <1>2, <1>3, <1>4, <1>5, <1>6, GuardKept, UpInv

LEMMA AdmitStopInv == ASSUME IInv, NEW g \in Generation, AdmitStop(g) PROVE IInv'
PROOF
<1>1. RecOK /\ Sound(g)
  BY Parts DEF IInv, AllSound
<1>2. /\ unit[g] \in {"active", "draining", "stopping"} /\ Quiet
      /\ UNCHANGED <<guard, result, populated, current, meta, failure, files>>
  BY DEF AdmitStop
<1>3. PICK u : u = IF unit[g] = "active" THEN "draining" ELSE unit[g]
  OBVIOUS
<1>4. unit' = [unit EXCEPT ![g] = u]
  BY <1>3 DEF AdmitStop
<1>5. /\ intent' \in [Generation -> {"none", "clean", "failed"}]
      /\ \A h \in Generation : h # g => intent'[h] = intent[h]
  BY <1>1 DEF AdmitStop, RecOK
<1>6. /\ meta[g].state # "stopped" /\ g \notin overtaken /\ unit[g] \in Running /\ u \in Running
      /\ \A h \in Generation : unit[h] = "post" => unit'[h] = "post"
  BY <1>1, <1>2, <1>3, <1>4 DEF Sound, Running, RecOK
<1>7. /\ result' \in [Generation -> {"success", "other", "fault"}]
      /\ files' \in [Generation -> BOOLEAN] /\ failure' \in [Generation -> BOOLEAN]
  BY <1>1, <1>2 DEF RecOK
<1> QED
  BY ZenonT(60), <1>2, <1>4, <1>5, <1>6, <1>7, GuardKept, UpInv

LEMMA WorkerEndsInv ==
  ASSUME IInv, NEW g \in Generation, NEW why \in {"success", "other", "fault"},
         NEW recorded \in BOOLEAN, WorkerEnds(g, why, recorded)
  PROVE  IInv'
PROOF
<1>1. RecOK /\ Sound(g)
  BY Parts DEF IInv, AllSound
<1>2. /\ unit[g] \in {"active", "draining", "stopping"} /\ Quiet
      /\ unit' = [unit EXCEPT ![g] = "post"]
      /\ UNCHANGED <<guard, populated, current, meta, intent, files>>
  BY DEF WorkerEnds
<1>3. /\ result' \in [Generation -> {"success", "other", "fault"}]
      /\ failure' \in [Generation -> BOOLEAN]
      /\ \A h \in Generation : h # g => failure'[h] = failure[h]
  BY <1>1 DEF WorkerEnds, RecOK
<1>4. /\ meta[g].state # "stopped" /\ g \notin overtaken /\ unit[g] \in Running /\ "post" \in Running
      /\ \A h \in Generation : unit[h] = "post" => unit'[h] = "post"
  BY <1>1, <1>2 DEF Sound, Running, RecOK
<1>5. /\ intent' \in [Generation -> {"none", "clean", "failed"}]
      /\ files' \in [Generation -> BOOLEAN]
  BY <1>1, <1>2 DEF RecOK
<1> QED
  BY ZenonT(60), <1>2, <1>3, <1>4, <1>5, GuardKept, UpInv

LEMMA HookBeginsInv == ASSUME IInv, NEW g \in Generation, HookBegins(g) PROVE IInv'
PROOF
<1>1. RecOK /\ Sound(g) /\ GuardOK
  BY Parts DEF IInv, AllSound
<1>2. /\ unit[g] = "post" /\ UNCHANGED <<mgr, name, calls, told>>
      /\ UNCHANGED <<service, current, intent, failure, files>>
      /\ guard' = [guard EXCEPT ![g] = Hook]
      /\ overtaken' = IF Stale(g) THEN overtaken \cup {g} ELSE overtaken
      /\ g = current
  BY DEF HookBegins
<1>3. PICK new : new = Finalized(g, "acknowledged", FALSE, result[g] = "fault", TRUE)
  OBVIOUS
<1>4. meta' = [meta EXCEPT ![g] = new]
  BY <1>3 DEF HookBegins
<1>5. /\ new \in Meta /\ Terminal(new.state) /\ new.submission = "acknowledged"
      /\ new.state = "stopped" => intent[g] = "clean" /\ ~failure[g]
  <2>1. meta[g] \in Meta /\ intent[g] \in {"none", "clean", "failed"}
    BY <1>1, <1>2 DEF Sound, RecOK
  <2> QED
    BY <1>1, <1>3, <2>1 DEF Finalized, Classify, Meta, Terminal, Sound
<1>6. Begun(g) /\ Known(g, new) /\ (Counted(g)' => Counted(g))
  BY <1>2, <1>5 DEF Counted, Live, Begun, Unstarted, Known, service
<1>7. /\ meta' \in [Generation -> Meta \cup {Absent}] /\ meta'[g] = new
      /\ \A h \in Generation : h # g => meta'[h] = meta[h]
  BY <1>1, <1>4, <1>5 DEF RecOK
<1>11. RecOK'
  BY <1>1, <1>2, <1>7 DEF RecOK, service
<1>8. Advances(g)
  BY <1>2, <1>5, <1>6, <1>7 DEF Advances, service, Begun
<1>9. /\ guard' \in [Generation -> Manager \cup {None, Hook}]
      /\ \A h \in Generation : /\ guard'[h] = Hook => unit'[h] = "post"
                               /\ guard'[h] \in Manager => guard'[h] = guard[h]
  BY <1>1, <1>2, ConstantsAssumption DEF GuardOK, service
<1>10. Sound(g)'
  <2>1. Known(g, meta[g])' /\ (populated[g] => Begun(g))'
    BY <1>1, <1>2, <1>6, <1>7 DEF Known, Begun, Sound, service
  <2> QED
    BY <1>1, <1>2, <1>5, <1>6, <1>7, <2>1 DEF Sound, Counted, service
<1> QED
  BY <1>2, <1>8, <1>9, <1>10, <1>11, ServiceStep

LEMMA HookEndsInv == ASSUME IInv, NEW g \in Generation, HookEnds(g) PROVE IInv'
PROOF
<1>1. RecOK /\ Sound(g) /\ GuardOK
  BY Parts DEF IInv, AllSound
<1>2. /\ guard[g] = Hook /\ unit[g] = "post" /\ Quiet
      /\ guard' = [guard EXCEPT ![g] = None] /\ files' = [files EXCEPT ![g] = FALSE]
      /\ UNCHANGED <<current, meta, intent, failure, result, populated>>
  BY <1>1 DEF HookEnds, GuardOK
<1>3. PICK u \in {"gone", "failed"} : unit' = [unit EXCEPT ![g] = u]
  BY DEF HookEnds
<1>4. /\ files' \in [Generation -> BOOLEAN] /\ \A h \in Generation : h # g => files'[h] = files[h]
  BY <1>1, <1>2 DEF RecOK
<1>5. /\ guard' \in [Generation -> Manager \cup {None, Hook}]
      /\ \A h \in Generation : /\ guard'[h] = Hook => unit'[h] = "post"
                               /\ guard'[h] \in Manager => guard'[h] = guard[h]
  BY <1>1, <1>2, <1>3, ConstantsAssumption DEF GuardOK, RecOK
<1>6. (meta[g].state = "stopped" => ~failure'[g]) /\ ~files'[g]
  BY <1>1, <1>2 DEF Sound, RecOK
<1>7. /\ result' \in [Generation -> {"success", "other", "fault"}]
      /\ intent' \in [Generation -> {"none", "clean", "failed"}] /\ failure' \in [Generation -> BOOLEAN]
  BY <1>1, <1>2 DEF RecOK
<1> QED
  BY <1>2, <1>3, <1>4, <1>5, <1>6, <1>7, UpInv DEF Running

LEMMA HookFailsInv == ASSUME IInv, NEW g \in Generation, HookFails(g) PROVE IInv'
PROOF
<1>1. RecOK /\ Sound(g) /\ GuardOK
  BY Parts DEF IInv, AllSound
<1>2. /\ unit[g] = "post" /\ Quiet /\ unit' = [unit EXCEPT ![g] = "failed"]
      /\ UNCHANGED <<records, populated>>
  BY DEF HookFails
<1>3. /\ guard' \in [Generation -> Manager \cup {None, Hook}]
      /\ \A h \in Generation : /\ guard'[h] = Hook => unit'[h] = "post"
                               /\ guard'[h] \in Manager => guard'[h] = guard[h]
  BY <1>1, <1>2, ConstantsAssumption DEF HookFails, GuardOK, RecOK
<1>4. result' \in [Generation -> {"success", "other", "fault"}]
  BY <1>1 DEF HookFails, RecOK
<1>5. meta[g].state = "stopped" => ~failure'[g]
  BY <1>1, <1>2 DEF Sound, records
<1>6. /\ intent' \in [Generation -> {"none", "clean", "failed"}] /\ failure' \in [Generation -> BOOLEAN]
      /\ files' \in [Generation -> BOOLEAN]
  BY <1>1, <1>2 DEF RecOK, records
<1> QED
  BY <1>2, <1>3, <1>4, <1>5, <1>6, UpInv DEF Running, records

LEMMA EmptiesInv == ASSUME IInv, NEW g \in Generation, Empties(g) PROVE IInv'
PROOF
<1>1. RecOK /\ Sound(g)
  BY Parts DEF IInv, AllSound
<1>2. /\ unit[g] \in {"failed", "gone"} /\ populated[g] /\ Quiet
      /\ populated' = [populated EXCEPT ![g] = FALSE]
      /\ UNCHANGED <<guard, records, unit, result>>
  BY DEF Empties
<1>3. ~populated'[g] /\ \A h \in Generation : h # g => populated'[h] = populated[h]
  BY <1>1, <1>2 DEF RecOK
<1>4. ~Counted(g)' /\ Begun(g) /\ Begun(g)' /\ UNCHANGED overtaken
  BY <1>2, <1>3 DEF Counted, Live, Begun, Unstarted, Quiet
<1>5. RecOK'
  BY <1>1, <1>2 DEF RecOK, records, Quiet
<1>6. Advances(g)
  BY <1>2, <1>3, <1>4 DEF Advances, records
<1>7. Sound(g)'
  <2>1. Known(g, meta[g])'
    BY <1>1, <1>2, <1>4 DEF Sound, Known, records, Begun
  <2> QED
    BY <1>1, <1>2, <1>3, <1>4, <2>1 DEF Sound, records, Quiet, Running
<1> QED
  BY <1>2, <1>5, <1>6, <1>7, GuardKept, ServiceStep DEF records, Quiet

LEMMA ServiceInv == ASSUME IInv, Service PROVE IInv'
BY MaterialiseInv, ExecutesInv, AdmitStopInv, WorkerEndsInv, HookBeginsInv, HookEndsInv,
     HookFailsInv,
   EmptiesInv DEF Service

LEMMA NextInv == ASSUME IInv, [Next]_vars PROVE IInv'
BY WorkInv, ServiceInv, StutterInv DEF Next

-----------------------------------------------------------------------------
(* The theorems.                                                             *)

\* Every reachable state satisfies the invariant.
THEOREM LifecycleInvariant == Spec => []IInv
PROOF
<1>1. Init => IInv
  BY InitInv
<1>2. IInv /\ [Next]_vars => IInv'
  BY NextInv
<1> QED
  BY <1>1, <1>2, PTL DEF Spec

\* What is recorded of a generation is true of it: it was stopped on request and without a
\* failure.  So is what its caller was told, that it is cleaned up for good, unless its
\* hook overtook a manager.
THEOREM LifecycleRecordTrue == Spec => []RecordTrue
PROOF
<1>1. IInv => RecordTrue
  <2>1. IInv => StoppedOnRequest
    BY DEF IInv, AllSound, Sound, StoppedOnRequest
  <2>2. IInv => CompleteIsFinal
    BY Parts DEF IInv, AllSound, Sound, CompleteIsFinal, RecOK, Counted
  <2> QED
    BY <2>1, <2>2 DEF IInv, RecordTrue
<1> QED
  BY <1>1, LifecycleInvariant, PTL

\* The steps on which a record may be written: whatever the writer remembers, a failure
\* on disk stays.
LEMMA WriteKeeps ==
  ASSUME IInv, NEW m \in Manager, NEW data \in Meta, Write(m, data), NEW g \in Generation,
         meta[g].state = "failed"
  PROVE  meta'[g].state = "failed"
PROOF
<1>1. meta \in [Generation -> Meta \cup {Absent}]
  BY Parts DEF IInv, RecOK
<1>2. meta[g] \in Meta
  BY <1>1 DEF Absent
<1>3. meta' = [meta EXCEPT ![mgr[m].gen] = Merged(meta[mgr[m].gen], data)]
  BY DEF Write
<1>4. Merged(meta[g], data).state = "failed"
  BY <1>2, MergedFacts
<1> QED
  BY <1>1, <1>3, <1>4

\* A decision writes the record as it was observed, or no record at all.
LEMMA ObserveWrites ==
  ASSUME NEW m, NEW data, NEW r, Observe(m, data, r)
  PROVE  Write(m, data) \/ UNCHANGED records
BY DEF Observe, records

LEMMA DecideWrites ==
  ASSUME IInv, NEW m \in Manager, Decide(m)
  PROVE  Write(m, Observed(m)) \/ UNCHANGED records
PROOF
<1>1. mgr[m].mode \in {"start", "status", "startup", "stop", "abort"}
  BY Holder DEF Decide, Holding, Progress, Calling
<1>2. PICK data : data = Observed(m)
  OBVIOUS
<1> DEFINE seen == [mgr[m] EXCEPT !.data = data, !.info = NoInfo]
           retire == [seen EXCEPT !.pc = "retire", !.failed = data.state # "stopped"]
           ping == [seen EXCEPT !.pc = "ping"]
           look == [seen EXCEPT !.pc = IF Active(mgr[m].info) THEN "ping" ELSE "inspect"]
<1>3. CASE mgr[m].mode = "start"
  <2>1. DecideStart(m)
    BY <1>3 DEF Decide
  <2>2. Observe(m, data, retire) \/ Observe(m, data, ping) \/ UNCHANGED records
    BY <1>2, <2>1 DEF DecideStart, AfterQuiet
  <2> HIDE DEF retire, ping
  <2> QED
    BY <1>2, <2>2, ObserveWrites
<1>4. CASE mgr[m].mode = "status"
  <2>1. DecideStatus(m)
    BY <1>4 DEF Decide
  <2>2. Observe(m, data, retire) \/ Observe(m, data, ping) \/ UNCHANGED records
    BY <1>2, <2>1 DEF DecideStatus
  <2> HIDE DEF retire, ping
  <2> QED
    BY <1>2, <2>2, ObserveWrites
<1>5. CASE mgr[m].mode = "startup"
  <2>1. DecideStartup(m)
    BY <1>5 DEF Decide
  <2>2. Observe(m, data, look) \/ UNCHANGED records
    BY <1>2, <2>1 DEF DecideStartup
  <2> HIDE DEF look
  <2> QED
    BY <1>2, <2>2, ObserveWrites
<1>6. CASE mgr[m].mode \in {"stop", "abort"}
  <2>1. DecideStop(m)
    BY <1>6 DEF Decide
  <2> QED
    BY <2>1 DEF DecideStop, records
<1> QED
  BY <1>1, <1>3, <1>4, <1>5, <1>6

LEMMA FailureStep ==
  ASSUME IInv, [Next]_vars, NEW g \in Generation, meta[g].state = "failed"
  PROVE  meta'[g].state = "failed"
PROOF
<1>1. meta \in [Generation -> Meta \cup {Absent}]
  BY Parts DEF IInv, RecOK
<1>2. CASE UNCHANGED meta
  BY <1>2
<1>3. ASSUME NEW m \in Manager, Decide(m), ~UNCHANGED meta PROVE meta'[g].state = "failed"
  <2>1. Observed(m) \in Meta
    BY <1>3, ObservedFacts DEF Decide
  <2>2. Write(m, Observed(m))
    BY <1>3, DecideWrites DEF records
  <2> QED
    BY <2>1, <2>2, WriteKeeps
<1>4. ASSUME NEW m \in Manager, ~UNCHANGED meta, Ready(m) \/ Mark(m) \/ Ack(m) \/ StopWrite(m)
      PROVE  meta'[g].state = "failed"
  <2>1. mgr[m].pc \in {"ready", "mark", "ack", "write"}
    BY <1>4 DEF Ready, Mark, Ack, StopWrite
  <2>2. mgr[m].data \in Meta
    BY <2>1, Holder DEF Holding, Informed
  <2>3. PICK data : /\ Write(m, data)
                    /\ data \in {[mgr[m].data EXCEPT !.state = "ready"],
                                 [mgr[m].data EXCEPT !.submission = "uncertain"],
                                 [mgr[m].data EXCEPT !.submission = "acknowledged"],
                                 [mgr[m].data EXCEPT !.state = IF mgr[m].failed THEN "failed" ELSE "stopping"]}
    BY <1>4 DEF Ready, Mark, Ack, StopWrite, records
  <2>4. data \in Meta
    BY <2>2, <2>3 DEF Meta
  <2> QED
    BY <2>3, <2>4, WriteKeeps
<1>5. ASSUME NEW m \in Manager, Retire(m), ~UNCHANGED meta PROVE meta'[g].state = "failed"
  <2>1. PICK h, sub, f : h = mgr[m].gen /\ sub = mgr[m].data.submission
                         /\ f = (mgr[m].failed \/ mgr[m].data.state = "failed")
    OBVIOUS
  <2>2. PICK done : done = Finalized(h, sub, f, FALSE, FALSE)
    OBVIOUS
  <2>3. meta' = [meta EXCEPT ![h] = done]
    BY <1>5, <2>1, <2>2 DEF Retire, records
  <2>4. h = g => done.state = "failed"
    BY <2>2 DEF Finalized, Classify
  <2> QED
    BY <1>1, <2>3, <2>4
<1>6. ASSUME NEW m \in Manager, NEW h \in Generation, Reserve(m, h) PROVE meta'[g].state = "failed"
  <2>1. h # g
    BY <1>6 DEF Reserve, Absent
  <2>2. meta'[g] = meta[g]
    BY <1>1, <1>6, <2>1 DEF Reserve
  <2> QED
    BY <2>2
<1>7. ASSUME NEW h \in Generation, HookBegins(h) PROVE meta'[g].state = "failed"
  <2>1. PICK done : /\ meta' = [meta EXCEPT ![h] = done]
                    /\ done = Finalized(h, "acknowledged", FALSE, result[h] = "fault", TRUE)
    BY <1>7 DEF HookBegins
  <2>2. h = g => done.state = "failed"
    BY <2>1 DEF Finalized, Classify
  <2> QED
    BY <1>1, <2>1, <2>2
<1>8. ASSUME NEW m \in Manager, Work(m) PROVE meta'[g].state = "failed"
  <2>1. CASE \/ \E mode \in Calling : Acquire(m, mode)
             \/ Fails(m) \/ Inspect(m)
             \/ \E ready \in BOOLEAN : Ping(m, ready)
             \/ Retired(m) \/ ReserveFails(m) \/ Publish(m) \/ Submit(m) \/ Intent(m) \/ Stop(m) \/ Crash(m)
    BY <1>2, <2>1 DEF Acquire, Fails, Inspect, Ping, Retired, ReserveFails,
         Publish, Submit, Intent,
                      Stop, Crash, records
  <2> QED
    BY <1>2, <1>3, <1>4, <1>5, <1>6, <1>8, <2>1 DEF Work
<1>9. CASE Service
  BY <1>2, <1>7, <1>9
     DEF Service, Materialise, Executes, AdmitStop, WorkerEnds, HookEnds, HookFails,
                          Empties, records
<1> QED
  BY <1>2, <1>8, <1>9 DEF Next, vars

\* A failure on record is never written over.
THEOREM LifecycleFailureKept == Spec => FailureKept
PROOF
<1>1. IInv /\ [Next]_vars =>
        [\A g \in Generation : meta[g].state = "failed" => meta'[g].state = "failed"]_vars
  BY FailureStep
<1> QED
  BY <1>1, LifecycleInvariant, PTL DEF Spec, FailureKept

\* Only Publish moves the name.
LEMMA Routes ==
  ASSUME IInv, [Next]_vars, current' # current PROVE \E m \in Manager : Publish(m)
PROOF
<1>1. Next
  BY DEF vars
<1>2. ~Service
  BY DEF Service, Materialise, Executes, AdmitStop, WorkerEnds, HookBegins, HookEnds,
       HookFails, Empties, records
<1>3. ASSUME NEW m \in Manager, Work(m) PROVE Publish(m)
  <2>1. ~Decide(m)
    BY DecideWrites DEF Write, records
  <2>2. ~Ready(m) /\ ~Retire(m) /\ ~Retired(m) /\ ~Mark(m) /\ ~Ack(m) /\ ~Intent(m) /\ ~StopWrite(m)
    BY DEF Ready, Retire, Retired, Mark, Ack, Intent, StopWrite, Write, records
  <2> QED
    BY <1>3, <2>1, <2>2
       DEF Work, Acquire, Fails, Inspect, Ping, Reserve, ReserveFails, Submit, Stop,
                            Crash, records
<1> QED
  BY <1>1, <1>2, <1>3 DEF Next

LEMMA ReplaceStep ==
  ASSUME IInv, [Next]_vars, current' # current, current # None
  PROVE  /\ Terminal(meta[current].state)
         /\ current \notin overtaken => ~Live(current) /\ ~files[current]
PROOF
<1>1. PICK m \in Manager : Publish(m)
  BY Routes
<1>2. Fits(mgr[m]) /\ mgr[m].pc = "publish"
  BY <1>1, Holder DEF Publish, Holding
<1>3. current \in Generation
  BY Parts DEF IInv, RecOK
<1> QED
  BY <1>2, <1>3 DEF Fits, Still, Finished, Holding, Counted

\* A generation gives its name up only when it is recorded as over, and only when it is
\* over and cleaned up, unless its hook overtook a manager.
THEOREM LifecycleReplaced == Spec => ReplacedIsFinished
PROOF
<1>1. IInv /\ [Next]_vars =>
        [current' # current /\ current # None =>
           /\ Terminal(meta[current].state)
           /\ current \notin overtaken => ~Live(current) /\ ~files[current]]_vars
  BY ReplaceStep
<1> QED
  BY <1>1, LifecycleInvariant, PTL DEF Spec, ReplacedIsFinished

-----------------------------------------------------------------------------
(* The refinement of OneGeneration.                                          *)

Over(g) == g \in overtaken \/ (unit[g] \in {"lost", "failed", "gone"} /\ ~populated[g])

alive == {g \in Generation : Counted(g)}
over == {g \in Generation : Over(g)}
named == <<current, alive, over>>

LEMMA StayStep ==
  ASSUME current' = current,
         \A g \in Generation : (Counted(g)' <=> Counted(g)) /\ (Over(g)' <=> Over(g))
  PROVE  named' = named
BY DEF named, alive, over

LEMMA EndStep ==
  ASSUME NEW g \in Generation, current' = current, Counted(g), ~Counted(g)', Over(g)',
         \A h \in Generation : h # g => (Counted(h)' <=> Counted(h)) /\ (Over(h)' <=> Over(h))
  PROVE  Abstract!Next
PROOF
<1>1. g \in alive /\ alive' = alive \ {g} /\ over' = over \cup {g}
  BY DEF alive, over
<1>2. Abstract!End(g)
  BY <1>1 DEF Abstract!End, alive, over, Over, Counted
<1> QED
  BY <1>2 DEF Abstract!Next

LEMMA BeginStep ==
  ASSUME NEW g \in Generation, current' = current, g = current, ~Over(g), ~Over(g)', Counted(g)',
         \A h \in Generation : ~Counted(h),
         \A h \in Generation : h # g => ~Counted(h)' /\ (Over(h)' <=> Over(h))
  PROVE  Abstract!Next
PROOF
<1>1. alive = {} /\ g \notin over /\ alive' = {g} /\ over' = over
  BY DEF alive, over
<1>2. Abstract!Begin(g)
  BY <1>1 DEF Abstract!Begin, alive, over, Over, Counted
<1> QED
  BY <1>2 DEF Abstract!Next

\* A unit that moves on while it has processes, or that is over and stays so.
LEMMA MoveStay ==
  ASSUME IInv, NEW g \in Generation, NEW u, unit' = [unit EXCEPT ![g] = u],
         UNCHANGED <<current, populated, overtaken>>,
         \/ populated[g]
         \/ unit[g] \in {"lost", "failed", "gone"} /\ u \in {"lost", "failed", "gone"}
         \/ u = unit[g]
  PROVE  named' = named
PROOF
<1>1. unit \in [Generation -> Units]
  BY Parts DEF IInv, RecOK
<1>2. unit'[g] = u /\ \A h \in Generation : h # g => unit'[h] = unit[h]
  BY <1>1
<1>3. \A h \in Generation : (Counted(h)' <=> Counted(h)) /\ (Over(h)' <=> Over(h))
  BY <1>2 DEF Counted, Live, Over
<1> QED
  BY <1>3, StayStep

\* A manager that does not touch the unit, nor route the name.
LEMMA SameStay ==
  ASSUME UNCHANGED <<current, unit, populated, overtaken>> PROVE named' = named
PROOF
<1>1. \A g \in Generation : (Counted(g)' <=> Counted(g)) /\ (Over(g)' <=> Over(g))
  BY DEF Counted, Live, Over
<1> QED
  BY <1>1, StayStep

LEMMA PublishRefines ==
  ASSUME IInv, NEW m \in Manager, Publish(m) PROVE Abstract!Next \/ named' = named
PROOF
<1>1. mgr[m].pc = "publish" /\ UNCHANGED <<unit, populated, overtaken>>
  BY DEF Publish, service
<1>2. Fits(mgr[m]) /\ mgr[m].gen \in Generation
  BY <1>1, Holder DEF Holding, Informed
<1>3. alive = {}
  BY <1>1, <1>2 DEF Fits, Still, Holding, alive
<1>4. \A g \in Generation : (Counted(g)' <=> Counted(g)) /\ (Over(g)' <=> Over(g))
  BY <1>1 DEF Counted, Live, Over
<1>5. alive' = alive /\ over' = over
  BY <1>4 DEF alive, over
<1>6. CASE current' = mgr[m].gen
  <2>1. Abstract!Name(mgr[m].gen)
    BY <1>3, <1>5, <1>6 DEF Abstract!Name, alive, over, Over, Counted
  <2> QED
    BY <1>2, <2>1 DEF Abstract!Next
<1>7. CASE UNCHANGED current
  BY <1>5, <1>7 DEF named
<1> QED
  BY <1>6, <1>7 DEF Publish

\* A submission, heard of or not, is of the generation the name routes to, and alone.
LEMMA SubmitBegins ==
  ASSUME IInv, NEW m \in Manager, mgr[m].pc = "submit", UNCHANGED <<current, overtaken>>,
         \/ unit' = [unit EXCEPT ![mgr[m].gen] = "inflight"] /\ UNCHANGED populated
         \/ unit' = [unit EXCEPT ![mgr[m].gen] = "starting"] /\ populated' = [populated EXCEPT ![mgr[m].gen] = TRUE]
  PROVE  Abstract!Next
PROOF
<1>1. Fits(mgr[m]) /\ Informed(mgr[m])
  BY Holder DEF Holding
<1> PICK g : g = mgr[m].gen
  OBVIOUS
<1>2. g \in Generation /\ g = current /\ unit[g] = "none" /\ g \notin overtaken /\ \A h \in Generation : ~Counted(h)
  BY <1>1 DEF IInv, AllSound, Sound, Fits, Informed, Still, New, Holding
<1>3. unit \in [Generation -> Units] /\ populated \in [Generation -> BOOLEAN]
  BY Parts DEF IInv, RecOK
<1>4. unit'[g] \in {"inflight", "starting"} /\ \A h \in Generation : h # g => unit'[h] = unit[h]
  BY <1>2, <1>3
<1>5. \A h \in Generation : h # g => populated'[h] = populated[h]
  BY <1>2, <1>3
<1>6. ~Over(g) /\ ~Over(g)' /\ Counted(g)'
  BY <1>2, <1>4 DEF Over, Counted, Live
<1>7. \A h \in Generation : h # g => ~Counted(h)' /\ (Over(h)' <=> Over(h))
  BY <1>2, <1>4, <1>5 DEF Counted, Live, Over
<1> QED
  BY <1>2, <1>6, <1>7, BeginStep

LEMMA SubmitRefines ==
  ASSUME IInv, NEW m \in Manager, Submit(m) PROVE Abstract!Next \/ named' = named
PROOF
<1>1. mgr[m].pc = "submit" /\ UNCHANGED <<current, overtaken>>
  BY DEF Submit, records
<1>2. CASE UNCHANGED unit /\ UNCHANGED populated
  BY <1>1, <1>2, SameStay
<1>3. CASE unit' = [unit EXCEPT ![mgr[m].gen] = "inflight"] /\ UNCHANGED populated
  BY <1>1, <1>3, SubmitBegins
<1>4. CASE unit' = [unit EXCEPT ![mgr[m].gen] = "starting"] /\ populated' = [populated EXCEPT ![mgr[m].gen] = TRUE]
  BY <1>1, <1>4, SubmitBegins
<1> QED
  BY <1>2, <1>3, <1>4 DEF Submit

LEMMA CrashRefines ==
  ASSUME IInv, NEW m \in Manager, Crash(m) PROVE Abstract!Next \/ named' = named
PROOF
<1>1. UNCHANGED <<current, populated, overtaken>>
  BY DEF Crash, records
<1>2. CASE UNCHANGED unit
  BY <1>1, <1>2, SameStay
<1>3. CASE mgr[m].pc = "submit" /\ unit' = [unit EXCEPT ![mgr[m].gen] = "inflight"]
  BY <1>1, <1>3, SubmitBegins
<1> QED
  BY <1>2, <1>3 DEF Crash

LEMMA RetiredRefines ==
  ASSUME IInv, NEW m \in Manager, Retired(m) PROVE named' = named
PROOF
<1>1. mgr[m].gen \in Generation
  BY Holder DEF Retired, Holding, Informed
<1>2. UNCHANGED <<current, populated, overtaken>>
  BY DEF Retired
<1>3. CASE UNCHANGED unit
  BY <1>2, <1>3, SameStay
<1>4. CASE ~UNCHANGED unit
  <2>1. PICK u : u = IF unit[mgr[m].gen] = "failed" THEN "gone" ELSE unit[mgr[m].gen]
    OBVIOUS
  <2>2. unit' = [unit EXCEPT ![mgr[m].gen] = u]
    BY <1>4, <2>1 DEF Retired
  <2> QED
    BY <1>1, <1>2, <2>1, <2>2, MoveStay
<1> QED
  BY <1>3, <1>4

LEMMA StopRefines ==
  ASSUME IInv, NEW m \in Manager, Stop(m) PROVE named' = named
PROOF
<1>1. mgr[m].gen \in Generation
  BY Holder DEF Stop, Holding, Informed
<1>2. UNCHANGED <<current, populated, overtaken>>
  BY DEF Stop, records
<1>3. PICK g \in Generation : g = mgr[m].gen
  BY <1>1
<1>4. PICK u : u = IF unit[g] \in {"starting", "active", "draining"} THEN "stopping" ELSE unit[g]
  OBVIOUS
<1>5. unit' = [unit EXCEPT ![g] = u]
  BY <1>3, <1>4 DEF Stop
<1>6. unit[g] \in Running => populated[g]
  BY DEF IInv, AllSound, Sound
<1> QED
  BY <1>2, <1>4, <1>5, <1>6, MoveStay DEF Running

LEMMA WorkRefines ==
  ASSUME IInv, NEW m \in Manager, Work(m) PROVE Abstract!Next \/ named' = named
PROOF
<1>1. CASE \/ \E mode \in Calling : Acquire(m, mode)
           \/ Fails(m) \/ Inspect(m)
           \/ \E ready \in BOOLEAN : Ping(m, ready)
           \/ \E g \in Generation : Reserve(m, g)
           \/ ReserveFails(m)
  <2>1. UNCHANGED <<current, unit, populated, overtaken>>
    BY <1>1 DEF Acquire, Fails, Inspect, Ping, Reserve, ReserveFails, records, service
  <2> QED
    BY <2>1, SameStay
<1>2. CASE Decide(m)
  <2>1. UNCHANGED <<current, unit, populated, overtaken>>
    BY <1>2, DecideWrites DEF Decide, Write, records, service
  <2> QED
    BY <2>1, SameStay
<1>3. CASE Ready(m) \/ Retire(m) \/ Mark(m) \/ Ack(m) \/ Intent(m) \/ StopWrite(m)
  <2>1. UNCHANGED <<current, unit, populated, overtaken>>
    BY <1>3 DEF Ready, Retire, Mark, Ack, Intent, StopWrite, Write, records, service
  <2> QED
    BY <2>1, SameStay
<1> QED
  BY <1>1, <1>2, <1>3, PublishRefines, SubmitRefines, CrashRefines, RetiredRefines,
       StopRefines DEF Work

\* The last of its processes is gone, or it is never to have any.
LEMMA Finishes ==
  ASSUME IInv, NEW g \in Generation, Counted(g), UNCHANGED <<current, overtaken>>,
         unit'[g] \in {"lost", "failed", "gone"}, ~populated'[g],
         \A h \in Generation : h # g => unit'[h] = unit[h] /\ populated'[h] = populated[h]
  PROVE  Abstract!Next
PROOF
<1>1. ~Counted(g)' /\ Over(g)'
  BY DEF Counted, Live, Over
<1>2. \A h \in Generation : h # g => (Counted(h)' <=> Counted(h)) /\ (Over(h)' <=> Over(h))
  BY DEF Counted, Live, Over
<1> QED
  BY <1>1, <1>2, EndStep

LEMMA MaterialiseRefines ==
  ASSUME IInv, NEW g \in Generation, Materialise(g) PROVE Abstract!Next \/ named' = named
PROOF
<1>1. RecOK /\ Sound(g)
  BY Parts DEF IInv, AllSound
<1>2. unit[g] = "inflight" /\ Counted(g) /\ ~populated[g] /\ UNCHANGED <<current, overtaken>>
  BY <1>1 DEF Materialise, Counted, Live, Sound, Begun, Unstarted, records, Quiet
<1>3. CASE unit' = [unit EXCEPT ![g] = "starting"] /\ populated' = [populated EXCEPT ![g] = TRUE]
  <2>1. /\ unit'[g] = "starting"
        /\ \A h \in Generation : h # g => unit'[h] = unit[h] /\ populated'[h] = populated[h]
    BY <1>1, <1>3 DEF RecOK
  <2>2. \A h \in Generation : (Counted(h)' <=> Counted(h)) /\ (Over(h)' <=> Over(h))
    BY <1>2, <2>1 DEF Counted, Live, Over
  <2> QED
    BY <1>2, <2>2, StayStep
<1>4. CASE unit' = [unit EXCEPT ![g] = "lost"] /\ UNCHANGED populated
  <2>1. /\ unit'[g] = "lost" /\ ~populated'[g]
        /\ \A h \in Generation : h # g => unit'[h] = unit[h] /\ populated'[h] = populated[h]
    BY <1>1, <1>2, <1>4 DEF RecOK
  <2> QED
    BY <1>2, <2>1, Finishes
<1> QED
  BY <1>3, <1>4 DEF Materialise

LEMMA EmptiesRefines ==
  ASSUME IInv, NEW g \in Generation, Empties(g) PROVE Abstract!Next \/ named' = named
PROOF
<1>1. RecOK
  BY Parts DEF IInv
<1>2. /\ unit'[g] \in {"failed", "gone"} /\ ~populated'[g]
      /\ \A h \in Generation : h # g => unit'[h] = unit[h] /\ populated'[h] = populated[h]
  BY <1>1 DEF Empties, RecOK
<1>3. Live(g) /\ UNCHANGED <<current, overtaken>>
  BY DEF Empties, Live, records, Quiet
<1>4. CASE g \notin overtaken
  BY <1>2, <1>3, <1>4, Finishes DEF Counted
<1>5. CASE g \in overtaken
  <2>1. \A h \in Generation : (Counted(h)' <=> Counted(h)) /\ (Over(h)' <=> Over(h))
    BY <1>2, <1>3, <1>5 DEF Counted, Live, Over
  <2> QED
    BY <1>3, <2>1, StayStep
<1> QED
  BY <1>4, <1>5

\* A unit that runs has processes, whatever it turns into.
LEMMA RunningStays ==
  ASSUME IInv, NEW g \in Generation, unit[g] \in Running, NEW u, unit' = [unit EXCEPT ![g] = u],
         UNCHANGED <<current, populated, overtaken>>
  PROVE  named' = named
BY MoveStay DEF IInv, AllSound, Sound

LEMMA ServiceRefines ==
  ASSUME IInv, Service PROVE Abstract!Next \/ named' = named
PROOF
<1>1. PICK g \in Generation :
        \/ Materialise(g) \/ Executes(g) \/ AdmitStop(g)
        \/ \E why \in {"success", "other", "fault"}, recorded \in BOOLEAN : WorkerEnds(g, why, recorded)
        \/ HookBegins(g) \/ HookEnds(g) \/ HookFails(g) \/ Empties(g)
  BY DEF Service
<1>2. CASE Executes(g)
  BY <1>2, RunningStays DEF Executes, Running, Quiet
<1>3. CASE AdmitStop(g)
  <2>1. PICK u : u = IF unit[g] = "active" THEN "draining" ELSE unit[g]
    OBVIOUS
  <2>2. unit' = [unit EXCEPT ![g] = u] /\ UNCHANGED <<current, populated, overtaken>> /\ unit[g] \in Running
    BY <1>3, <2>1 DEF AdmitStop, Running, Quiet
  <2> QED
    BY <2>2, RunningStays
<1>4. CASE \E why \in {"success", "other", "fault"}, recorded \in BOOLEAN : WorkerEnds(g, why, recorded)
  <2>1. unit' = [unit EXCEPT ![g] = "post"] /\ UNCHANGED <<current, populated, overtaken>> /\ unit[g] \in Running
    BY <1>4 DEF WorkerEnds, Running, Quiet
  <2> QED
    BY <2>1, RunningStays
<1>5. CASE HookBegins(g)
  <2>1. Live(g) /\ UNCHANGED <<current, unit, populated>>
    BY <1>5 DEF HookBegins, Live, service
  <2>2. CASE overtaken' = overtaken
    BY <2>1, <2>2, SameStay
  <2>3. CASE overtaken' = overtaken \cup {g} /\ g \notin overtaken
    <3>1. Counted(g) /\ ~Counted(g)' /\ Over(g)'
      BY <2>1, <2>3 DEF Counted, Over
    <3>2. \A h \in Generation : h # g => (Counted(h)' <=> Counted(h)) /\ (Over(h)' <=> Over(h))
      BY <2>1, <2>3 DEF Counted, Live, Over
    <3> QED
      BY <2>1, <3>1, <3>2, EndStep
  <2> QED
    BY <1>5, <2>2, <2>3 DEF HookBegins
<1>6. CASE HookEnds(g)
  <2>1. unit[g] \in Running
    BY <1>6, Parts DEF HookEnds, IInv, GuardOK, Running
  <2>2. PICK u : u = IF result[g] = "success" THEN "gone" ELSE "failed"
    OBVIOUS
  <2>3. unit' = [unit EXCEPT ![g] = u] /\ UNCHANGED <<current, populated, overtaken>>
    BY <1>6, <2>2 DEF HookEnds, Quiet
  <2> QED
    BY <2>1, <2>3, RunningStays
<1>7. CASE HookFails(g)
  <2>1. unit' = [unit EXCEPT ![g] = "failed"] /\ UNCHANGED <<current, populated, overtaken>> /\ unit[g] \in Running
    BY <1>7 DEF HookFails, Running, records, Quiet
  <2> QED
    BY <2>1, RunningStays
<1> QED
  BY <1>1, <1>2, <1>3, <1>4, <1>5, <1>6, <1>7, MaterialiseRefines, EmptiesRefines

LEMMA NextRefines ==
  ASSUME IInv, [Next]_vars PROVE Abstract!Next \/ named' = named
PROOF
<1>1. CASE UNCHANGED vars
  BY <1>1, SameStay DEF vars, records, service
<1> QED
  BY <1>1, WorkRefines, ServiceRefines DEF Next

\* Managers and services, killed and restarted at any point, keep the promise of
\* OneGeneration: one generation at a time has processes, or may still get them, and it is
\* the one the name routes to; those whose hook overtook a manager are not counted.
THEOREM LifecycleKeepsOne == Spec => KeepsOne
PROOF
<1>1. Init => Abstract!Init
  BY DEF Init, Abstract!Init, Live
<1>2. IInv /\ [Next]_vars =>
        [Abstract!Next]_<<current, {g \in Generation : g \notin overtaken /\ Live(g)},
           {g \in Generation : g \in overtaken \/ (unit[g] \in {"lost", "failed", "gone"} /\ ~populated[g])}>>
  BY NextRefines DEF named, alive, over, Over, Counted
<1> QED
  BY <1>1, <1>2, LifecycleInvariant, PTL DEF Spec, KeepsOne, Abstract!Spec
=============================================================================
