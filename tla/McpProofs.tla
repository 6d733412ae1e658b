----------------------------- MODULE McpProofs -----------------------------
(***************************************************************************)
(* Proofs about the MCP server, for every set of ids, every number of      *)
(* slots and calls and every length of the outbox.                         *)
(***************************************************************************)
EXTENDS Mcp, FiniteSetTheorems, TLAPS

(***************************************************************************)
(* The inductive invariant.  Once the outbox is broken what it held is     *)
(* dropped, and no count is exact any more; but a call in progress is      *)
(* still one the client asked for, so that its end never counts below      *)
(* nothing, and the breaking is final, since the client then counts as     *)
(* gone and no message is read.                                            *)
(***************************************************************************)
\* A broken outbox is empty, and the client is known to be gone.
BrokenIsFinal == outbox.broken => gone /\ outbox.queue = <<>>

\* Every answer on its way was asked for; as long as nothing was dropped, every
\* answer asked for is on its way.
AnswersAsked ==
  Alive => \A i \in Ids : /\ asked[i] >= InQueue(i) + Owed(i)
                          /\ ~outbox.broken => asked[i] = InQueue(i) + Owed(i)

\* The server's death ends its threads.
DeadIdle == ~Alive => \A i \in Ids : call[i].state = "idle"

\* A call that was cancelled, or is out of time, while its process works has told it,
\* once; the process does as its handler lets it, and never aborts its cancelling.  A
\* call that does not work has no process, unless the server died.
Well(c) ==
  /\ c.child # "aborted"
  /\ c.child = "starting" => c.handler = "default"
  /\ c.child = "running" => c.handler = "once"
  /\ c.child = "cancelling" => c.handler = "ignoring"
  /\ c.interrupted \/ c.expired => c.state = "working"
  /\ c.state = "working" /\ (c.cancelled \/ c.expired) => c.interrupted
  /\ c.interrupted => c.child \notin {"starting", "running"}
  /\ c.state \notin {"idle", "working"} => c.child = "none" /\ c.handler = "default"

CallsWell == \A i \in Ids : Well(call[i])

IInv == TypeOK /\ CallsWell /\ BrokenIsFinal /\ AnswersAsked /\ DeadIdle

\* The occurrences of an id among the answers that wait.
Places(q, i) == {k \in 1..Len(q) : q[k] = i}
Count(q, i)  == Cardinality(Places(q, i))

\* What a call holds of the slots, and owes of the answers.
Held(c)   == IF c.state \in {"holding", "working"} THEN 1 ELSE 0
OwedOf(c) == IF c.state \notin {"idle", "finishing"} THEN 1 ELSE 0

(***************************************************************************)
(* Counting the answers in the outbox.                                     *)
(***************************************************************************)
LEMMA PlacesFinite ==
  ASSUME NEW q \in Seq(Ids), NEW i
  PROVE  IsFiniteSet(Places(q, i)) /\ Count(q, i) \in Nat
PROOF
<1>1. Len(q) \in Nat
  OBVIOUS
<1>2. IsFiniteSet(1..Len(q))
  BY <1>1, FS_Interval
<1>3. Places(q, i) \in SUBSET (1..Len(q))
  BY DEF Places
<1>4. IsFiniteSet(Places(q, i))
  BY <1>2, <1>3, FS_Subset
<1> QED
  BY <1>4, FS_CardinalityType DEF Count

LEMMA CountEmpty == \A i : Count(<<>>, i) = 0
PROOF
<1>1. ASSUME NEW i PROVE Places(<<>>, i) = {}
  BY DEF Places
<1> QED
  BY <1>1, FS_EmptySet DEF Count

LEMMA CountAppend ==
  ASSUME NEW q \in Seq(Ids), NEW x \in Ids, NEW i
  PROVE  Count(Append(q, x), i) = Count(q, i) + (IF x = i THEN 1 ELSE 0)
PROOF
<1>1. /\ Len(Append(q, x)) = Len(q) + 1 /\ Len(q) \in Nat
      /\ Append(q, x)[Len(q) + 1] = x
      /\ \A k \in 1..Len(q) : Append(q, x)[k] = q[k]
  OBVIOUS
<1>2. CASE x = i
  <2>1. Places(Append(q, x), i) = Places(q, i) \cup {Len(q) + 1}
    BY <1>1, <1>2 DEF Places
  <2>2. Len(q) + 1 \notin Places(q, i)
    BY <1>1 DEF Places
  <2> QED
    BY <1>2, <2>1, <2>2, PlacesFinite, FS_AddElement DEF Count
<1>3. CASE x # i
  <2>1. Places(Append(q, x), i) = Places(q, i)
    BY <1>1, <1>3 DEF Places
  <2> QED
    BY <1>3, <2>1, PlacesFinite DEF Count
<1> QED
  BY <1>2, <1>3

LEMMA CountTail ==
  ASSUME NEW q \in Seq(Ids), q # <<>>, NEW i
  PROVE  Count(q, i) = Count(Tail(q), i) + (IF Head(q) = i THEN 1 ELSE 0)
PROOF
<1>1. /\ Len(q) \in Nat \ {0} /\ Tail(q) \in Seq(Ids) /\ Len(Tail(q)) = Len(q) - 1
      /\ Head(q) = q[1] /\ \A k \in 1..(Len(q) - 1) : Tail(q)[k] = q[k + 1]
  OBVIOUS
<1> DEFINE later == Places(q, i) \ {1}
           shift == [k \in Places(Tail(q), i) |-> k + 1]
<1>2. shift \in Bijection(Places(Tail(q), i), later)
  <2>1. shift \in [Places(Tail(q), i) -> later]
    BY <1>1 DEF Places
  <2>2. \A a, b \in Places(Tail(q), i) : shift[a] = shift[b] => a = b
    BY <1>1 DEF Places
  <2>3. ASSUME NEW k \in later PROVE \E a \in Places(Tail(q), i) : shift[a] = k
    <3>1. k - 1 \in Places(Tail(q), i) /\ (k - 1) + 1 = k
      BY <1>1, <2>3 DEF Places
    <3> QED
      BY <3>1
  <2> QED
    BY <2>1, <2>2, <2>3 DEF Bijection, Injection, Surjection, IsInjective
<1>3. Cardinality(later) = Count(Tail(q), i)
  <2>1. ExistsBijection(Places(Tail(q), i), later)
    BY <1>2 DEF ExistsBijection
  <2> QED
    BY <1>1, <2>1, PlacesFinite, FS_Bijection DEF Count
<1>4. 1 \in Places(q, i) <=> Head(q) = i
  BY <1>1 DEF Places
<1>5. Cardinality(later) = IF 1 \in Places(q, i) THEN Count(q, i) - 1 ELSE Count(q, i)
  BY PlacesFinite, FS_RemoveElement DEF Count
<1> QED
  BY <1>1, <1>3, <1>4, <1>5, PlacesFinite

LEMMA InQueueCounts == \A i : InQueue(i) = Count(outbox.queue, i)
BY DEF InQueue, Count, Places

\* What is put is either appended or breaks the outbox.
LEMMA PutOutbox ==
  ASSUME TypeOK, BrokenIsFinal, NEW r \in Ids, Put(r)
  PROVE  /\ outbox' \in OutboxType /\ Len(outbox'.queue) <= Outbound
         /\ gone' \in BOOLEAN /\ BrokenIsFinal'
         /\ outbox.broken => outbox'.broken
         /\ ~outbox'.broken =>
              \A i \in Ids : InQueue(i)' = InQueue(i) + (IF r = i THEN 1 ELSE 0)
         /\ outbox'.broken => \A i \in Ids : InQueue(i)' = 0
PROOF
<1>1. outbox' = Queued(outbox, r) /\ gone' = (gone \/ outbox'.broken)
  BY DEF Put
<1>2. outbox \in OutboxType /\ outbox.queue \in Seq(Ids) /\ Len(outbox.queue) \in Nat
  BY DEF TypeOK, OutboxType
<1>3. CASE outbox.broken
  <2>1. outbox' = outbox /\ gone' = TRUE
    BY <1>1, <1>3 DEF Queued, BrokenIsFinal
  <2>2. \A i \in Ids : InQueue(i)' = 0
    <3>1. \A i : InQueue(i)' = Count(outbox'.queue, i)
      BY DEF InQueue, Count, Places
    <3> QED
      BY <1>3, <2>1, <3>1, CountEmpty DEF BrokenIsFinal
  <2> QED
    BY <1>3, <2>1, <2>2 DEF TypeOK, BrokenIsFinal
<1>4. CASE ~outbox.broken /\ Len(outbox.queue) = Outbound
  <2>1. outbox' = [outbox EXCEPT !.queue = <<>>, !.broken = TRUE]
    BY <1>1, <1>4 DEF Queued, Failed
  <2>2. outbox' \in OutboxType /\ outbox'.broken = TRUE /\ outbox'.queue = <<>>
    <3>1. <<>> \in Seq(Ids)
      OBVIOUS
    <3> QED
      BY <1>2, <2>1, <3>1 DEF OutboxType
  <2>3. \A i \in Ids : InQueue(i)' = 0
    <3>1. \A i : InQueue(i)' = Count(outbox'.queue, i)
      BY DEF InQueue, Count, Places
    <3> QED
      BY <2>2, <3>1, CountEmpty
  <2> QED
    <3>1. Len(outbox'.queue) <= Outbound
      BY <2>2, McpAssumption
    <3> QED
      BY <1>1, <2>2, <2>3, <3>1 DEF TypeOK, BrokenIsFinal
<1>5. CASE ~outbox.broken /\ Len(outbox.queue) # Outbound
  <2>1. outbox' = [outbox EXCEPT !.queue = Append(outbox.queue, r)]
    BY <1>1, <1>5 DEF Queued
  <2>2. outbox' \in OutboxType /\ outbox'.broken = FALSE /\ outbox'.queue = Append(outbox.queue, r)
    BY SMTT(30), <1>2, <1>5, <2>1 DEF OutboxType
  <2>3. Len(outbox'.queue) <= Outbound
    BY <1>2, <1>5, <2>2, McpAssumption DEF TypeOK
  <2>4. \A i \in Ids : InQueue(i)' = InQueue(i) + (IF r = i THEN 1 ELSE 0)
    <3>1. \A i : InQueue(i)' = Count(outbox'.queue, i)
      BY DEF InQueue, Count, Places
    <3> QED
      BY <1>2, <2>2, <3>1, CountAppend, InQueueCounts
  <2> QED
    BY <1>1, <1>5, <2>2, <2>3, <2>4 DEF TypeOK, BrokenIsFinal
<1> QED
  BY <1>3, <1>4, <1>5

(***************************************************************************)
(* Counting the slots and the calls.                                       *)
(***************************************************************************)
LEMMA HoldersStep ==
  ASSUME TypeOK, NEW i \in Ids, NEW v \in CallType, call' = [call EXCEPT ![i] = v],
         permits' = permits + Held(call[i]) - Held(v)
  PROVE  permits' = Slots - Cardinality(Holders')
PROOF
<1>1. IsFiniteSet(Holders) /\ Cardinality(Holders) \in Nat
  <2>1. Holders \in SUBSET Ids
    BY DEF Holders
  <2> QED
    BY <2>1, McpAssumption, FS_Subset, FS_CardinalityType
<1>2. \A j \in Ids : call'[j] = IF j = i THEN v ELSE call[j]
  BY DEF TypeOK
<1>3. i \in Holders <=> Held(call[i]) = 1
  BY DEF Holders, Held
<1>4. CASE Held(v) = 1
  <2>1. Holders' = Holders \cup {i}
    BY <1>2, <1>4 DEF Holders, Held
  <2>2. Cardinality(Holders') = Cardinality(Holders) + 1 - Held(call[i])
    <3>1. CASE i \in Holders
      <4>1. Held(call[i]) = 1 /\ Holders' = Holders
        BY <1>3, <2>1, <3>1
      <4> QED
        BY <1>1, <4>1
    <3>2. CASE i \notin Holders
      <4>1. Held(call[i]) = 0
        BY <1>3, <3>2 DEF Held
      <4> QED
        BY <1>1, <2>1, <3>2, <4>1, FS_AddElement
    <3> QED
      BY <3>1, <3>2
  <2> QED
    BY <1>1, <1>4, <2>2, McpAssumption DEF TypeOK, Held
<1>5. CASE Held(v) = 0
  <2>1. Holders' = Holders \ {i}
    BY <1>2, <1>5 DEF Holders, Held
  <2>2. Cardinality(Holders') = Cardinality(Holders) - Held(call[i])
    <3>1. CASE i \in Holders
      BY <1>1, <1>3, <2>1, <3>1, FS_RemoveElement
    <3>2. CASE i \notin Holders
      <4>1. Held(call[i]) = 0 /\ Holders' = Holders
        BY <1>3, <2>1, <3>2 DEF Held
      <4> QED
        BY <1>1, <4>1
    <3> QED
      BY <3>1, <3>2
  <2> QED
    BY <1>1, <1>5, <2>2, McpAssumption DEF TypeOK, Held
<1> QED
  BY <1>4, <1>5 DEF Held

LEMMA OwedCounts == \A i : Owed(i) = OwedOf(call[i])
BY DEF Owed, InCalls, OwedOf

LEMMA OwedBounds == \A c : OwedOf(c) \in {0, 1}
BY DEF OwedOf

LEMMA InQueueNat == ASSUME TypeOK, NEW i \in Ids PROVE InQueue(i) \in Nat
BY InQueueCounts, PlacesFinite DEF TypeOK, OutboxType

\* A step of one call that neither puts an answer nor takes one.
LEMMA CallStep ==
  ASSUME IInv, NEW i \in Ids, NEW v \in CallType, Well(v),
         call' = [call EXCEPT ![i] = v], Alive \/ v.state = "idle",
         permits' = permits + Held(call[i]) - Held(v),
         \/ OwedOf(v) = OwedOf(call[i]) /\ asked' = asked
         \/ /\ asked' = [asked EXCEPT ![i] = @ + OwedOf(v) - OwedOf(call[i])]
            /\ Alive /\ (OwedOf(v) = 1 => asked[i] < Unread),
         UNCHANGED <<outbox, gone, phase>>, closing' \subseteq Ids
  PROVE  IInv'
PROOF
<1>1. call' \in [Ids -> CallType] /\ \A j \in Ids : call'[j] = IF j = i THEN v ELSE call[j]
  BY DEF IInv, TypeOK
<1>2. permits' = Slots - Cardinality(Holders')
  BY HoldersStep DEF IInv
<1>3. \A j \in Ids : InQueue(j)' = InQueue(j) /\ InQueue(j) \in Nat
  BY InQueueNat DEF IInv, InQueue
<1>4. \A j \in Ids : /\ Owed(j)' = OwedOf(call'[j]) /\ Owed(j) = OwedOf(call[j])
                     /\ OwedOf(call'[j]) \in {0, 1} /\ OwedOf(call[j]) \in {0, 1}
  BY OwedBounds DEF Owed, InCalls, OwedOf
<1>5. \A j \in Ids : asked[j] \in Nat /\ asked[j] <= Unread
  BY McpAssumption DEF IInv, TypeOK
<1>6. asked' \in [Ids -> 0..Unread]
      /\ \A j \in Ids : Alive => asked'[j] = asked[j] + OwedOf(call'[j]) - OwedOf(call[j])
  <2>1. CASE OwedOf(v) = OwedOf(call[i]) /\ asked' = asked
    BY <1>1, <1>4, <1>5, <2>1 DEF IInv, TypeOK
  <2>2. CASE /\ asked' = [asked EXCEPT ![i] = @ + OwedOf(v) - OwedOf(call[i])]
             /\ Alive /\ (OwedOf(v) = 1 => asked[i] < Unread)
    <3>1. asked[i] + OwedOf(v) - OwedOf(call[i]) \in 0..Unread
      <4>1. asked[i] >= OwedOf(call[i])
        BY <1>3, <1>4, <1>5, <2>2 DEF IInv, AnswersAsked
      <4>2. OwedOf(v) \in {0, 1} /\ OwedOf(call[i]) \in {0, 1} /\ Unread \in Nat
        BY OwedBounds, McpAssumption
      <4> QED
        BY <1>5, <2>2, <4>1, <4>2
    <3> QED
      BY <1>1, <1>4, <1>5, <2>2, <3>1 DEF IInv, TypeOK
  <2> QED
    BY <2>1, <2>2
<1>7. TypeOK'
  BY <1>1, <1>2, <1>6 DEF IInv, TypeOK
<1>8. AnswersAsked'
  BY <1>3, <1>4, <1>5, <1>6 DEF IInv, AnswersAsked, Alive
<1>9. CallsWell' /\ BrokenIsFinal' /\ DeadIdle'
  BY <1>1 DEF IInv, CallsWell, BrokenIsFinal, DeadIdle, Alive
<1> QED
  BY <1>7, <1>8, <1>9 DEF IInv

LEMMA CallFacts ==
  ASSUME IInv, NEW i \in Ids
  PROVE  /\ call[i] \in CallType /\ Well(call[i])
         /\ permits \in Int /\ asked[i] \in Int
         /\ asked = [asked EXCEPT ![i] = asked[i] + 0]
         /\ ~Alive => call[i].state = "idle"
PROOF
<1>1. Cardinality(Holders) \in Int
  <2>1. Holders \in SUBSET Ids
    BY DEF Holders
  <2> QED
    BY <2>1, McpAssumption, FS_Subset, FS_CardinalityType
<1>2. asked[i] \in Int
  BY McpAssumption DEF IInv, TypeOK
<1> QED
  BY <1>1, <1>2, McpAssumption DEF IInv, TypeOK, CallsWell, DeadIdle

\* SIGINT ends a process that has no handler yet, cancels what one does that works,
\* and is ignored by one that cancels.
LEMMA SignalledKeeps ==
  ASSUME NEW c \in CallType,
         c.child # "aborted",
         c.child = "starting" => c.handler = "default",
         c.child = "running" => c.handler = "once",
         c.child = "cancelling" => c.handler = "ignoring"
  PROVE  /\ Signalled(c) \in CallType
         /\ Signalled(c) = [c EXCEPT !.child = Signalled(c).child, !.handler = Signalled(c).handler]
         /\ Signalled(c).child \notin {"aborted", "starting", "running"}
         /\ Signalled(c).child = "cancelling" => Signalled(c).handler = "ignoring"
PROOF
<1>1. CASE c.handler = "default"
  <2>1. Signalled(c) = [c EXCEPT !.child = IF @ \in Unended THEN "ended" ELSE @]
    BY <1>1 DEF Signalled
  <2> QED
    BY <1>1, <2>1 DEF CallType, Children, Unended
<1>2. CASE c.handler = "once"
  <2>1. Signalled(c) = [c EXCEPT !.handler = "ignoring", !.child = Raised(@)]
    BY <1>2 DEF Signalled
  <2>2. Raised(c.child) = IF c.child = "running" THEN "cancelling" ELSE c.child
    BY <1>2 DEF Raised
  <2> QED
    BY <1>2, <2>1, <2>2 DEF CallType, Children, Unended
<1>3. CASE c.handler = "ignoring"
  <2>1. Signalled(c) = c
    BY <1>3 DEF Signalled
  <2> QED
    BY <1>3, <2>1 DEF CallType, Children, Unended
<1> QED
  BY <1>1, <1>2, <1>3 DEF CallType

\* The call is cancelled or out of time, and tells its process unless it has.
LEMMA InterruptKeeps ==
  ASSUME NEW c \in CallType, Well(c), NEW d \in CallType,
         d = [c EXCEPT !.cancelled = d.cancelled, !.expired = d.expired],
         d.expired => c.state = "working"
  PROVE  Interrupt(d) \in CallType /\ Interrupt(d).state = c.state /\ Well(Interrupt(d))
PROOF
<1>0. /\ d.state = c.state /\ d.child = c.child /\ d.handler = c.handler
      /\ d.interrupted = c.interrupted
  BY DEF CallType
<1>1. CASE c.state = "working" /\ ~c.interrupted
  <2> DEFINE w == [d EXCEPT !.interrupted = TRUE]
  <2>1. /\ w \in CallType /\ w.child = c.child /\ w.handler = c.handler
        /\ w.state = c.state /\ w.interrupted
    BY <1>0 DEF CallType
  <2>2. Interrupt(d) = Signalled(w)
    BY <1>0, <1>1 DEF Interrupt
  <2> HIDE DEF w
  <2>3. /\ Signalled(w) \in CallType
        /\ Signalled(w) = [w EXCEPT !.child = Signalled(w).child, !.handler = Signalled(w).handler]
        /\ Signalled(w).child \notin {"aborted", "starting", "running"}
        /\ Signalled(w).child = "cancelling" => Signalled(w).handler = "ignoring"
    BY <2>1, SignalledKeeps DEF Well
  <2>4. Signalled(w).state = "working" /\ Signalled(w).interrupted
    BY <1>1, <2>1, <2>3 DEF CallType
  <2> QED
    BY <1>1, <2>2, <2>3, <2>4 DEF Well
<1>2. CASE ~(c.state = "working" /\ ~c.interrupted)
  <2>1. Interrupt(d) = d
    BY <1>0, <1>2 DEF Interrupt
  <2>2. Well(d)
    BY <1>0, <1>2 DEF Well
  <2> QED
    BY <1>0, <2>1, <2>2
<1> QED
  BY <1>1, <1>2

LEMMA CancelKeeps ==
  ASSUME NEW c \in CallType, Well(c)
  PROVE  Cancel(c) \in CallType /\ Cancel(c).state = c.state /\ Well(Cancel(c))
PROOF
<1> DEFINE d == [c EXCEPT !.cancelled = TRUE]
<1>1. d \in CallType /\ d = [c EXCEPT !.cancelled = d.cancelled, !.expired = d.expired]
      /\ d.expired = c.expired
  BY DEF CallType
<1>2. d.expired => c.state = "working"
  BY <1>1 DEF Well
<1>3. Cancel(c) = IF c.state \in {"answering", "finishing"} THEN c ELSE Interrupt(d)
  BY DEF Cancel
<1> HIDE DEF d
<1>4. Interrupt(d) \in CallType /\ Interrupt(d).state = c.state /\ Well(Interrupt(d))
  BY <1>1, <1>2, InterruptKeeps
<1> QED
  BY <1>3, <1>4

\* A step of one call, or of its process, that leaves it in the same state.
LEMMA CallStays ==
  ASSUME IInv, NEW i \in Ids, NEW v \in CallType, Well(v), v.state = call[i].state,
         call' = [call EXCEPT ![i] = v],
         UNCHANGED <<permits, outbox, gone, phase, asked>>, closing' \subseteq Ids
  PROVE  IInv'
PROOF
<1>1. /\ Held(v) = Held(call[i]) /\ OwedOf(v) = OwedOf(call[i])
      /\ Held(v) \in Int /\ permits \in Int
  BY CallFacts DEF Held, OwedOf
<1>2. Alive \/ v.state = "idle"
  BY CallFacts
<1>3. permits' = permits + Held(call[i]) - Held(v)
  BY <1>1
<1>4. OwedOf(v) = OwedOf(call[i]) /\ asked' = asked
  BY <1>1
<1>5. UNCHANGED <<outbox, gone, phase>>
  OBVIOUS
<1> QED
  BY <1>2, <1>3, <1>4, <1>5, CallStep

(***************************************************************************)
(* The calls' threads and processes.                                       *)
(***************************************************************************)
LEMMA ProcessSound ==
  ASSUME IInv, NEW i \in Ids, ChildStarts(i) \/ ChildEnds(i) \/ Kills(i) PROVE IInv'
PROOF
<1>1. call[i] \in CallType /\ Well(call[i])
  BY CallFacts
<1>2. UNCHANGED <<permits, outbox, gone, phase, asked>> /\ closing' \subseteq Ids
  BY DEF ChildStarts, ChildEnds, Kills, IInv, TypeOK
<1>3. CASE ChildStarts(i)
  <2> DEFINE v == [call[i] EXCEPT !.child = "running", !.handler = "once"]
  <2>1. v \in CallType /\ v.state = call[i].state
    BY <1>1 DEF CallType, Children, Unended
  <2>2. call' = [call EXCEPT ![i] = v] /\ call[i].child = "starting"
    BY <1>3 DEF ChildStarts, IInv, TypeOK
  <2>3. Well(v)
    BY <1>1, <2>2 DEF Well, CallType
  <2> QED
    BY <1>2, <2>1, <2>2, <2>3, CallStays
<1>4. CASE ChildEnds(i) \/ Kills(i)
  <2>1. PICK child \in {"ended", "killed"} : call' = [call EXCEPT ![i].child = child]
    BY <1>4 DEF ChildEnds, Kills
  <2>2. call[i].child \in Unended
    BY <1>4 DEF ChildEnds, Kills
  <2> DEFINE v == [call[i] EXCEPT !.child = child]
  <2>3. v \in CallType /\ v.state = call[i].state
    <3>1. child \in Children
      BY <2>1 DEF Children
    <3> QED
      BY <1>1, <3>1 DEF CallType
  <2>4. call' = [call EXCEPT ![i] = v]
    BY <2>1 DEF IInv, TypeOK
  <2>5. Well(v)
    BY <1>1, <2>2 DEF Well, CallType, Unended
  <2> QED
    BY <1>2, <2>3, <2>4, <2>5, CallStays
<1> QED
  BY <1>3, <1>4

LEMMA ToldSound ==
  ASSUME IInv, NEW i \in Ids, Expires(i) \/ HandleCancel(i) \/ ShutdownCancels(i) PROVE IInv'
PROOF
<1>1. call[i] \in CallType /\ Well(call[i])
  BY CallFacts
<1>2. UNCHANGED <<permits, outbox, gone, phase, asked>> /\ closing' \subseteq Ids
  BY DEF IInv, TypeOK, Expires, HandleCancel, ShutdownCancels
<1>3. CASE Expires(i)
  <2> DEFINE w == [call[i] EXCEPT !.expired = TRUE]
  <2>1. /\ w \in CallType /\ call[i].state = "working"
        /\ w = [call[i] EXCEPT !.cancelled = w.cancelled, !.expired = w.expired]
    BY <1>1, <1>3 DEF CallType, Expires, Thread
  <2>2. call' = [call EXCEPT ![i] = Interrupt(w)]
    BY <1>3 DEF Expires
  <2> HIDE DEF w
  <2>3. /\ Interrupt(w) \in CallType /\ Interrupt(w).state = call[i].state
        /\ Well(Interrupt(w))
    BY <1>1, <2>1, InterruptKeeps
  <2> QED
    BY <1>2, <2>2, <2>3, CallStays
<1>4. CASE HandleCancel(i) \/ ShutdownCancels(i)
  <2>1. PICK v \in {call[i], Cancel(call[i])} : call' = [call EXCEPT ![i] = v]
    BY <1>4 DEF HandleCancel, ShutdownCancels
  <2>2. v \in CallType /\ Well(v) /\ v.state = call[i].state
    BY <1>1, <2>1, CancelKeeps
  <2> QED
    BY <1>2, <2>1, <2>2, CallStays
<1> QED
  BY <1>3, <1>4

\* A step of a call's thread other than its answer: it moves on, takes or gives
\* back its slot, and may give up its answer.
LEMMA MoveStep ==
  ASSUME IInv, NEW i \in Ids, NEW v \in CallType, Well(v), Alive,
         call' = [call EXCEPT ![i] = v],
         permits' = permits + Held(call[i]) - Held(v),
         \/ OwedOf(v) = OwedOf(call[i]) /\ asked' = asked
         \/ /\ OwedOf(v) = 0 /\ OwedOf(call[i]) = 1
            /\ asked' = [asked EXCEPT ![i] = @ - 1],
         UNCHANGED <<outbox, gone, phase, closing>>
  PROVE  IInv'
PROOF
<1>1. closing' \subseteq Ids
  BY DEF IInv, TypeOK
<1>2. CASE OwedOf(v) = OwedOf(call[i]) /\ asked' = asked
  BY <1>1, <1>2, CallStep
<1>3. CASE /\ OwedOf(v) = 0 /\ OwedOf(call[i]) = 1
           /\ asked' = [asked EXCEPT ![i] = @ - 1]
  <2>1. asked[i] \in Int
    BY CallFacts
  <2>2. asked[i] + OwedOf(v) - OwedOf(call[i]) = asked[i] - 1
    BY <1>3, <2>1
  <2>3. asked' = [asked EXCEPT ![i] = @ + OwedOf(v) - OwedOf(call[i])]
    BY <1>3, <2>2
  <2>4. OwedOf(v) = 1 => asked[i] < Unread
    BY <1>3
  <2> QED
    BY <1>1, <2>3, <2>4, CallStep
<1> QED
  BY <1>2, <1>3

LEMMA ThreadSound ==
  ASSUME IInv, NEW i \in Ids,
         Acquire(i) \/ GivesUp(i) \/ Execute(i) \/ Reaps(i) \/ Breaks(i) \/ Answers(i) \/ Finished(i)
  PROVE  IInv'
PROOF
<1>1. call[i] \in CallType /\ Well(call[i]) /\ permits \in Int /\ asked[i] \in Int
  BY CallFacts
<1>2. UNCHANGED <<outbox, gone, phase, closing>> /\ Alive
  BY DEF Acquire, GivesUp, Execute, Reaps, Breaks, Reaped, Answers, Finished, Thread
<1> DEFINE To(s) == [call[i] EXCEPT !.state = s]
           Done  == [NoCall EXCEPT !.state = "finishing"]
<1>3. \A s \in {"holding", "replying", "answering"} :
        /\ To(s) \in CallType
        /\ Held(To(s)) = (IF s = "holding" THEN 1 ELSE 0) /\ OwedOf(To(s)) = 1
        /\ call[i].state \in {"waiting", "holding", "replying"} => Well(To(s))
  BY <1>1 DEF CallType, Held, OwedOf, Well
<1>4. Done \in CallType /\ Well(Done) /\ Held(Done) = 0 /\ OwedOf(Done) = 0
  BY DEF NoCall, CallType, Children, Held, OwedOf, Well
<1>5. ASSUME call[i].state \in {"waiting", "holding", "working", "replying", "answering"}
      PROVE  /\ OwedOf(call[i]) = 1
             /\ Held(call[i]) = IF call[i].state \in {"holding", "working"} THEN 1 ELSE 0
  BY <1>5 DEF OwedOf, Held
<1>6. CASE Acquire(i)
  <2>1. call' = [call EXCEPT ![i] = To("holding")] /\ permits' = permits - 1 /\ asked' = asked
    BY <1>6 DEF Acquire, Moves
  <2>2. call[i].state = "waiting"
    BY <1>6 DEF Acquire, Thread
  <2>3. permits' = permits + Held(call[i]) - Held(To("holding"))
    BY <1>1, <1>3, <1>5, <2>1, <2>2
  <2> HIDE DEF To
  <2> QED
    BY <1>2, <1>3, <1>5, <2>1, <2>2, <2>3, MoveStep
<1>7. CASE GivesUp(i)
  <2>1. call' = [call EXCEPT ![i] = Done] /\ asked' = [asked EXCEPT ![i] = @ - 1]
    BY <1>7 DEF GivesUp, Finishes
  <2>2. \/ call[i].state = "waiting" /\ permits' = permits
        \/ call[i].state = "holding" /\ permits' = permits + 1
    BY <1>7 DEF GivesUp, Thread
  <2>3. permits' = permits + Held(call[i]) - Held(Done)
    BY <1>1, <1>4, <1>5, <2>2
  <2> HIDE DEF Done
  <2> QED
    BY <1>2, <1>4, <1>5, <2>1, <2>2, <2>3, MoveStep
<1>8. CASE Execute(i)
  <2>1. call[i].state = "holding" /\ ~call[i].cancelled /\ asked' = asked
    BY <1>8 DEF Execute, Thread
  <2>2. CASE call' = [call EXCEPT ![i].state = "working", ![i].child = "starting"]
             /\ permits' = permits
    <3> DEFINE w == [call[i] EXCEPT !.state = "working", !.child = "starting"]
    <3>1. w \in CallType /\ Well(w) /\ Held(w) = 1 /\ OwedOf(w) = 1
      <4>1. /\ w.state = "working" /\ w.child = "starting" /\ w \in CallType
            /\ w.handler = call[i].handler /\ w.cancelled = call[i].cancelled
            /\ w.interrupted = call[i].interrupted /\ w.expired = call[i].expired
        BY <1>1 DEF CallType, Children, Unended
      <4> QED
        BY <1>1, <2>1, <4>1 DEF Well, Held, OwedOf
    <3>2. call' = [call EXCEPT ![i] = w]
      BY <2>2 DEF IInv, TypeOK
    <3>3. permits' = permits + Held(call[i]) - Held(w)
      BY <1>1, <1>5, <2>1, <2>2, <3>1
    <3> HIDE DEF w
    <3> QED
      BY <1>2, <1>5, <2>1, <3>1, <3>2, <3>3, MoveStep
  <2>3. CASE Moves(i, "replying") /\ permits' = permits + 1
    <3>1. call' = [call EXCEPT ![i] = To("replying")]
      BY <2>3 DEF Moves
    <3>2. permits' = permits + Held(call[i]) - Held(To("replying"))
      BY <1>1, <1>3, <1>5, <2>1, <2>3
    <3> HIDE DEF To
    <3> QED
      BY <1>2, <1>3, <1>5, <2>1, <3>1, <3>2, MoveStep
  <2> QED
    BY <1>8, <2>2, <2>3 DEF Execute
<1>9. CASE Reaps(i) \/ Breaks(i)
  <2> DEFINE w == [NoCall EXCEPT !.state = "replying", !.cancelled = call[i].cancelled]
  <2>1. w \in CallType /\ Well(w) /\ Held(w) = 0 /\ OwedOf(w) = 1
    BY <1>1 DEF NoCall, CallType, Children, Held, OwedOf, Well
  <2>2. /\ call' = [call EXCEPT ![i] = w] /\ permits' = permits + 1 /\ asked' = asked
        /\ call[i].state = "working"
    BY <1>9 DEF Reaps, Breaks, Reaped, Thread
  <2>3. permits' = permits + Held(call[i]) - Held(w)
    BY <1>1, <1>5, <2>1, <2>2
  <2> HIDE DEF w
  <2> QED
    BY <1>2, <1>5, <2>1, <2>2, <2>3, MoveStep
<1>10. CASE Answers(i)
  <2>1. call[i].state = "replying" /\ permits' = permits
    BY <1>10 DEF Answers, Thread
  <2>2. Held(call[i]) = 0 /\ OwedOf(call[i]) = 1
    BY <1>5, <2>1
  <2>3. CASE call[i].cancelled
    <3>1. call' = [call EXCEPT ![i] = Done] /\ asked' = [asked EXCEPT ![i] = @ - 1]
      BY <1>10, <2>3 DEF Answers, Finishes
    <3>2. permits' = permits + Held(call[i]) - Held(Done)
      BY <1>1, <1>4, <2>1, <2>2
    <3> HIDE DEF Done
    <3> QED
      BY <1>2, <1>4, <2>2, <3>1, <3>2, MoveStep
  <2>4. CASE ~call[i].cancelled
    <3>1. call' = [call EXCEPT ![i] = To("answering")] /\ asked' = asked
      BY <1>10, <2>4 DEF Answers, Moves
    <3>2. permits' = permits + Held(call[i]) - Held(To("answering"))
      BY <1>1, <1>3, <2>1, <2>2
    <3> HIDE DEF To
    <3> QED
      BY <1>2, <1>3, <2>1, <2>2, <3>1, <3>2, MoveStep
  <2> QED
    BY <2>3, <2>4
<1>11. CASE Finished(i)
  <2>1. /\ call' = [call EXCEPT ![i] = NoCall] /\ permits' = permits /\ asked' = asked
        /\ call[i].state = "finishing"
    BY <1>11 DEF Finished, Thread
  <2>2. /\ NoCall \in CallType /\ Well(NoCall)
        /\ Held(NoCall) = 0 /\ OwedOf(NoCall) = 0
    BY DEF NoCall, CallType, Children, Held, OwedOf, Well
  <2>3. Held(call[i]) = 0 /\ OwedOf(call[i]) = 0
    BY <2>1 DEF Held, OwedOf
  <2>4. permits' = permits + Held(call[i]) - Held(NoCall)
    BY <1>1, <2>1, <2>2, <2>3
  <2> QED
    BY <1>2, <2>1, <2>2, <2>3, <2>4, MoveStep
<1> QED
  BY <1>6, <1>7, <1>8, <1>9, <1>10, <1>11

LEMMA DeadKeeps ==
  ASSUME NEW c \in CallType, Well(c)
  PROVE  Dead(c) \in CallType /\ Dead(c).state = "idle" /\ Well(Dead(c))
PROOF
<1> DEFINE d == [NoCall EXCEPT !.child = c.child, !.handler = c.handler]
<1>1. /\ d \in CallType /\ d.child = c.child /\ d.handler = c.handler
      /\ d.state = "idle" /\ ~d.interrupted /\ ~d.expired
  BY DEF NoCall, CallType
<1>2. Dead(c) = Signalled(d)
  BY DEF Dead
<1> HIDE DEF d
<1>3. /\ Signalled(d) \in CallType
      /\ Signalled(d) = [d EXCEPT !.child = Signalled(d).child, !.handler = Signalled(d).handler]
      /\ Signalled(d).child \notin {"aborted", "starting", "running"}
      /\ Signalled(d).child = "cancelling" => Signalled(d).handler = "ignoring"
  BY <1>1, SignalledKeeps DEF Well
<1>4. Signalled(d).state = "idle" /\ ~Signalled(d).interrupted /\ ~Signalled(d).expired
  BY <1>1, <1>3 DEF CallType
<1> QED
  BY <1>2, <1>3, <1>4 DEF Well

LEMMA ShutdownSound == ASSUME IInv, NEW i \in Ids, DiesAgain(i) PROVE IInv'
PROOF
<1>1. call[i] \in CallType /\ Well(call[i]) /\ call[i].state = "idle"
  BY CallFacts DEF DiesAgain
<1>2. /\ call' = [call EXCEPT ![i] = Dead(call[i])]
      /\ UNCHANGED <<permits, outbox, gone, phase, asked>> /\ closing' \subseteq Ids
  BY DEF DiesAgain, IInv, TypeOK
<1> QED
  BY <1>1, <1>2, DeadKeeps, CallStays

LEMMA DiesSound == ASSUME IInv, Dies PROVE IInv'
PROOF
<1>1. \A i \in Ids : Dead(call[i]) \in CallType /\ Well(Dead(call[i]))
                     /\ Dead(call[i]).state = "idle"
  BY CallFacts, DeadKeeps
<1>2. call' \in [Ids -> CallType] /\ \A i \in Ids : call'[i] = Dead(call[i])
  BY <1>1 DEF Dies
<1>3. permits' = Slots - Cardinality(Holders')
  <2>1. Holders' = {}
    BY <1>1, <1>2 DEF Holders
  <2> QED
    BY <2>1, FS_EmptySet, McpAssumption DEF Dies
<1>4. outbox' \in OutboxType /\ Len(outbox'.queue) <= Outbound /\ ~outbox'.broken
  <2>1. <<>> \in Seq(Ids) /\ Len(<<>>) = 0
    OBVIOUS
  <2> QED
    BY <2>1, McpAssumption DEF Dies, EmptyOutbox, OutboxType
<1>5. asked' \in [Ids -> 0..Unread]
  BY McpAssumption DEF Dies
<1>6. ~Alive' /\ phase' = "exited" /\ gone' = gone /\ closing' = {}
  BY DEF Dies, Alive
<1> QED
  BY <1>1, <1>2, <1>3, <1>4, <1>5, <1>6
     DEF IInv, TypeOK, CallsWell, BrokenIsFinal, AnswersAsked, DeadIdle

(***************************************************************************)
(* The answers: put into the outbox, and written.                          *)
(***************************************************************************)
LEMMA RepliesSound == ASSUME IInv, NEW r \in Ids, Replies(r) PROVE IInv'
PROOF
<1> DEFINE Done == [NoCall EXCEPT !.state = "finishing"]
<1>1. /\ Alive /\ call[r].state = "answering" /\ Put(r)
      /\ call' = [call EXCEPT ![r] = Done]
      /\ UNCHANGED <<permits, phase, closing, asked>>
  BY DEF Replies, Thread, Finishes
<1>2. Done \in CallType /\ Well(Done) /\ Held(Done) = 0 /\ OwedOf(Done) = 0
  BY DEF NoCall, CallType, Children, Held, OwedOf, Well
<1>3. Held(call[r]) = 0 /\ OwedOf(call[r]) = 1 /\ permits \in Int
  BY <1>1, CallFacts DEF Held, OwedOf
<1> HIDE DEF Done
<1>4. call' \in [Ids -> CallType] /\ \A j \in Ids : call'[j] = IF j = r THEN Done ELSE call[j]
  BY <1>1, <1>2 DEF IInv, TypeOK
<1>5. permits' = Slots - Cardinality(Holders')
  <2>1. permits' = permits + Held(call[r]) - Held(Done)
    BY <1>1, <1>2, <1>3
  <2> QED
    BY <1>1, <1>2, <2>1, HoldersStep DEF IInv
<1>6. /\ outbox' \in OutboxType /\ Len(outbox'.queue) <= Outbound
      /\ gone' \in BOOLEAN /\ BrokenIsFinal'
      /\ outbox.broken => outbox'.broken
      /\ ~outbox'.broken => \A i \in Ids : InQueue(i)' = InQueue(i) + (IF r = i THEN 1 ELSE 0)
      /\ outbox'.broken => \A i \in Ids : InQueue(i)' = 0
  BY <1>1, PutOutbox DEF IInv
<1>7. TypeOK'
  BY <1>1, <1>4, <1>5, <1>6 DEF IInv, TypeOK
<1>8. AnswersAsked'
  <2>1. SUFFICES ASSUME NEW i \in Ids
                 PROVE  /\ asked[i] >= InQueue(i)' + Owed(i)'
                        /\ ~outbox'.broken => asked[i] = InQueue(i)' + Owed(i)'
    BY <1>1 DEF AnswersAsked
  <2>2. /\ Owed(i)' = IF i = r THEN 0 ELSE Owed(i)
        /\ Owed(r) = 1 /\ Owed(i) \in {0, 1}
    BY <1>2, <1>3, <1>4, OwedBounds DEF Owed, InCalls, OwedOf
  <2>3. /\ asked[i] >= InQueue(i) + Owed(i)
        /\ ~outbox.broken => asked[i] = InQueue(i) + Owed(i)
    BY <1>1 DEF IInv, AnswersAsked
  <2>4. InQueue(i) \in Nat /\ asked[i] \in Int
    BY InQueueNat, CallFacts DEF IInv
  <2>5. CASE outbox'.broken
    BY <1>6, <2>2, <2>3, <2>4, <2>5
  <2>6. CASE ~outbox'.broken
    BY <1>6, <2>2, <2>3, <2>4, <2>6
  <2> QED
    BY <2>5, <2>6
<1>9. CallsWell' /\ DeadIdle'
  BY <1>1, <1>2, <1>4 DEF IInv, CallsWell, DeadIdle, Alive
<1> QED
  BY <1>6, <1>7, <1>8, <1>9 DEF IInv

LEMMA AnswersAtOnceSound ==
  ASSUME IInv, NEW r \in Ids, Reading, asked[r] < Unread, AnswersAtOnce(r) PROVE IInv'
PROOF
<1>1. /\ Put(r) /\ asked' = [asked EXCEPT ![r] = @ + 1]
      /\ UNCHANGED <<call, permits, phase, closing>>
  BY DEF AnswersAtOnce
<1>2. /\ outbox' \in OutboxType /\ Len(outbox'.queue) <= Outbound
      /\ gone' \in BOOLEAN /\ BrokenIsFinal'
      /\ outbox.broken => outbox'.broken
      /\ ~outbox'.broken => \A i \in Ids : InQueue(i)' = InQueue(i) + (IF r = i THEN 1 ELSE 0)
      /\ outbox'.broken => \A i \in Ids : InQueue(i)' = 0
  BY <1>1, PutOutbox DEF IInv
<1>3. asked' \in [Ids -> 0..Unread]
      /\ \A j \in Ids : asked[j] \in Int /\ asked'[j] = asked[j] + (IF r = j THEN 1 ELSE 0)
  BY <1>1, McpAssumption DEF IInv, TypeOK
<1>4. Holders' = Holders
  BY <1>1 DEF Holders
<1>5. TypeOK'
  BY <1>1, <1>2, <1>3, <1>4 DEF IInv, TypeOK
<1>6. AnswersAsked'
  <2>1. SUFFICES ASSUME NEW i \in Ids
                 PROVE  /\ asked'[i] >= InQueue(i)' + Owed(i)'
                        /\ ~outbox'.broken => asked'[i] = InQueue(i)' + Owed(i)'
    BY <1>1 DEF AnswersAsked
  <2>2. Owed(i)' = Owed(i) /\ Owed(i) \in {0, 1}
    BY <1>1 DEF Owed, InCalls
  <2>3. /\ asked[i] >= InQueue(i) + Owed(i)
        /\ ~outbox.broken => asked[i] = InQueue(i) + Owed(i)
    BY DEF IInv, AnswersAsked, Reading
  <2>4. InQueue(i) \in Nat
    BY InQueueNat DEF IInv
  <2>5. CASE outbox'.broken
    BY <1>2, <1>3, <2>2, <2>3, <2>4, <2>5
  <2>6. CASE ~outbox'.broken
    BY <1>2, <1>3, <2>2, <2>3, <2>4, <2>6
  <2> QED
    BY <2>5, <2>6
<1>7. CallsWell' /\ DeadIdle'
  BY <1>1 DEF IInv, CallsWell, DeadIdle, Alive
<1> QED
  BY <1>2, <1>5, <1>6, <1>7 DEF IInv

LEMMA RequestSound == ASSUME IInv, NEW i \in Ids, HandleRequest(i) PROVE IInv'
PROOF
<1>1. Reading /\ asked[i] < Unread
  BY DEF HandleRequest
<1>2. CASE AnswersAtOnce(i)
  BY <1>1, <1>2, AnswersAtOnceSound
<1>3. CASE ~AnswersAtOnce(i)
  <2>1. PICK stop \in BOOLEAN :
          call' = [call EXCEPT ![i] = [NoCall EXCEPT !.state = "waiting", !.stop = stop]]
    BY <1>3 DEF HandleRequest
  <2>2. /\ call[i].state = "idle" /\ asked' = [asked EXCEPT ![i] = @ + 1]
        /\ UNCHANGED <<permits, outbox, gone, phase, closing>>
    BY <1>3 DEF HandleRequest, InCalls
  <2> DEFINE w == [NoCall EXCEPT !.state = "waiting", !.stop = stop]
  <2>3. w \in CallType /\ Well(w) /\ Held(w) = 0 /\ OwedOf(w) = 1
    BY DEF NoCall, CallType, Children, Held, OwedOf, Well
  <2>4. Held(call[i]) = 0 /\ OwedOf(call[i]) = 0 /\ permits \in Int /\ asked[i] \in Int
    BY <2>2, CallFacts DEF Held, OwedOf
  <2>5. permits' = permits + Held(call[i]) - Held(w)
    BY <2>2, <2>3, <2>4
  <2>6. asked[i] + OwedOf(w) - OwedOf(call[i]) = asked[i] + 1
    BY <2>3, <2>4
  <2> HIDE DEF w
  <2>7. asked' = [asked EXCEPT ![i] = @ + OwedOf(w) - OwedOf(call[i])]
    BY <2>2, <2>6
  <2>8. call' = [call EXCEPT ![i] = w] /\ Alive /\ closing' \subseteq Ids
    BY <1>1, <2>1, <2>2 DEF w, Reading, IInv, TypeOK
  <2> QED
    BY <1>1, <2>2, <2>3, <2>5, <2>7, <2>8, CallStep
<1> QED
  BY <1>2, <1>3

LEMMA WriterTakesSound == ASSUME IInv, WriterTakes PROVE IInv'
PROOF
<1>1. outbox' = [outbox EXCEPT !.writing = TRUE] /\ outbox \in OutboxType
      /\ UNCHANGED <<call, permits, gone, phase, closing, asked>>
  BY DEF WriterTakes, IInv, TypeOK
<1>2. outbox' \in OutboxType /\ outbox'.queue = outbox.queue /\ outbox'.broken = outbox.broken
  BY <1>1 DEF OutboxType
<1>3. Holders' = Holders /\ \A i : InQueue(i)' = InQueue(i) /\ Owed(i)' = Owed(i)
  BY <1>1, <1>2 DEF Holders, InQueue, Owed, InCalls
<1> QED
  BY <1>1, <1>2, <1>3
     DEF IInv, TypeOK, CallsWell, BrokenIsFinal, AnswersAsked, DeadIdle, Alive

LEMMA WriterWritesSound == ASSUME IInv, WriterWrites PROVE IInv'
PROOF
<1>1. /\ outbox \in OutboxType /\ Alive
      /\ UNCHANGED <<call, permits, gone, phase, closing>>
  BY DEF WriterWrites, IInv, TypeOK
<1>2. Holders' = Holders /\ \A i : Owed(i)' = Owed(i) /\ Owed(i) \in {0, 1}
  BY <1>1 DEF Holders, Owed, InCalls
<1>3. CASE outbox.queue = <<>>
  <2>1. outbox' = [outbox EXCEPT !.writing = FALSE] /\ asked' = asked
    BY <1>3 DEF WriterWrites
  <2>2. outbox' \in OutboxType /\ outbox'.queue = outbox.queue /\ outbox'.broken = outbox.broken
    BY <1>1, <2>1 DEF OutboxType
  <2>3. \A i : InQueue(i)' = InQueue(i)
    BY <2>2 DEF InQueue
  <2> QED
    BY <1>1, <1>2, <2>1, <2>2, <2>3
       DEF IInv, TypeOK, CallsWell, BrokenIsFinal, AnswersAsked, DeadIdle, Alive
<1>4. CASE outbox.queue # <<>>
  <2> DEFINE q == outbox.queue
             h == Head(q)
  <2>1. /\ outbox' = [outbox EXCEPT !.writing = FALSE, !.queue = Tail(q)]
        /\ asked' = [asked EXCEPT ![h] = @ - 1]
    BY <1>4 DEF WriterWrites
  <2>2. /\ q \in Seq(Ids) /\ h \in Ids /\ Tail(q) \in Seq(Ids)
        /\ Len(q) \in Nat /\ Len(Tail(q)) = Len(q) - 1
    BY <1>1, <1>4 DEF OutboxType
  <2>3. outbox' \in OutboxType /\ outbox'.queue = Tail(q) /\ outbox'.broken = outbox.broken
    BY <1>1, <2>1, <2>2 DEF OutboxType
  <2>4. \A i \in Ids : InQueue(i) = InQueue(i)' + (IF h = i THEN 1 ELSE 0) /\ InQueue(i)' \in Nat
    <3>1. \A i : InQueue(i)' = Count(outbox'.queue, i) /\ InQueue(i) = Count(q, i)
      BY DEF InQueue, Count, Places
    <3> QED
      BY <1>4, <2>2, <2>3, <3>1, CountTail, PlacesFinite
  <2>5. ~outbox.broken
    BY <1>4 DEF IInv, BrokenIsFinal
  <2>6. \A i \in Ids : asked[i] = InQueue(i) + Owed(i) /\ asked[i] \in 0..Unread
    BY <1>1, <2>5 DEF IInv, AnswersAsked, TypeOK
  <2>7. \A i \in Ids : asked'[i] = asked[i] - (IF h = i THEN 1 ELSE 0)
    BY <2>1, <2>2, <2>6 DEF IInv, TypeOK
  <2>8. \A i \in Ids : asked'[i] = InQueue(i)' + Owed(i)' /\ asked'[i] \in 0..Unread
    BY <1>2, <2>4, <2>6, <2>7, McpAssumption
  <2>9. asked' \in [Ids -> 0..Unread]
    BY <2>1, <2>8 DEF IInv, TypeOK
  <2>10. TypeOK'
    <3>1. Len(outbox'.queue) <= Outbound
      BY <2>2, <2>3, McpAssumption DEF IInv, TypeOK
    <3> QED
      BY <1>1, <1>2, <2>3, <2>9, <3>1 DEF IInv, TypeOK
  <2>11. AnswersAsked'
    <3>1. \A i \in Ids : InQueue(i)' + Owed(i)' \in Int
      BY <1>2, <2>4
    <3> QED
      BY <2>8, <3>1 DEF AnswersAsked
  <2> QED
    BY <1>1, <2>3, <2>5, <2>10, <2>11
       DEF IInv, CallsWell, BrokenIsFinal, DeadIdle, Alive
<1> QED
  BY <1>3, <1>4

LEMMA WriterFailsSound == ASSUME IInv, WriterFails PROVE IInv'
PROOF
<1>1. /\ outbox' = [outbox EXCEPT !.queue = <<>>, !.broken = TRUE] /\ gone' = TRUE
      /\ outbox \in OutboxType /\ Alive
      /\ UNCHANGED <<call, permits, phase, closing, asked>>
  BY DEF WriterFails, Failed, IInv, TypeOK
<1>2. outbox' \in OutboxType /\ outbox'.queue = <<>> /\ outbox'.broken = TRUE
  <2>1. <<>> \in Seq(Ids)
    OBVIOUS
  <2> QED
    BY <1>1, <2>1 DEF OutboxType
<1>3. Holders' = Holders /\ \A i : Owed(i)' = Owed(i) /\ Owed(i) \in {0, 1}
  BY <1>1 DEF Holders, Owed, InCalls
<1>4. \A i \in Ids : InQueue(i)' = 0 /\ InQueue(i) \in Nat /\ asked[i] \in Int
  <2>1. \A i : InQueue(i)' = Count(outbox'.queue, i)
    BY DEF InQueue, Count, Places
  <2> QED
    BY <1>2, <2>1, CountEmpty, InQueueNat, CallFacts DEF IInv
<1>5. AnswersAsked'
  BY <1>1, <1>2, <1>3, <1>4 DEF IInv, AnswersAsked
<1>6. TypeOK'
  <2>1. Len(outbox'.queue) <= Outbound
    BY <1>2, McpAssumption
  <2> QED
    BY <1>1, <1>2, <1>3, <2>1 DEF IInv, TypeOK
<1> QED
  BY <1>1, <1>2, <1>5, <1>6 DEF IInv, CallsWell, BrokenIsFinal, DeadIdle, Alive

(***************************************************************************)
(* The main thread, and the end of the client.                             *)
(***************************************************************************)
LEMMA MainSound ==
  ASSUME IInv, HandleEnd \/ Shutdown \/ Joins \/ JoinEnds \/ UNCHANGED vars PROVE IInv'
PROOF
<1>1. /\ UNCHANGED <<call, permits, outbox, asked>> /\ (gone' = gone \/ gone' = TRUE)
      /\ closing' \subseteq Ids
      /\ phase' = phase \/ (Alive /\ phase' \in {"stopping", "joining", "flushing"})
  BY DEF HandleEnd, Shutdown, Joins, JoinEnds, vars, IInv, TypeOK, Alive
<1>2. Holders' = Holders /\ \A i : InQueue(i)' = InQueue(i) /\ Owed(i)' = Owed(i)
  BY <1>1 DEF Holders, InQueue, Owed, InCalls
<1>3. TypeOK'
  BY <1>1, <1>2 DEF IInv, TypeOK
<1>4. BrokenIsFinal'
  <2>1. CASE gone' = gone
    BY <1>1, <2>1 DEF IInv, BrokenIsFinal
  <2>2. CASE gone' = TRUE
    BY <1>1, <2>2 DEF IInv, BrokenIsFinal
  <2> QED
    BY <1>1, <2>1, <2>2
<1>5. AnswersAsked' /\ DeadIdle' /\ CallsWell'
  BY <1>1, <1>2 DEF IInv, AnswersAsked, DeadIdle, CallsWell, Alive
<1> QED
  BY <1>3, <1>4, <1>5 DEF IInv

(***************************************************************************)
(* The theorems.                                                           *)
(***************************************************************************)
LEMMA InitSound == Init => IInv
PROOF
<1> SUFFICES ASSUME Init PROVE IInv
  OBVIOUS
<1>1. Holders = {} /\ Cardinality({}) = 0
  BY FS_EmptySet DEF Init, Holders, NoCall
<1>2. call \in [Ids -> CallType] /\ asked \in [Ids -> 0..Unread]
  BY McpAssumption DEF Init, NoCall, CallType, Children
<1>3. outbox \in OutboxType /\ Len(outbox.queue) <= Outbound /\ outbox.broken = FALSE
      /\ outbox.queue = <<>>
  <2>1. <<>> \in Seq(Ids) /\ Len(<<>>) = 0
    OBVIOUS
  <2> QED
    BY <2>1, McpAssumption DEF Init, EmptyOutbox, OutboxType
<1>4. TypeOK
  <2>1. permits = Slots - Cardinality(Holders)
    BY <1>1, McpAssumption DEF Init
  <2> QED
    BY <1>2, <1>3, <2>1 DEF Init, TypeOK
<1>5. AnswersAsked
  <2>1. \A i \in Ids : InQueue(i) = 0 /\ Owed(i) = 0 /\ asked[i] = 0
    BY <1>3, CountEmpty, InQueueCounts DEF Init, Owed, InCalls, NoCall
  <2> QED
    BY <2>1 DEF AnswersAsked
<1>6. CallsWell
  BY DEF Init, CallsWell, Well, NoCall
<1> QED
  BY <1>3, <1>4, <1>5, <1>6 DEF Init, IInv, BrokenIsFinal, DeadIdle, Alive, NoCall

LEMMA StepSound == IInv /\ [Next]_vars => IInv'
PROOF
<1> SUFFICES ASSUME IInv, [Next]_vars PROVE IInv'
  OBVIOUS
<1>1. ASSUME NEW i \in Ids, ChildStarts(i) \/ ChildEnds(i) \/ DiesAgain(i) PROVE IInv'
  BY <1>1, ProcessSound, ShutdownSound
<1>2. ASSUME NEW i \in Ids, CallSteps(i) PROVE IInv'
  BY <1>2, ProcessSound, ToldSound, ThreadSound, RepliesSound DEF CallSteps
<1>3. ASSUME NEW i \in Ids, HandleRequest(i) \/ HandleCancel(i) \/ ShutdownCancels(i) PROVE IInv'
  BY <1>3, RequestSound, ToldSound
<1>4. CASE WriterTakes \/ WriterWrites \/ WriterFails
  BY <1>4, WriterTakesSound, WriterWritesSound, WriterFailsSound
<1>5. CASE HandleEnd \/ Shutdown \/ Joins \/ JoinEnds \/ UNCHANGED vars
  BY <1>5, MainSound
<1>6. CASE Exits \/ Dies
  BY <1>6, DiesSound DEF Exits
<1> QED
  BY <1>1, <1>2, <1>3, <1>4, <1>5, <1>6 DEF Next

LEMMA SignalKillsNone ==
  ASSUME NEW c \in CallType
  PROVE  Signalled(c).child = "killed" => c.child = "killed"
PROOF
<1>1. CASE c.handler = "default"
  BY <1>1 DEF Signalled, CallType
<1>2. CASE c.handler = "once"
  <2>1. Signalled(c).child = Raised(c.child)
    BY <1>2 DEF Signalled, CallType
  <2>2. Raised(c.child) \in {"cancelling", "aborted", c.child}
    BY DEF Raised
  <2> QED
    BY <2>1, <2>2
<1>3. CASE c.handler = "ignoring"
  BY <1>3 DEF Signalled
<1> QED
  BY <1>1, <1>2, <1>3 DEF CallType

\* A process is killed by its call's thread.
LEMMA KilledByKills ==
  ASSUME IInv, Next, NEW i \in Ids, call[i].child # "killed", call'[i].child = "killed"
  PROVE  Kills(i)
PROOF
<1>1. call[i] \in CallType /\ Well(call[i])
  BY CallFacts
<1>2. call' # call
  OBVIOUS
<1>3. \A j \in Ids : Dead(call[j]).child = "killed" => call[j].child = "killed"
  <2> SUFFICES ASSUME NEW j \in Ids PROVE Dead(call[j]).child = "killed" => call[j].child = "killed"
    OBVIOUS
  <2> DEFINE d == [NoCall EXCEPT !.child = call[j].child, !.handler = call[j].handler]
  <2>1. d \in CallType /\ d.child = call[j].child /\ Dead(call[j]) = Signalled(d)
    BY DEF Dead, NoCall, CallType, IInv, TypeOK
  <2> HIDE DEF d
  <2> QED
    BY <2>1, SignalKillsNone
<1>4. \A c \in CallType : Interrupt(c).child = "killed" => c.child = "killed"
  <2> SUFFICES ASSUME NEW c \in CallType PROVE Interrupt(c).child = "killed" => c.child = "killed"
    OBVIOUS
  <2> DEFINE w == [c EXCEPT !.interrupted = TRUE]
  <2>1. w \in CallType /\ w.child = c.child /\ Interrupt(c) \in {Signalled(w), c}
    BY DEF Interrupt, CallType
  <2> HIDE DEF w
  <2> QED
    BY <2>1, SignalKillsNone
<1>5. \A c \in CallType : Cancel(c).child = "killed" => c.child = "killed"
  <2> SUFFICES ASSUME NEW c \in CallType, Cancel(c).child = "killed" PROVE c.child = "killed"
    OBVIOUS
  <2>1. [c EXCEPT !.cancelled = TRUE] \in CallType /\ [c EXCEPT !.cancelled = TRUE].child = c.child
    BY DEF CallType
  <2> QED
    BY <1>4, <2>1 DEF Cancel
<1>6. CASE Exits \/ Dies
  BY <1>3, <1>6 DEF Exits, Dies
<1>7. CASE WriterTakes \/ WriterWrites \/ WriterFails \/ HandleEnd \/ Shutdown \/ Joins \/ JoinEnds
  BY <1>2, <1>7 DEF WriterTakes, WriterWrites, WriterFails, HandleEnd, Shutdown, Joins, JoinEnds
<1>8. ASSUME NEW j \in Ids, ChildStarts(j) \/ ChildEnds(j) \/ DiesAgain(j) PROVE FALSE
  BY <1>3, <1>8 DEF ChildStarts, ChildEnds, DiesAgain, IInv, TypeOK, CallType
<1>9. ASSUME NEW j \in Ids, HandleRequest(j) \/ HandleCancel(j) \/ ShutdownCancels(j) PROVE FALSE
  <2>1. CASE HandleRequest(j)
    BY <1>2, <2>1 DEF HandleRequest, AnswersAtOnce, NoCall, IInv, TypeOK
  <2>2. CASE HandleCancel(j) \/ ShutdownCancels(j)
    <3>1. PICK v \in {call[j], Cancel(call[j])} : call' = [call EXCEPT ![j] = v]
      BY <2>2 DEF HandleCancel, ShutdownCancels
    <3>2. v.child = "killed" => call[j].child = "killed"
      BY <1>5, <3>1 DEF IInv, TypeOK
    <3> QED
      BY <3>1, <3>2 DEF IInv, TypeOK
  <2> QED
    BY <1>9, <2>1, <2>2
<1>10. ASSUME NEW j \in Ids,
              Acquire(j) \/ GivesUp(j) \/ Execute(j) \/ Answers(j) \/ Replies(j) \/ Finished(j)
       PROVE  FALSE
  <2>1. PICK s \in {"holding", "replying", "answering"}, v \in {NoCall, [NoCall EXCEPT !.state = "finishing"]} :
          \/ call' = [call EXCEPT ![j].state = s]
          \/ call' = [call EXCEPT ![j].state = "working", ![j].child = "starting"]
          \/ call' = [call EXCEPT ![j] = v]
    BY <1>10 DEF Acquire, GivesUp, Execute, Answers, Replies, Finished, Moves, Finishes
  <2>2. v.child = "none"
    BY DEF NoCall
  <2>3. call[j] \in CallType /\ call \in [Ids -> CallType]
    BY DEF IInv, TypeOK
  <2>4. CASE call' = [call EXCEPT ![j].state = s]
    BY <2>3, <2>4 DEF CallType
  <2>5. CASE call' = [call EXCEPT ![j].state = "working", ![j].child = "starting"]
    BY <2>3, <2>5 DEF CallType
  <2>6. CASE call' = [call EXCEPT ![j] = v]
    BY <2>2, <2>3, <2>6
  <2> QED
    BY <2>1, <2>4, <2>5, <2>6
<1>11. ASSUME NEW j \in Ids, Expires(j) PROVE FALSE
  <2>1. [call[j] EXCEPT !.expired = TRUE] \in CallType
        /\ [call[j] EXCEPT !.expired = TRUE].child = call[j].child
    BY DEF IInv, TypeOK, CallType
  <2> QED
    BY <1>4, <1>11, <2>1 DEF Expires, IInv, TypeOK
<1>12. ASSUME NEW j \in Ids, Reaps(j) \/ Breaks(j) PROVE FALSE
  BY <1>12 DEF Reaps, Breaks, Reaped, NoCall, IInv, TypeOK
<1>13. ASSUME NEW j \in Ids, Kills(j) PROVE j = i
  BY <1>13 DEF Kills, IInv, TypeOK
<1> QED
  BY <1>6, <1>7, <1>8, <1>9, <1>10, <1>11, <1>12, <1>13 DEF Next, CallSteps

\* The counts and the cancellations of the server are right in every state it reaches.
THEOREM McpInvariant == Spec => []IInv
BY InitSound, StepSound, PTL DEF Spec

\* For any number of ids, calls and slots and any length of the outbox: while the
\* client reads, every request it may expect an answer to has exactly one, in the
\* outbox or with its call, and the slots that are taken are those the running calls
\* hold (Call.run, Outbox.put, Server.handle_message).
THEOREM McpCallsCounted == Spec => []CallsCounted
PROOF
<1>1. IInv => CallsCounted
  BY DEF IInv, CallsCounted, OneAnswer, AnswersAsked
<1> QED
  BY <1>1, McpInvariant, PTL

\* For any number of ids, calls and slots: a process whose grace is over has been told
\* to cancel what it did and is doing so, since no call whose cancellation is known
\* starts a process, one whose cancellation or deadline comes later interrupts it, and no
\* second interrupt cuts the cancelling short (Call.execute and interrupt,
\* mcp_call.interrupt_once).
THEOREM McpCancelledBeforeKilled == Spec => CancelledBeforeKilled
PROOF
<1> DEFINE A == \A i \in Ids :
                  /\ call[i].child # "killed" /\ call'[i].child = "killed" =>
                       call[i].child = "cancelling"
                  /\ call[i].child = "cancelling" => call'[i].child # "aborted"
<1>1. IInv /\ IInv' /\ [Next]_vars => [A]_vars
  <2> SUFFICES ASSUME IInv, IInv', Next, NEW i \in Ids
               PROVE  /\ call[i].child # "killed" /\ call'[i].child = "killed" =>
                           call[i].child = "cancelling"
                      /\ call'[i].child # "aborted"
    OBVIOUS
  <2>1. Well(call'[i])
    BY DEF IInv, CallsWell
  <2>2. ASSUME call[i].child # "killed", call'[i].child = "killed"
        PROVE  call[i].child = "cancelling"
    <3>1. Kills(i)
      BY <2>2, KilledByKills
    <3>2. call[i].state = "working" /\ (call[i].cancelled \/ call[i].expired)
          /\ call[i].child \in Unended
      BY <3>1 DEF Kills, Thread
    <3> QED
      BY <3>2 DEF IInv, CallsWell, Well, Unended
  <2> QED
    BY <2>1, <2>2 DEF Well
<1> QED
  BY <1>1, McpInvariant, PTL DEF Spec, CancelledBeforeKilled
=============================================================================
