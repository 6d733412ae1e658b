---------------------------- MODULE JournalProofs ----------------------------
(***************************************************************************)
(* Proofs about the journal of a session store, for any number and size of *)
(* writes and any bounds of the queue: nothing is mislaid, the calls are   *)
(* sound, and the journal implements DurableLog.                           *)
(***************************************************************************)
EXTENDS Journal, FiniteSetTheorems, TLAPS

(***************************************************************************)
(* The inductive invariant.  Finished calls, the one in the writer's hand  *)
(* and the FIFO are one line, in the order of submission, that holds every *)
(* ticket without an answer exactly once.                                  *)
(***************************************************************************)
Order == /\ \A i, j \in DOMAIN completions : i < j => completions[i].seq < completions[j].seq
         /\ \A i, j \in DOMAIN requests : i < j /\ requests[j] # Stop => requests[i] < requests[j]
         /\ \A i \in DOMAIN completions : \A s \in Held \cup Queued : completions[i].seq < s
         /\ \A s \in Queued : hand < s

\* The stop is the last request, and is there from the close until the writer takes it.
StopLast == /\ \A i \in DOMAIN requests : requests[i] = Stop => i = Len(requests)
            /\ writer = "exited" => requests = <<>>
            /\ Stop \in ToSet(requests) \/ writer = "exited" => Closed

\* The writer has a call in its hand, and only then one; without a thread nothing waits.
WriterHolds == /\ hand # 0 <=> writer \in {"check", "begin", "inside"}
               /\ writer = "absent" => requests = <<>> /\ completions = <<>>
               /\ cutoff # "none" => Closed
               /\ store = "closed" => writer \in {"exited", "absent"}

\* A ticket has an error only with its answer, and a value only if its call returned.
Results == /\ \A s \in Undrained : tickets[s].error = "none"
           /\ \A s \in ToSet(applied) : s \in Seqs /\ Resolves(tickets[s].arg)
           /\ writer = "inside" => Resolves(tickets[hand].arg)

\* Past the bound the writer makes one more call at most.
OneMore == overrun = 0 \/ (overrun = 1 /\ cutoff = "past" /\ writer # "begin")

IInv == TypeOK /\ Accounted /\ Order /\ StopLast /\ WriterHolds /\ Results /\ OneMore

(***************************************************************************)
(* Sequences.                                                              *)
(***************************************************************************)
LEMMA AppendAt ==
  ASSUME NEW S, NEW q \in Seq(S), NEW e \in S
  PROVE  /\ Append(q, e) \in Seq(S) /\ Len(Append(q, e)) = Len(q) + 1 /\ Len(q) \in Nat
         /\ DOMAIN Append(q, e) = 1 .. Len(q) + 1 /\ DOMAIN q = 1 .. Len(q)
         /\ \A i \in 1 .. Len(q) + 1 : Append(q, e)[i] = IF i = Len(q) + 1 THEN e ELSE q[i]
         /\ ToSet(Append(q, e)) = ToSet(q) \cup {e}
PROOF
<1>1. /\ Append(q, e) \in Seq(S) /\ Len(Append(q, e)) = Len(q) + 1 /\ Len(q) \in Nat
      /\ DOMAIN Append(q, e) = 1 .. Len(q) + 1 /\ DOMAIN q = 1 .. Len(q)
      /\ \A i \in 1 .. Len(q) + 1 : Append(q, e)[i] = IF i = Len(q) + 1 THEN e ELSE q[i]
  OBVIOUS
<1>2. ToSet(Append(q, e)) = ToSet(q) \cup {e}
  BY <1>1 DEF ToSet
<1> QED
  BY <1>1, <1>2

LEMMA TailAt ==
  ASSUME NEW S, NEW q \in Seq(S), q # <<>>
  PROVE  /\ Tail(q) \in Seq(S) /\ Len(Tail(q)) = Len(q) - 1 /\ Len(q) \in Nat \ {0}
         /\ DOMAIN Tail(q) = 1 .. Len(q) - 1 /\ DOMAIN q = 1 .. Len(q)
         /\ \A i \in 1 .. Len(q) - 1 : Tail(q)[i] = q[i + 1]
         /\ Head(q) = q[1] /\ Head(q) \in S
         /\ ToSet(q) = ToSet(Tail(q)) \cup {Head(q)}
PROOF
<1>1. /\ Tail(q) \in Seq(S) /\ Len(Tail(q)) = Len(q) - 1 /\ Len(q) \in Nat \ {0}
      /\ DOMAIN Tail(q) = 1 .. Len(q) - 1 /\ DOMAIN q = 1 .. Len(q)
      /\ \A i \in 1 .. Len(q) - 1 : Tail(q)[i] = q[i + 1]
      /\ Head(q) = q[1] /\ Head(q) \in S
  OBVIOUS
<1>2. ToSet(q) = ToSet(Tail(q)) \cup {Head(q)}
  <2>1. \A i \in 1 .. Len(q) : i = 1 \/ (i - 1 \in 1 .. Len(q) - 1 /\ q[i] = Tail(q)[i - 1])
    BY <1>1
  <2>2. \A i \in 1 .. Len(q) - 1 : i + 1 \in 1 .. Len(q)
    BY <1>1
  <2>3. ToSet(q) = {q[i] : i \in 1 .. Len(q)}
        /\ ToSet(Tail(q)) = {Tail(q)[i] : i \in 1 .. Len(q) - 1}
    BY <1>1 DEF ToSet
  <2>4. \A x \in ToSet(q) : x \in ToSet(Tail(q)) \cup {Head(q)}
    BY SMTT(30), <1>1, <2>1, <2>3
  <2>5. \A x \in ToSet(Tail(q)) \cup {Head(q)} : x \in ToSet(q)
    BY <1>1, <2>2, <2>3
  <2> QED
    BY <2>4, <2>5
<1> QED
  BY <1>1, <1>2

(***************************************************************************)
(* Counting bytes.                                                         *)
(***************************************************************************)
BytesOf(t, calls) == UNION {{s} \X (1 .. t[s].size) : s \in calls}

LEMMA BytesFinite ==
  ASSUME NEW t, NEW calls, IsFiniteSet(calls), \A s \in calls : t[s].size \in Nat
  PROVE  IsFiniteSet(BytesOf(t, calls)) /\ Cardinality(BytesOf(t, calls)) \in Nat
PROOF
<1> DEFINE own   == [s \in calls |-> {s} \X (1 .. t[s].size)]
           owned == {own[s] : s \in calls}
<1>1. own \in Surjection(calls, owned)
  BY DEF Surjection
<1>2. IsFiniteSet(owned)
  BY <1>1, FS_Surjection
<1>3. \A s \in calls : IsFiniteSet(own[s])
  <2>1. TAKE s \in calls
  <2>2. IsFiniteSet({s}) /\ IsFiniteSet(1 .. t[s].size)
    <3>1. 1 \in Int /\ t[s].size \in Int
      OBVIOUS
    <3> QED
      BY <3>1, FS_Singleton, FS_Interval
  <2> QED
    BY <2>2, FS_Product
<1>4. BytesOf(t, calls) = UNION owned
  BY DEF BytesOf
<1>5. \A T \in owned : IsFiniteSet(T)
  BY <1>3
<1> QED
  BY <1>2, <1>4, <1>5, FS_UNION, FS_CardinalityType

LEMMA BytesAdd ==
  ASSUME NEW t, NEW calls, IsFiniteSet(calls), \A s \in calls : t[s].size \in Nat,
         NEW new, new \notin calls, t[new].size \in Nat
  PROVE  Cardinality(BytesOf(t, calls \cup {new})) = Cardinality(BytesOf(t, calls)) + t[new].size
PROOF
<1> DEFINE n == t[new].size
           own == {new} \X (1 .. n)
<1>1. IsFiniteSet({new}) /\ Cardinality({new}) = 1
  BY FS_Singleton
<1>0. 1 \in Int /\ n \in Nat /\ n \in Int
  OBVIOUS
<1> HIDE DEF n
<1>2. IsFiniteSet(1 .. n) /\ Cardinality(1 .. n) = n
  <2>1. IsFiniteSet(1 .. n) /\ Cardinality(1 .. n) = IF 1 > n THEN 0 ELSE n - 1 + 1
    BY <1>0, FS_Interval
  <2> QED
    BY <1>0, <2>1
<1>3. IsFiniteSet(own) /\ Cardinality(own) = n
  <2> DEFINE one == {new}
             all == 1 .. n
  <2> HIDE DEF one, all
  <2>1. IsFiniteSet(one \X all) /\ Cardinality(one \X all) = Cardinality(one) * Cardinality(all)
    BY <1>1, <1>2, FS_Product DEF one, all
  <2>2. Cardinality(one) = 1 /\ Cardinality(all) = n
    BY <1>1, <1>2 DEF one, all
  <2>3. Cardinality(one \X all) = n
    BY <1>0, <2>1, <2>2
  <2> QED
    BY <2>1, <2>3 DEF one, all
<1>4. IsFiniteSet(BytesOf(t, calls)) /\ Cardinality(BytesOf(t, calls)) \in Nat
  BY BytesFinite
<1>5. BytesOf(t, calls \cup {new}) = BytesOf(t, calls) \cup own
  BY DEF BytesOf, n
<1>6. BytesOf(t, calls) \cap own = {}
  BY DEF BytesOf
<1>7. Cardinality({}) = 0
  BY FS_EmptySet
<1> HIDE DEF own
<1>8. Cardinality(BytesOf(t, calls) \cup own)
        = Cardinality(BytesOf(t, calls)) + Cardinality(own) - Cardinality(BytesOf(t, calls) \cap own)
  BY <1>3, <1>4, FS_Union
<1>9. Cardinality(BytesOf(t, calls) \cap own) = 0
  BY <1>6, <1>7
<1>10. Cardinality(BytesOf(t, calls \cup {new})) = Cardinality(BytesOf(t, calls)) + n
  <2>1. Cardinality(BytesOf(t, calls \cup {new})) = Cardinality(BytesOf(t, calls) \cup own)
    BY <1>5
  <2>2. Cardinality(own) = n
    BY <1>3
  <2> QED
    BY <1>0, <1>4, <1>8, <1>9, <2>1, <2>2
<1> QED
  BY <1>10 DEF n

LEMMA BytesSame ==
  ASSUME NEW t, NEW u, NEW calls, \A s \in calls : t[s].size = u[s].size
  PROVE  BytesOf(t, calls) = BytesOf(u, calls)
PROOF
<1>1. {{s} \X (1 .. t[s].size) : s \in calls} = {{s} \X (1 .. u[s].size) : s \in calls}
  OBVIOUS
<1> QED
  BY <1>1 DEF BytesOf

(***************************************************************************)
(* What the invariant says of the variables, in the forms the steps use.   *)
(***************************************************************************)
TicketType == [size : Sizes, arg : Nat, done : BOOLEAN, error : Errors \cup {"none"}]
CompletionType == [seq : Nat, error : Errors \cup {"none"}]

LEMMA TypeFacts ==
  ASSUME TypeOK
  PROVE  /\ tickets \in Seq(TicketType) /\ completions \in Seq(CompletionType)
         /\ requests \in Seq(Nat) /\ applied \in Seq(Nat)
BY DEF TypeOK, TicketType, CompletionType

LEMMA Facts ==
  ASSUME IInv
  PROVE  /\ Len(tickets) \in Nat /\ Seqs = 1 .. Len(tickets) /\ Undrained \subseteq Seqs
         /\ IsFiniteSet(Undrained)
         /\ \A s \in Seqs : tickets[s] \in TicketType /\ tickets[s].size \in Nat
         /\ outstanding = Cardinality(Undrained) /\ outstanding \in Nat
         /\ reserved = Cardinality(BytesOf(tickets, Undrained)) /\ reserved \in Nat
PROOF
<1>1. /\ Len(tickets) \in Nat /\ Seqs = 1 .. Len(tickets) /\ Undrained \subseteq Seqs
      /\ \A s \in Seqs : tickets[s] \in TicketType /\ tickets[s].size \in Nat
  <2>1. tickets \in Seq(TicketType)
    BY TypeFacts DEF IInv
  <2>2. Len(tickets) \in Nat /\ \A s \in 1 .. Len(tickets) : tickets[s] \in TicketType
    BY <2>1
  <2>3. \A t \in TicketType : t.size \in Nat
    BY JournalAssumption DEF TicketType
  <2> QED
    BY <2>2, <2>3 DEF Seqs, Undrained
<1>2. IsFiniteSet(Undrained)
  <2>1. IsFiniteSet(1 .. Len(tickets)) /\ Undrained \in SUBSET (1 .. Len(tickets))
    BY <1>1, FS_Interval
  <2> QED
    BY <2>1, FS_Subset
<1>3. outstanding = Cardinality(Undrained) /\ outstanding \in Nat
  BY JournalAssumption DEF IInv, Accounted, TypeOK
<1>4. reserved = Cardinality(BytesOf(tickets, Undrained)) /\ reserved \in Nat
  BY JournalAssumption DEF IInv, Accounted, TypeOK, Bytes, BytesOf
<1> QED
  BY <1>1, <1>2, <1>3, <1>4

LEMMA CountsKept ==
  ASSUME IInv, Undrained' = Undrained, \A s \in Undrained : tickets'[s].size = tickets[s].size,
         outstanding' = outstanding, reserved' = reserved
  PROVE  outstanding' = Cardinality(Undrained') /\ reserved' = Cardinality(Bytes(Undrained)')
PROOF
<1>1. BytesOf(tickets', Undrained) = BytesOf(tickets, Undrained)
  BY BytesSame
<1>2. Bytes(Undrained)' = BytesOf(tickets', Undrained')
  BY DEF Bytes, BytesOf
<1> QED
  BY <1>1, <1>2, Facts

LEMMA OneMoreCounted ==
  ASSUME IInv, NEW s, s \notin Undrained, Undrained' = Undrained \cup {s},
         tickets'[s].size \in Nat, \A u \in Undrained : tickets'[u].size = tickets[u].size,
         outstanding' = outstanding + 1, reserved' = reserved + tickets'[s].size
  PROVE  outstanding' = Cardinality(Undrained') /\ reserved' = Cardinality(Bytes(Undrained)')
PROOF
<1>1. BytesOf(tickets', Undrained) = BytesOf(tickets, Undrained)
  BY BytesSame
<1>2. Bytes(Undrained)' = BytesOf(tickets', Undrained')
  BY DEF Bytes, BytesOf
<1>3. \A u \in Undrained : tickets'[u].size \in Nat
  BY Facts
<1>4. Cardinality(BytesOf(tickets', Undrained \cup {s}))
        = Cardinality(BytesOf(tickets', Undrained)) + tickets'[s].size
  BY <1>3, Facts, BytesAdd
<1>5. Cardinality(Undrained \cup {s}) = Cardinality(Undrained) + 1
  BY Facts, FS_AddElement
<1> QED
  BY <1>1, <1>2, <1>4, <1>5, Facts

LEMMA OneLessCounted ==
  ASSUME IInv, NEW s \in Undrained, Undrained' = Undrained \ {s},
         \A u \in Undrained : tickets'[u].size = tickets[u].size,
         outstanding' = outstanding - 1, reserved' = reserved - tickets[s].size
  PROVE  /\ outstanding' = Cardinality(Undrained') /\ reserved' = Cardinality(Bytes(Undrained)')
         /\ outstanding' \in Nat /\ reserved' \in Nat
PROOF
<1> DEFINE left == Undrained \ {s}
<1>1. IsFiniteSet(left) /\ s \notin left /\ left \cup {s} = Undrained
  BY Facts, FS_RemoveElement
<1>2. \A u \in left \cup {s} : tickets[u].size \in Nat /\ tickets'[u].size = tickets[u].size
  BY Facts
<1>3. BytesOf(tickets', left) = BytesOf(tickets, left)
  BY <1>2, BytesSame
<1>4. Bytes(Undrained)' = BytesOf(tickets', Undrained')
  BY DEF Bytes, BytesOf
<1> HIDE DEF left
<1>5. /\ Cardinality(BytesOf(tickets, left \cup {s}))
           = Cardinality(BytesOf(tickets, left)) + tickets[s].size
      /\ Cardinality(BytesOf(tickets, left)) \in Nat
  BY <1>1, <1>2, BytesAdd, BytesFinite
<1>6. Cardinality(left \cup {s}) = Cardinality(left) + 1 /\ Cardinality(left) \in Nat
  BY <1>1, FS_AddElement, FS_CardinalityType
<1>7. Undrained' = left
  BY DEF left
<1>8. Cardinality(Undrained) = Cardinality(left \cup {s})
      /\ Cardinality(BytesOf(tickets, Undrained)) = Cardinality(BytesOf(tickets, left \cup {s}))
  BY <1>1
<1>9. tickets[s].size \in Nat
  BY <1>1, <1>2
<1>10. outstanding' = Cardinality(left)
  BY <1>6, <1>8, Facts
<1>11. reserved' = Cardinality(BytesOf(tickets, left))
  BY <1>5, <1>8, <1>9, Facts
<1> QED
  BY <1>3, <1>4, <1>5, <1>6, <1>7, <1>10, <1>11

(***************************************************************************)
(* The owner's steps.                                                      *)
(***************************************************************************)
\* A submission that is answered at once: refused, not copied, or made inline.
LEMMA AnsweredSound ==
  ASSUME IInv, NEW size \in Sizes, NEW arg \in Args,
         \/ SubmitRefused(size, arg) \/ SubmitUncopied(size, arg)
         \/ \E error \in {"none", "write"}, effect \in BOOLEAN :
              SubmitInline(size, arg, error, effect)
  PROVE  IInv'
PROOF
<1> DEFINE n == Len(tickets) + 1
<1>1. /\ n - 1 \in Nat /\ Seqs = 1 .. n - 1 /\ arg \in Nat /\ n <= MaxSubmits
  <2>1. Len(tickets) \in Nat /\ Seqs = 1 .. Len(tickets)
    BY Facts
  <2>2. Len(tickets) < MaxSubmits
    BY DEF SubmitRefused, SubmitUncopied, SubmitInline, MaySubmit
  <2> QED
    BY <2>1, <2>2, JournalAssumption DEF Args
<1>2. PICK error \in Errors \cup {"none"} :
        /\ tickets' = Append(tickets, Ticket(size, arg, TRUE, error))
        /\ UNCHANGED <<requests, completions, outstanding, reserved, owner, cutoff, store,
                       writer, hand, overrun>>
        /\ valued' \in {valued, valued \cup {n}} /\ valued \subseteq valued'
        /\ applied' = applied \/ (Resolves(arg) /\ applied' = Append(applied, n))
  <2>1. CASE SubmitRefused(size, arg)
    BY <2>1 DEF SubmitRefused, Refusal, Errors, ownerVars, writerVars
  <2>2. CASE SubmitUncopied(size, arg)
    BY <2>2 DEF SubmitUncopied, Errors, ownerVars, writerVars
  <2>3. ASSUME NEW e \in {"none", "write"}, NEW effect \in BOOLEAN,
               SubmitInline(size, arg, e, effect)
        PROVE  \E error \in Errors \cup {"none"} :
                 /\ tickets' = Append(tickets, Ticket(size, arg, TRUE, error))
                 /\ UNCHANGED <<requests, completions, outstanding, reserved, owner, cutoff, store,
                                writer, hand, overrun>>
                 /\ valued' \in {valued, valued \cup {n}} /\ valued \subseteq valued'
                 /\ applied' = applied \/ (Resolves(arg) /\ applied' = Append(applied, n))
    <3> DEFINE verdict == IF ~Resolves(arg) THEN "dependency" ELSE e
    <3>1. /\ verdict \in Errors \cup {"none"}
          /\ tickets' = Append(tickets, Ticket(size, arg, TRUE, verdict))
          /\ UNCHANGED <<requests, completions, outstanding, reserved, owner, cutoff, store,
                         writer, hand, overrun>>
      BY <2>3 DEF SubmitInline, Errors, ownerVars
    <3>2. /\ valued' \in {valued, valued \cup {n}} /\ valued \subseteq valued'
          /\ applied' = applied \/ (Resolves(arg) /\ applied' = Append(applied, n))
      BY <2>3 DEF SubmitInline
    <3> QED
      BY <3>1, <3>2
  <2> QED
    BY <2>1, <2>2, <2>3
<1> DEFINE t == Ticket(size, arg, TRUE, error)
<1>3. t \in TicketType /\ t.done /\ t.arg = arg
  BY <1>1 DEF Ticket, TicketType
<1>4. /\ tickets' \in Seq(TicketType) /\ Len(tickets') = n
      /\ \A i \in 1 .. n : tickets'[i] = IF i = n THEN t ELSE tickets[i]
  <2>1. tickets \in Seq(TicketType) /\ tickets' = Append(tickets, t)
    BY <1>2, TypeFacts DEF IInv
  <2> HIDE DEF t
  <2> QED
    BY <1>3, <2>1, AppendAt
<1> HIDE DEF t
<1>5. /\ Seqs' = Seqs \cup {n} /\ n \notin Seqs /\ \A s \in Seqs : tickets'[s] = tickets[s]
      /\ tickets'[n] = t
  BY <1>1, <1>4 DEF Seqs
<1>6. Undrained' = Undrained /\ n \notin Undrained
  BY <1>3, <1>5 DEF Undrained
<1>7. Queued' = Queued /\ Held' = Held /\ Finished' = Finished
  BY <1>2 DEF Queued, Held, Finished
<1>8. TypeOK'
  <2>1. applied' \in Seq(Nat)
    <3>1. applied \in Seq(Nat) /\ n \in Nat
      BY <1>1, TypeFacts DEF IInv
    <3>2. Append(applied, n) \in Seq(Nat)
      BY <3>1, AppendAt
    <3> QED
      BY <1>2, <3>1, <3>2
  <2>2. valued' \subseteq Seqs'
    BY <1>2, <1>5 DEF IInv, TypeOK
  <2>3. hand' \in 0 .. Len(tickets')
    BY <1>1, <1>2, <1>4 DEF IInv, TypeOK
  <2> QED
    BY <1>1, <1>2, <1>4, <2>1, <2>2, <2>3 DEF IInv, TypeOK, TicketType
<1>9. Accounted'
  <2>1. outstanding' = Cardinality(Undrained') /\ reserved' = Cardinality(Bytes(Undrained)')
    <3>1. \A s \in Undrained : tickets'[s].size = tickets[s].size
      BY <1>5, Facts
    <3> QED
      BY <1>2, <1>6, <3>1, CountsKept
  <2> QED
    BY <1>6, <1>7, <2>1 DEF IInv, Accounted
<1>10. Order'
  BY <1>2, <1>7 DEF IInv, Order
<1>11. StopLast' /\ WriterHolds' /\ OneMore'
  BY <1>2 DEF IInv, StopLast, WriterHolds, OneMore, Closed
<1>12. Results'
  <2>1. \A s \in Undrained' : tickets'[s].error = "none"
    BY <1>5, <1>6, Facts DEF IInv, Results
  <2>2. \A s \in ToSet(applied) : s \in Seqs' /\ (tickets'[s].arg = 0 \/ tickets'[s].arg \in valued')
    BY <1>2, <1>5 DEF IInv, Results, Resolves
  <2>3. \A s \in ToSet(applied') : s \in Seqs' /\ (tickets'[s].arg = 0 \/ tickets'[s].arg \in valued')
    <3>1. CASE applied' = applied
      BY <2>2, <3>1
    <3>2. CASE Resolves(arg) /\ applied' = Append(applied, n)
      <4>1. ToSet(applied') = ToSet(applied) \cup {n}
        <5>1. applied \in Seq(Nat) /\ n \in Nat
          BY <1>1, TypeFacts DEF IInv
        <5> QED
          BY <3>2, <5>1, AppendAt
      <4>2. n \in Seqs' /\ tickets'[n].arg = arg /\ (arg = 0 \/ arg \in valued')
        BY <1>2, <1>3, <1>5, <3>2 DEF Resolves
      <4> QED
        BY <2>2, <4>1, <4>2
    <3> QED
      BY <1>2, <3>1, <3>2
  <2>4. writer' = "inside" => tickets'[hand'].arg = 0 \/ tickets'[hand'].arg \in valued'
    <3>1. writer = "inside" => hand \in Seqs
      BY <1>1 DEF IInv, TypeOK, WriterHolds
    <3> QED
      BY <1>2, <1>5, <3>1 DEF IInv, Results, Resolves
  <2> QED
    BY <2>1, <2>3, <2>4 DEF Results, Resolves
<1> QED
  BY <1>8, <1>9, <1>10, <1>11, <1>12 DEF IInv

LEMMA QueuedSound ==
  ASSUME IInv, NEW size \in Sizes, NEW arg \in Args, SubmitQueued(size, arg)
  PROVE  IInv'
PROOF
<1> DEFINE n == Len(tickets) + 1
           t == Ticket(size, arg, FALSE, "none")
<1>1. /\ n - 1 \in Nat /\ n \in Nat /\ Seqs = 1 .. n - 1 /\ arg \in Nat /\ size \in Nat
      /\ n <= MaxSubmits
  <2>1. Len(tickets) \in Nat /\ Seqs = 1 .. Len(tickets)
    BY Facts
  <2>2. Len(tickets) < MaxSubmits
    BY DEF SubmitQueued, MaySubmit
  <2> QED
    BY <2>1, <2>2, JournalAssumption DEF Args
<1>2. /\ tickets' = Append(tickets, t) /\ requests' = Append(requests, n)
      /\ outstanding' = outstanding + 1 /\ reserved' = reserved + size
      /\ UNCHANGED <<completions, owner, cutoff, store, valued, applied, writer, hand, overrun>>
      /\ ~Closed /\ outstanding < MaxOps /\ reserved + size <= MaxBytes /\ writer # "absent"
  <2>1. Refusal(size) = "none"
    BY DEF SubmitQueued
  <2>2. ~Closed /\ ~(outstanding >= MaxOps) /\ ~(reserved + size > MaxBytes)
    BY <2>1 DEF Refusal
  <2>3. outstanding < MaxOps /\ reserved + size <= MaxBytes
    BY <1>1, <2>2, Facts, JournalAssumption
  <2> QED
    BY <2>2, <2>3 DEF SubmitQueued, writerVars, Threaded
<1>3. t \in TicketType /\ t.done = FALSE /\ t.arg = arg /\ t.size = size /\ t.error = "none"
  BY <1>1 DEF Ticket, TicketType
<1>4. /\ tickets' \in Seq(TicketType) /\ Len(tickets') = n
      /\ \A i \in 1 .. n : tickets'[i] = IF i = n THEN t ELSE tickets[i]
  <2>1. tickets \in Seq(TicketType) /\ tickets' = Append(tickets, t)
    BY <1>2, TypeFacts DEF IInv
  <2> HIDE DEF t
  <2> QED
    BY <1>3, <2>1, AppendAt
<1>5. /\ requests' \in Seq(Nat) /\ Len(requests') = Len(requests) + 1 /\ Len(requests) \in Nat
      /\ DOMAIN requests = 1 .. Len(requests) /\ DOMAIN requests' = 1 .. Len(requests) + 1
      /\ \A i \in 1 .. Len(requests) + 1 :
           requests'[i] = IF i = Len(requests) + 1 THEN n ELSE requests[i]
      /\ ToSet(requests') = ToSet(requests) \cup {n}
  <2>1. requests \in Seq(Nat)
    BY TypeFacts DEF IInv
  <2> HIDE DEF n
  <2> QED
    BY <1>1, <1>2, <2>1, AppendAt
<1> HIDE DEF t
<1>6. /\ Seqs' = Seqs \cup {n} /\ n \notin Seqs /\ \A s \in Seqs : tickets'[s] = tickets[s]
      /\ tickets'[n] = t
  BY <1>1, <1>4 DEF Seqs
<1>7. Undrained' = Undrained \cup {n} /\ n \notin Undrained
  BY <1>3, <1>6 DEF Undrained
<1>8. Queued' = Queued \cup {n} /\ Held' = Held /\ Finished' = Finished
  BY <1>1, <1>2, <1>5 DEF Queued, Held, Finished, Stop
<1>9. TypeOK'
  <2>1. hand' \in 0 .. Len(tickets')
    BY <1>1, <1>2, <1>4 DEF IInv, TypeOK
  <2>2. outstanding' \in 0 .. MaxOps /\ reserved' \in 0 .. MaxBytes
    BY <1>1, <1>2, Facts, JournalAssumption
  <2> QED
    BY <1>1, <1>2, <1>4, <1>5, <1>6, <2>1, <2>2 DEF IInv, TypeOK, TicketType
<1>10. Accounted'
  <2>1. outstanding' = Cardinality(Undrained') /\ reserved' = Cardinality(Bytes(Undrained)')
    <3>1. \A s \in Undrained : tickets'[s].size = tickets[s].size
      BY <1>6, Facts
    <3>2. tickets'[n].size \in Nat /\ reserved' = reserved + tickets'[n].size
      BY <1>1, <1>2, <1>3, <1>6
    <3> HIDE DEF n
    <3> QED
      BY <1>2, <1>7, <3>1, <3>2, OneMoreCounted
  <2>2. Undrained = Queued \cup Held \cup Finished
    BY DEF IInv, Accounted
  <2> QED
    BY <1>7, <1>8, <2>1, <2>2 DEF Accounted
<1>11. Order'
  <2>1. \A s \in Queued \cup Held \cup Finished : s < n
    BY <1>1, Facts DEF IInv, Accounted
  <2>2. \A i, j \in DOMAIN completions' : i < j => completions'[i].seq < completions'[j].seq
    BY <1>2 DEF IInv, Order
  <2>3. \A i, j \in DOMAIN requests' :
          i < j /\ requests'[j] # Stop => requests'[i] < requests'[j]
    <3>1. \A i \in DOMAIN requests : requests[i] < n
      <4>1. TAKE i \in DOMAIN requests
      <4>2. requests[i] \in Queued \cup {0}
        BY DEF Queued, ToSet, Stop
      <4> QED
        BY <1>1, <2>1, <4>2
    <3>2. \A i, j \in DOMAIN requests : i < j /\ requests[j] # Stop => requests[i] < requests[j]
      BY DEF IInv, Order
    <3>3. SUFFICES ASSUME NEW i \in 1 .. Len(requests) + 1, NEW j \in 1 .. Len(requests) + 1,
                          i < j, requests'[j] # Stop
                   PROVE  requests'[i] < requests'[j]
      BY <1>5
    <3>4. i \in DOMAIN requests /\ requests'[i] = requests[i]
      BY <1>5, <3>3
    <3>5. CASE j = Len(requests) + 1
      BY <1>5, <3>1, <3>4, <3>5
    <3>6. CASE j # Len(requests) + 1
      <4>1. j \in DOMAIN requests /\ requests'[j] = requests[j]
        BY <1>5, <3>6
      <4> QED
        BY <3>2, <3>3, <3>4, <4>1
    <3> QED
      BY <3>5, <3>6
  <2>4. \A i \in DOMAIN completions' : \A s \in Held' \cup Queued' : completions'[i].seq < s
    <3>1. \A i \in DOMAIN completions : completions[i].seq < n
      BY <2>1 DEF Finished
    <3> QED
      BY <1>2, <1>8, <3>1 DEF IInv, Order
  <2>5. \A s \in Queued' : hand' < s
    <3>1. hand \in 0 .. n - 1
      BY DEF IInv, TypeOK
    <3> QED
      BY <1>1, <1>2, <1>8, <3>1 DEF IInv, Order
  <2> QED
    BY <2>2, <2>3, <2>4, <2>5 DEF Order
<1>12. StopLast'
  <2>1. Stop \notin ToSet(requests) /\ writer # "exited"
    BY <1>2 DEF IInv, StopLast
  <2>2. Stop \notin ToSet(requests') /\ writer' # "exited"
    BY <1>1, <1>2, <1>5, <2>1 DEF Stop
  <2>3. \A i \in DOMAIN requests' : requests'[i] \in ToSet(requests')
    BY DEF ToSet
  <2> QED
    BY <2>2, <2>3 DEF StopLast
<1>13. WriterHolds' /\ OneMore'
  BY <1>2 DEF IInv, WriterHolds, OneMore, Closed
<1>14. Results'
  <2>1. \A s \in Undrained' : tickets'[s].error = "none"
    BY <1>3, <1>6, <1>7, Facts DEF IInv, Results
  <2>2. \A s \in ToSet(applied') :
          s \in Seqs' /\ (tickets'[s].arg = 0 \/ tickets'[s].arg \in valued')
    BY <1>2, <1>6 DEF IInv, Results, Resolves
  <2>3. writer' = "inside" => tickets'[hand'].arg = 0 \/ tickets'[hand'].arg \in valued'
    <3>1. writer = "inside" => hand \in Seqs
      BY <1>1 DEF IInv, TypeOK, WriterHolds
    <3> QED
      BY <1>2, <1>6, <3>1 DEF IInv, Results, Resolves
  <2> QED
    BY <2>1, <2>2, <2>3 DEF Results, Resolves
<1> QED
  BY <1>9, <1>10, <1>11, <1>12, <1>13, <1>14 DEF IInv

LEMMA DrainOneSound == ASSUME IInv, DrainOne PROVE IInv'
PROOF
<1> DEFINE c == Head(completions)
           s == c.seq
           t == [tickets[s] EXCEPT !.done = TRUE, !.error = c.error]
<1>1. /\ tickets' = [tickets EXCEPT ![s].done = TRUE, ![s].error = c.error]
      /\ outstanding' = outstanding - 1 /\ reserved' = reserved - tickets[s].size
      /\ completions' = Tail(completions) /\ completions # <<>>
      /\ UNCHANGED <<requests, owner, cutoff, store, valued, applied, writer, hand, overrun>>
  BY DEF DrainOne, Released, writerVars
<1>2. /\ completions' \in Seq(CompletionType) /\ Len(completions') = Len(completions) - 1
      /\ Len(completions) \in Nat \ {0}
      /\ DOMAIN completions' = 1 .. Len(completions) - 1
      /\ DOMAIN completions = 1 .. Len(completions)
      /\ \A i \in 1 .. Len(completions) - 1 : completions'[i] = completions[i + 1]
      /\ c = completions[1] /\ c \in CompletionType
  BY <1>1, TypeFacts, TailAt DEF IInv
<1>3. Finished = Finished' \cup {s} /\ s \notin Finished'
  <2>1. \A i \in 1 .. Len(completions) - 1 : i + 1 \in DOMAIN completions /\ s < completions'[i].seq
    BY <1>2 DEF IInv, Order
  <2>2. s \in Nat
    BY <1>2 DEF CompletionType
  <2>3. s \notin Finished'
    BY <1>2, <2>1, <2>2 DEF Finished
  <2>4. \A i \in DOMAIN completions : i = 1 \/ i - 1 \in DOMAIN completions'
    BY <1>2
  <2>5. Finished \subseteq Finished' \cup {s}
    BY SMTT(30), <1>2, <2>4 DEF Finished
  <2>6. Finished' \cup {s} \subseteq Finished
    <3>1. 1 \in DOMAIN completions /\ s = completions[1].seq
      BY <1>2
    <3>2. s \in Finished
      BY <3>1 DEF Finished
    <3>3. Finished' \subseteq Finished
      BY SMTT(30), <1>2, <2>1 DEF Finished
    <3> QED
      BY <3>2, <3>3
  <2> QED
    BY <2>3, <2>5, <2>6
<1>4. Queued' = Queued /\ Held' = Held /\ s \notin Queued \cup Held
  <2>1. s < s => FALSE
    BY <1>2 DEF CompletionType
  <2> QED
    BY <1>1, <1>2, <2>1 DEF IInv, Order, Queued, Held
<1>5. s \in Undrained /\ s \in Seqs /\ tickets[s] \in TicketType
  BY <1>3, Facts DEF IInv, Accounted
<1> HIDE DEF c
<1>6. t \in TicketType /\ t.done = TRUE /\ t.size = tickets[s].size /\ t.arg = tickets[s].arg
  BY <1>2, <1>5 DEF TicketType, CompletionType
<1>7. tickets' = [tickets EXCEPT ![s] = t]
  BY <1>1
<1> HIDE DEF t, s
<1>8. /\ tickets' \in Seq(TicketType) /\ Len(tickets') = Len(tickets) /\ Seqs' = Seqs
      /\ \A u \in Seqs : tickets'[u] = IF u = s THEN t ELSE tickets[u]
  <2>1. tickets \in Seq(TicketType) /\ s \in 1 .. Len(tickets)
    BY <1>5, TypeFacts DEF IInv, Seqs
  <2> QED
    BY <1>6, <1>7, <2>1 DEF Seqs
<1>9. Undrained' = Undrained \ {s}
  BY <1>6, <1>8 DEF Undrained
<1>10. /\ outstanding' = Cardinality(Undrained') /\ reserved' = Cardinality(Bytes(Undrained)')
       /\ outstanding' \in Nat /\ reserved' \in Nat
  <2>1. \A u \in Undrained : tickets'[u].size = tickets[u].size
    BY <1>6, <1>8, Facts
  <2> QED
    BY <1>1, <1>5, <1>9, <2>1, OneLessCounted DEF s
<1>11. TypeOK'
  <2>1. outstanding' \in 0 .. MaxOps
    BY <1>1, <1>10, Facts, JournalAssumption DEF IInv, TypeOK
  <2>2. reserved' \in 0 .. MaxBytes
    <3>1. tickets[s].size \in Nat /\ reserved' = reserved - tickets[s].size
      BY <1>1, <1>5, Facts DEF s
    <3>2. reserved \in 0 .. MaxBytes
      BY DEF IInv, TypeOK
    <3> QED
      BY <1>10, <3>1, <3>2, JournalAssumption
  <2> QED
    BY <1>1, <1>2, <1>8, <2>1, <2>2 DEF IInv, TypeOK, TicketType, CompletionType
<1>12. Accounted'
  <2>1. Undrained = Queued \cup Held \cup Finished
    BY DEF IInv, Accounted
  <2>2. Undrained' = Queued' \cup Held' \cup Finished'
    BY <1>3, <1>4, <1>9, <2>1
  <2> QED
    BY <1>10, <2>2 DEF Accounted
<1>13. Order'
  <2>1. \A i \in DOMAIN completions' : i + 1 \in DOMAIN completions /\ completions'[i] = completions[i + 1]
    BY <1>2
  <2>2. \A i, j \in DOMAIN completions' : i < j => completions'[i].seq < completions'[j].seq
    <3>1. TAKE i, j \in DOMAIN completions'
    <3>2. i < j => i + 1 < j + 1
      BY <1>2
    <3> QED
      BY <2>1, <3>2 DEF IInv, Order
  <2>3. \A i \in DOMAIN completions' : \A u \in Held' \cup Queued' : completions'[i].seq < u
    BY <1>4, <2>1 DEF IInv, Order
  <2> QED
    BY <1>1, <1>4, <2>2, <2>3 DEF IInv, Order
<1>14. StopLast' /\ OneMore'
  BY <1>1 DEF IInv, StopLast, OneMore, Closed
<1>15. WriterHolds'
  <2>1. writer # "absent"
    BY <1>1 DEF IInv, WriterHolds
  <2> QED
    BY <1>1, <2>1 DEF IInv, WriterHolds, Closed
<1>16. Results'
  <2>1. \A u \in Undrained' : tickets'[u].error = "none"
    BY <1>8, <1>9, Facts DEF IInv, Results
  <2>2. \A u \in Seqs : tickets'[u].arg = tickets[u].arg
    BY <1>6, <1>8
  <2>5. UNCHANGED <<applied, valued, hand, writer>>
    BY <1>1
  <2>3. \A u \in ToSet(applied') :
          u \in Seqs' /\ (tickets'[u].arg = 0 \/ tickets'[u].arg \in valued')
    <3>1. \A u \in ToSet(applied) : u \in Seqs /\ (tickets[u].arg = 0 \/ tickets[u].arg \in valued)
      BY DEF IInv, Results, Resolves
    <3> QED
      BY <1>8, <2>2, <2>5, <3>1
  <2>4. writer' = "inside" => tickets'[hand'].arg = 0 \/ tickets'[hand'].arg \in valued'
    <3>1. writer = "inside" => hand \in Seqs
      BY Facts DEF IInv, TypeOK, WriterHolds
    <3>2. writer = "inside" => tickets[hand].arg = 0 \/ tickets[hand].arg \in valued
      BY DEF IInv, Results, Resolves
    <3> QED
      BY <2>2, <2>5, <3>1, <3>2
  <2> QED
    BY <2>1, <2>3, <2>4 DEF Results, Resolves
<1> QED
  BY <1>11, <1>12, <1>13, <1>14, <1>15, <1>16 DEF IInv

\* A step that moves neither a ticket nor what waits for it.
LEMMA StillSound ==
  ASSUME IInv, UNCHANGED <<tickets, outstanding, reserved, requests, completions, hand, applied, valued>>,
         writer' = writer \/ (writer = "check" /\ writer' = "begin" /\ cutoff # "past")
           \/ (writer = "begin" /\ writer' = "inside" /\ Resolves(tickets[hand].arg)),
         overrun' = overrun \/ (writer = "begin" /\ writer' = "inside" /\ cutoff = "past"
                                /\ overrun' = overrun + 1),
         Closed => Closed',
         cutoff' = cutoff \/ cutoff = "none" \/ (cutoff = "ahead" /\ cutoff' = "past"),
         cutoff' # "none" => Closed',
         owner' \in {"serve", "drain", "join", "lastDrain", "alive", "closed"},
         cutoff' \in {"none", "ahead", "past"},
         store' = store \/ (store' \in {"open", "closed"}
                            /\ (store' = "closed" => writer \in {"exited", "absent"}))
  PROVE  IInv'
PROOF
<1>1. /\ Seqs' = Seqs /\ Undrained' = Undrained /\ Queued' = Queued /\ Held' = Held
      /\ Finished' = Finished
  BY DEF Seqs, Undrained, Queued, Held, Finished
<1>2. OneMore'
  <2>1. overrun \in Nat
    BY DEF IInv, TypeOK
  <2>2. CASE overrun' = overrun
    BY <2>2 DEF IInv, OneMore
  <2>3. CASE writer = "begin" /\ writer' = "inside" /\ cutoff = "past" /\ overrun' = overrun + 1
    <3>1. overrun = 0 /\ cutoff' = "past"
      BY <2>3 DEF IInv, OneMore
    <3> QED
      BY <2>3, <3>1 DEF OneMore
  <2> QED
    BY <2>2, <2>3
<1>3. TypeOK'
  <2>1. overrun' \in Nat
    BY <1>2 DEF OneMore
  <2>2. store' \in {"open", "closed"}
    BY DEF IInv, TypeOK
  <2>3. writer' \in {"get", "check", "begin", "inside", "exited", "absent"}
    BY DEF IInv, TypeOK
  <2> QED
    BY <1>1, <2>1, <2>2, <2>3 DEF IInv, TypeOK
<1>4. Accounted'
  <2>1. Bytes(Undrained)' = Bytes(Undrained)
    BY <1>1 DEF Bytes
  <2> QED
    BY <1>1, <2>1 DEF IInv, Accounted
<1>5. Order'
  BY <1>1 DEF IInv, Order
<1>6. StopLast'
  BY DEF IInv, StopLast
<1>7. WriterHolds'
  <2>1. hand' # 0 <=> writer' \in {"check", "begin", "inside"}
    BY DEF IInv, WriterHolds
  <2>2. writer' = "absent" => requests' = <<>> /\ completions' = <<>>
    BY DEF IInv, WriterHolds
  <2>3. store' = "closed" => writer' \in {"exited", "absent"}
    BY DEF IInv, WriterHolds
  <2> QED
    BY <2>1, <2>2, <2>3 DEF WriterHolds
<1>8. Results'
  BY <1>1 DEF IInv, Results, Resolves
<1> QED
  BY <1>2, <1>3, <1>4, <1>5, <1>6, <1>7, <1>8 DEF IInv

LEMMA OwnerSound ==
  ASSUME IInv,
         \/ DrainBegin \/ DrainEnd \/ Joined \/ CloseEnd \/ BoundPasses \/ UNCHANGED vars
         \/ \E bound \in {"ahead", "past"} : CloseBegin(bound) /\ ~Threaded
  PROVE  IInv'
PROOF
<1>1. /\ UNCHANGED <<tickets, outstanding, reserved, requests, completions, hand, applied, valued>>
      /\ writer' = writer /\ overrun' = overrun
  BY DEF DrainBegin, DrainEnd, Joined, CloseEnd, BoundPasses, vars, CloseBegin, writerVars
<1>2. /\ owner \in {"serve", "drain", "join", "lastDrain", "alive", "closed"}
      /\ cutoff \in {"none", "ahead", "past"}
      /\ cutoff # "none" => Closed
  BY DEF IInv, TypeOK, WriterHolds
<1>3. /\ Closed => Closed'
      /\ cutoff' # "none" => Closed'
      /\ owner' \in {"serve", "drain", "join", "lastDrain", "alive", "closed"}
  BY <1>2 DEF DrainBegin, DrainEnd, Joined, CloseEnd, BoundPasses, vars, CloseBegin, Closed
<1>4. cutoff' = cutoff \/ (cutoff = "ahead" /\ cutoff' = "past")
  BY DEF DrainBegin, DrainEnd, Joined, CloseEnd, BoundPasses, vars, CloseBegin
<1>5. store' = store \/ (store' \in {"open", "closed"}
                         /\ (store' = "closed" => writer \in {"exited", "absent"}))
  BY DEF DrainBegin, DrainEnd, Joined, CloseEnd, BoundPasses, vars, CloseBegin, FdFree
<1> QED
  BY <1>1, <1>2, <1>3, <1>4, <1>5, StillSound

LEMMA WriterStepSound ==
  ASSUME IInv,
         \/ CheckCutoff /\ ~CutOff
         \/ Begin /\ Resolves(tickets[hand].arg)
  PROVE  IInv'
PROOF
<1>1. /\ UNCHANGED <<tickets, outstanding, reserved, requests, completions, hand, applied, valued>>
      /\ UNCHANGED <<owner, cutoff, store>>
  BY DEF CheckCutoff, Begin, ownerVars
<1>2. \/ writer = "check" /\ writer' = "begin" /\ cutoff # "past" /\ overrun' = overrun
      \/ /\ writer = "begin" /\ writer' = "inside" /\ Resolves(tickets[hand].arg)
         /\ overrun' = overrun + (IF cutoff = "past" THEN 1 ELSE 0)
  BY DEF CheckCutoff, Begin, CutOff
<1>3. overrun' = overrun \/ (writer = "begin" /\ writer' = "inside" /\ cutoff = "past"
                             /\ overrun' = overrun + 1)
  <2>1. overrun \in Nat
    BY DEF IInv, TypeOK
  <2> QED
    BY <1>2, <2>1
<1>4. /\ owner' \in {"serve", "drain", "join", "lastDrain", "alive", "closed"}
      /\ cutoff' \in {"none", "ahead", "past"}
      /\ cutoff' # "none" => Closed'
      /\ Closed => Closed'
  BY <1>1 DEF IInv, TypeOK, WriterHolds, Closed
<1> QED
  BY <1>1, <1>2, <1>3, <1>4, StillSound

\* The close queues the stop behind all there is.
LEMMA CloseSound ==
  ASSUME IInv, NEW bound \in {"ahead", "past"}, CloseBegin(bound), Threaded PROVE IInv'
PROOF
<1>1. /\ owner = "serve" /\ owner' = "join" /\ cutoff' = bound
      /\ requests' = Append(requests, Stop) /\ writer # "absent"
      /\ UNCHANGED <<tickets, outstanding, reserved, completions, store, valued, applied, writer,
                     hand, overrun>>
  BY DEF CloseBegin, writerVars, Threaded
<1>2. /\ requests' \in Seq(Nat) /\ Len(requests') = Len(requests) + 1 /\ Len(requests) \in Nat
      /\ DOMAIN requests = 1 .. Len(requests) /\ DOMAIN requests' = 1 .. Len(requests) + 1
      /\ \A i \in 1 .. Len(requests) + 1 :
           requests'[i] = IF i = Len(requests) + 1 THEN Stop ELSE requests[i]
      /\ ToSet(requests') = ToSet(requests) \cup {Stop}
  <2>1. requests \in Seq(Nat) /\ Stop \in Nat
    BY TypeFacts DEF IInv, Stop
  <2> QED
    BY <1>1, <2>1, AppendAt
<1>3. /\ Seqs' = Seqs /\ Undrained' = Undrained /\ Queued' = Queued /\ Held' = Held
      /\ Finished' = Finished
  BY <1>1, <1>2 DEF Seqs, Undrained, Queued, Held, Finished
<1>4. ~Closed /\ Closed' /\ cutoff = "none"
  BY <1>1 DEF IInv, WriterHolds, Closed
<1>5. Stop \notin ToSet(requests) /\ writer # "exited"
  BY <1>4 DEF IInv, StopLast
<1>6. TypeOK'
  BY <1>1, <1>2, <1>3 DEF IInv, TypeOK
<1>7. Accounted'
  <2>1. Bytes(Undrained)' = Bytes(Undrained)
    BY <1>1, <1>3 DEF Bytes
  <2> QED
    BY <1>1, <1>3, <2>1 DEF IInv, Accounted
<1>8. Order'
  <2>1. \A i, j \in DOMAIN requests' :
          i < j /\ requests'[j] # Stop => requests'[i] < requests'[j]
    <3>1. \A i, j \in DOMAIN requests : i < j /\ requests[j] # Stop => requests[i] < requests[j]
      BY DEF IInv, Order
    <3>2. SUFFICES ASSUME NEW i \in 1 .. Len(requests) + 1, NEW j \in 1 .. Len(requests) + 1,
                          i < j, requests'[j] # Stop
                   PROVE  requests'[i] < requests'[j]
      BY <1>2
    <3>3. j \in DOMAIN requests /\ i \in DOMAIN requests
      BY SMTT(30), <1>2, <3>2
    <3>4. requests'[i] = requests[i] /\ requests'[j] = requests[j]
      BY <1>2, <3>3
    <3> QED
      BY <3>1, <3>2, <3>3, <3>4
  <2> QED
    BY <1>1, <1>3, <2>1 DEF IInv, Order
<1>9. StopLast'
  <2>1. \A i \in DOMAIN requests : requests[i] # Stop
    BY <1>5 DEF ToSet
  <2>2. \A i \in DOMAIN requests' : requests'[i] = Stop => i = Len(requests')
    BY <1>2, <2>1
  <2> QED
    BY <1>1, <1>4, <1>5, <2>2 DEF StopLast
<1>10. WriterHolds' /\ OneMore'
  BY <1>1, <1>4 DEF IInv, WriterHolds, OneMore
<1>11. Results'
  BY <1>1, <1>3 DEF IInv, Results, Resolves
<1> QED
  BY <1>6, <1>7, <1>8, <1>9, <1>10, <1>11 DEF IInv

(***************************************************************************)
(* The writer's steps.                                                     *)
(***************************************************************************)
LEMMA TakeSound == ASSUME IInv, Take PROVE IInv'
PROOF
<1> DEFINE h == Head(requests)
<1>1. /\ writer = "get" /\ requests # <<>> /\ requests' = Tail(requests)
      /\ UNCHANGED <<tickets, completions, valued, applied, overrun, outstanding, reserved, owner,
                     cutoff, store>>
      /\ hand = 0
  BY DEF Take, ownerVars, IInv, WriterHolds
<1>2. /\ requests' \in Seq(Nat) /\ Len(requests') = Len(requests) - 1 /\ Len(requests) \in Nat \ {0}
      /\ DOMAIN requests' = 1 .. Len(requests) - 1 /\ DOMAIN requests = 1 .. Len(requests)
      /\ \A i \in 1 .. Len(requests) - 1 : requests'[i] = requests[i + 1]
      /\ h = requests[1] /\ h \in Nat
      /\ ToSet(requests) = ToSet(requests') \cup {h}
  BY <1>1, TypeFacts, TailAt DEF IInv
<1>3. /\ Seqs' = Seqs /\ Undrained' = Undrained /\ Finished' = Finished
  BY <1>1 DEF Seqs, Undrained, Finished
<1>4. \A i \in 1 .. Len(requests) - 1 : requests[1] < requests[i + 1] \/ requests[i + 1] = Stop
  <2>1. TAKE i \in 1 .. Len(requests) - 1
  <2>2. 1 \in DOMAIN requests /\ i + 1 \in DOMAIN requests /\ 1 < i + 1
    BY <1>2
  <2> QED
    BY <2>2 DEF IInv, Order
<1>5. \A s \in Queued' : h < s /\ s \in Queued
  <2>1. TAKE s \in Queued'
  <2>2. s # Stop /\ s \in ToSet(requests')
    BY DEF Queued
  <2>3. PICK i \in DOMAIN requests' : s = requests'[i]
    BY <2>2 DEF ToSet
  <2>4. i \in 1 .. Len(requests) - 1 /\ s = requests[i + 1]
    BY <1>2, <2>3
  <2>5. s \in ToSet(requests)
    BY <1>2, <2>2
  <2> QED
    BY <1>2, <1>4, <2>2, <2>4, <2>5 DEF Queued
<1>6. Held' \cup Queued' = Held \cup Queued
  <2>1. CASE h = Stop
    BY <1>1, <1>2, <2>1 DEF Take, Held, Queued
  <2>2. CASE h # Stop
    BY <1>1, <1>2, <2>2 DEF Take, Held, Queued, Stop
  <2> QED
    BY <2>1, <2>2
<1>7. \/ h = Stop /\ writer' = "exited" /\ hand' = 0
      \/ h # Stop /\ writer' = "check" /\ hand' = h
  BY <1>1 DEF Take
<1>8. TypeOK'
  <2>1. hand' \in 0 .. Len(tickets')
    <3>1. h # Stop => h \in Queued
      BY <1>2 DEF Queued
    <3>2. h # Stop => h \in 0 .. Len(tickets)
      BY <3>1, Facts DEF IInv, Accounted
    <3> QED
      BY <1>1, <1>7, <3>2, Facts
  <2> QED
    BY <1>1, <1>2, <1>3, <1>7, <2>1 DEF IInv, TypeOK
<1>9. Accounted'
  <2>1. Bytes(Undrained)' = Bytes(Undrained)
    BY <1>1, <1>3 DEF Bytes
  <2> QED
    BY <1>1, <1>3, <1>6, <2>1 DEF IInv, Accounted
<1>10. Order'
  <2>1. \A i, j \in DOMAIN requests' :
          i < j /\ requests'[j] # Stop => requests'[i] < requests'[j]
    <3>1. TAKE i, j \in DOMAIN requests'
    <3>2. i + 1 \in DOMAIN requests /\ j + 1 \in DOMAIN requests /\ (i < j => i + 1 < j + 1)
      BY SMTT(30), <1>2
    <3>3. requests'[i] = requests[i + 1] /\ requests'[j] = requests[j + 1]
      BY <1>2
    <3> QED
      BY <3>2, <3>3 DEF IInv, Order
  <2>2. \A s \in Queued' : hand' < s
    <3>1. \A s \in Queued : 0 < s
      BY <1>2, TypeFacts DEF IInv, Queued, Stop, ToSet
    <3> QED
      BY <1>5, <1>7, <3>1
  <2> QED
    BY <1>1, <1>6, <2>1, <2>2 DEF IInv, Order
<1>11. StopLast'
  <2>1. \A i \in DOMAIN requests : requests[i] = Stop => i = Len(requests)
    BY DEF IInv, StopLast
  <2>2. \A i \in DOMAIN requests' : requests'[i] = Stop => i = Len(requests')
    <3>1. \A i \in DOMAIN requests' : i + 1 \in DOMAIN requests
      BY <1>2
    <3> QED
      BY <1>2, <2>1, <3>1
  <2>3. writer' = "exited" => requests' = <<>>
    <3>1. SUFFICES ASSUME h = Stop PROVE requests' = <<>>
      BY <1>7
    <3>2. 1 = Len(requests)
      BY <1>2, <2>1, <3>1
    <3>3. Len(requests') = Len(requests) - 1 /\ requests' \in Seq(Nat)
      BY <1>2
    <3>4. Len(requests') = 0
      BY <3>2, <3>3
    <3> QED
      BY <3>3, <3>4
  <2>4. h = Stop \/ Stop \in ToSet(requests') => Closed
    BY <1>2 DEF IInv, StopLast
  <2> QED
    BY <1>1, <1>7, <2>2, <2>3, <2>4 DEF StopLast, Closed
<1>12. WriterHolds' /\ OneMore'
  BY <1>1, <1>7 DEF IInv, WriterHolds, OneMore, Closed, Stop
<1>13. Results'
  BY <1>1, <1>3, <1>7 DEF IInv, Results, Resolves
<1> QED
  BY <1>8, <1>9, <1>10, <1>11, <1>12, <1>13 DEF IInv

\* The writer is done with the call in its hand: made, failed or cut off.
LEMMA CompletesSound ==
  ASSUME IInv, writer \in {"check", "begin", "inside"}, writer' = "get", hand' = 0,
         NEW error \in Errors \cup {"none"}, Completed(error),
         UNCHANGED <<tickets, requests, overrun, ownerVars>>,
         valued' = valued \/ valued' = valued \cup {hand},
         applied' = applied \/ (writer = "inside" /\ applied' = Append(applied, hand))
  PROVE  IInv'
PROOF
<1> DEFINE c == [seq |-> hand, error |-> error]
<1>1. UNCHANGED <<outstanding, reserved, owner, cutoff, store>>
  BY DEF ownerVars
<1>2. /\ hand \in Nat /\ hand # 0 /\ hand \in Seqs
  BY Facts DEF IInv, TypeOK, WriterHolds
<1>3. c \in CompletionType /\ c.seq = hand
  BY <1>2 DEF CompletionType
<1> HIDE DEF c
<1>4. /\ completions' \in Seq(CompletionType) /\ Len(completions') = Len(completions) + 1
      /\ Len(completions) \in Nat
      /\ DOMAIN completions = 1 .. Len(completions)
      /\ DOMAIN completions' = 1 .. Len(completions) + 1
      /\ \A i \in 1 .. Len(completions) + 1 :
           completions'[i] = IF i = Len(completions) + 1 THEN c ELSE completions[i]
  <2>1. completions' = Append(completions, c)
    BY DEF Completed, c
  <2> QED
    BY <1>3, <2>1, TypeFacts, AppendAt DEF IInv
<1>5. Finished' = Finished \cup {hand}
  <2>1. Finished' \subseteq Finished \cup {hand}
    BY <1>3, <1>4 DEF Finished
  <2>2. Len(completions) + 1 \in DOMAIN completions' /\ completions'[Len(completions) + 1].seq = hand
    BY <1>3, <1>4
  <2>3. hand \in Finished'
    BY <2>2 DEF Finished
  <2>4. Finished \subseteq Finished'
    BY <1>4 DEF Finished
  <2> QED
    BY <2>1, <2>3, <2>4
<1>6. Held = {hand} /\ Held' = {} /\ Queued' = Queued /\ Seqs' = Seqs /\ Undrained' = Undrained
  BY <1>2 DEF Held, Queued, Seqs, Undrained
<1>7. TypeOK'
  <2>1. applied' \in Seq(Nat)
    <3>1. applied \in Seq(Nat) /\ Append(applied, hand) \in Seq(Nat)
      BY <1>2, TypeFacts, AppendAt DEF IInv
    <3> QED
      BY <3>1
  <2>2. valued' \subseteq Seqs'
    BY <1>2, <1>6 DEF IInv, TypeOK
  <2>3. hand' \in 0 .. Len(tickets')
    BY Facts
  <2> QED
    BY <1>1, <1>4, <2>1, <2>2, <2>3 DEF IInv, TypeOK, CompletionType
<1>8. Accounted'
  <2>1. Bytes(Undrained)' = Bytes(Undrained)
    BY <1>6 DEF Bytes
  <2>2. Undrained' = Queued' \cup Held' \cup Finished'
    BY <1>5, <1>6 DEF IInv, Accounted
  <2> QED
    BY <1>1, <1>6, <2>1, <2>2 DEF IInv, Accounted
<1>9. Order'
  <2>1. \A i, j \in DOMAIN completions' : i < j => completions'[i].seq < completions'[j].seq
    <3>1. \A i \in DOMAIN completions : completions[i].seq < hand
      BY <1>6 DEF IInv, Order
    <3>2. \A i, j \in DOMAIN completions : i < j => completions[i].seq < completions[j].seq
      BY DEF IInv, Order
    <3>3. SUFFICES ASSUME NEW i \in 1 .. Len(completions) + 1, NEW j \in 1 .. Len(completions) + 1,
                          i < j
                   PROVE  completions'[i].seq < completions'[j].seq
      BY <1>4
    <3>4. i \in DOMAIN completions /\ completions'[i] = completions[i]
      BY <1>4, <3>3
    <3>5. CASE j = Len(completions) + 1
      BY <1>3, <1>4, <3>1, <3>4, <3>5
    <3>6. CASE j # Len(completions) + 1
      <4>1. j \in DOMAIN completions /\ completions'[j] = completions[j]
        BY <1>4, <3>6
      <4> QED
        BY <3>2, <3>3, <3>4, <4>1
    <3> QED
      BY <3>5, <3>6
  <2>2. \A i \in DOMAIN completions' : \A s \in Held' \cup Queued' : completions'[i].seq < s
    <3>1. \A s \in Queued : hand < s
      BY DEF IInv, Order
    <3>2. \A i \in DOMAIN completions : \A s \in Queued : completions[i].seq < s
      BY DEF IInv, Order
    <3> QED
      BY <1>3, <1>4, <1>6, <3>1, <3>2
  <2>3. \A s \in Queued' : hand' < s
    <3>1. \A s \in Queued : hand < s
      BY DEF IInv, Order
    <3>2. \A s \in Queued : s \in Nat
      BY Facts DEF IInv, Accounted
    <3> QED
      BY <1>2, <1>6, <3>1, <3>2
  <2> QED
    BY <1>6, <2>1, <2>2, <2>3 DEF IInv, Order
<1>10. StopLast' /\ WriterHolds' /\ OneMore'
  BY <1>1 DEF IInv, StopLast, WriterHolds, OneMore, Closed
<1>11. Results'
  <2>1. \A s \in Undrained' : tickets'[s].error = "none"
    BY <1>6 DEF IInv, Results
  <2>2. \A s \in ToSet(applied) : s \in Seqs /\ (tickets[s].arg = 0 \/ tickets[s].arg \in valued)
    BY DEF IInv, Results, Resolves
  <2>3. writer = "inside" => tickets[hand].arg = 0 \/ tickets[hand].arg \in valued
    BY DEF IInv, Results, Resolves
  <2>4. \A s \in ToSet(applied') :
          s \in Seqs' /\ (tickets'[s].arg = 0 \/ tickets'[s].arg \in valued')
    <3>1. CASE applied' = applied
      BY <1>6, <2>2, <3>1
    <3>2. CASE writer = "inside" /\ applied' = Append(applied, hand)
      <4>1. ToSet(applied') = ToSet(applied) \cup {hand}
        BY <1>2, <3>2, TypeFacts, AppendAt DEF IInv
      <4> QED
        BY <1>2, <1>6, <2>2, <2>3, <3>2, <4>1
    <3> QED
      BY <3>1, <3>2
  <2> QED
    BY <2>1, <2>4 DEF Results, Resolves
<1> QED
  BY <1>7, <1>8, <1>9, <1>10, <1>11 DEF IInv

LEMMA DoneSound ==
  ASSUME IInv, \/ CheckCutoff /\ CutOff
               \/ Begin /\ ~Resolves(tickets[hand].arg)
               \/ Returns
  PROVE  IInv'
PROOF
<1>1. CASE CheckCutoff /\ CutOff
  <2>1. /\ writer = "check" /\ writer' = "get" /\ hand' = 0 /\ Completed("closed")
        /\ UNCHANGED <<tickets, requests, overrun, ownerVars>> /\ valued' = valued /\ applied' = applied
    BY <1>1 DEF CheckCutoff
  <2>2. "closed" \in Errors \cup {"none"}
    BY DEF Errors
  <2> QED
    BY <2>1, <2>2, CompletesSound
<1>2. CASE Begin /\ ~Resolves(tickets[hand].arg)
  <2>1. /\ writer = "begin" /\ writer' = "get" /\ hand' = 0 /\ Completed("dependency")
        /\ UNCHANGED <<tickets, requests, overrun, ownerVars>> /\ valued' = valued /\ applied' = applied
    BY <1>2 DEF Begin
  <2>2. "dependency" \in Errors \cup {"none"}
    BY DEF Errors
  <2> QED
    BY <2>1, <2>2, CompletesSound
<1>3. CASE Returns
  <2>1. PICK error \in {"none", "write"}, effect \in BOOLEAN : CallReturns(error, effect)
    BY <1>3 DEF Returns
  <2>2. /\ writer = "inside" /\ writer' = "get" /\ hand' = 0 /\ Completed(error)
        /\ UNCHANGED <<tickets, requests, overrun, ownerVars>>
        /\ valued' = valued \/ valued' = valued \cup {hand}
        /\ applied' = applied \/ (writer = "inside" /\ applied' = Append(applied, hand))
    BY <2>1 DEF CallReturns
  <2>3. error \in Errors \cup {"none"}
    BY DEF Errors
  <2> QED
    BY <2>2, <2>3, CompletesSound
<1> QED
  BY <1>1, <1>2, <1>3

(***************************************************************************)
(* The invariants.                                                         *)
(***************************************************************************)
LEMMA InitSound == Init => IInv
PROOF
<1> SUFFICES ASSUME Init PROVE IInv
  OBVIOUS
<1>1. <<>> \in Seq(TicketType) /\ <<>> \in Seq(CompletionType) /\ <<>> \in Seq(Nat)
      /\ Len(<<>>) = 0 /\ DOMAIN <<>> = {} /\ 1 .. 0 = {}
  OBVIOUS
<1>2. writer \in {"get", "absent"}
  BY DEF Init
<1>3. /\ tickets = <<>> /\ requests = <<>> /\ completions = <<>> /\ applied = <<>> /\ valued = {}
      /\ hand = 0 /\ owner = "serve" /\ cutoff = "none" /\ store = "open" /\ overrun = 0
      /\ outstanding = 0 /\ reserved = 0
  BY DEF Init
<1>4. Seqs = {} /\ Undrained = {} /\ Queued = {} /\ Held = {} /\ Finished = {} /\ ToSet(requests) = {}
      /\ ToSet(applied) = {}
  BY <1>1, <1>3 DEF Seqs, Undrained, Queued, Held, Finished, ToSet
<1>5. TypeOK
  BY <1>1, <1>2, <1>3, <1>4, JournalAssumption DEF TypeOK, TicketType, CompletionType
<1>6. Accounted
  <2>1. Bytes(Undrained) = {}
    BY <1>4 DEF Bytes
  <2>2. Cardinality(Undrained) = 0 /\ Cardinality(Bytes(Undrained)) = 0
    BY <1>4, <2>1, FS_EmptySet
  <2> QED
    BY <1>3, <1>4, <2>2 DEF Accounted
<1>7. Order /\ StopLast /\ WriterHolds /\ Results /\ OneMore
  BY <1>1, <1>2, <1>3, <1>4 DEF Order, StopLast, WriterHolds, Results, OneMore, Closed
<1> QED
  BY <1>5, <1>6, <1>7 DEF IInv

LEMMA StepSound == IInv /\ [Next]_vars => IInv'
PROOF
<1> SUFFICES ASSUME IInv, [Next]_vars PROVE IInv'
  OBVIOUS
<1>1. CASE Submit
  BY <1>1, AnsweredSound, QueuedSound DEF Submit
<1>2. CASE Owner
  BY <1>2, DrainOneSound, OwnerSound DEF Owner
<1>3. ASSUME NEW bound \in {"ahead", "past"}, CloseBegin(bound) PROVE IInv'
  BY <1>3, CloseSound, OwnerSound
<1>4. CASE BoundPasses \/ UNCHANGED vars
  BY <1>4, OwnerSound
<1>5. CASE Writer
  BY <1>5, TakeSound, WriterStepSound, DoneSound DEF Writer
<1>6. CASE Returns
  BY <1>6, DoneSound
<1> QED
  BY <1>1, <1>2, <1>3, <1>4, <1>5, <1>6 DEF Next

\* The line of writes and the counters agree in every state the journal reaches.
THEOREM JournalInvariant == Spec => []IInv
BY InitSound, StepSound, PTL DEF Spec

\* For any number and size of writes and any bounds: every accepted write is in the
\* FIFO, in the writer's hand or waiting to be drained until the owner has its answer,
\* and the owner's counts of writes and of bytes are those of just these writes
\* (Journal.submit, drain, _run).
THEOREM JournalNothingMislaid == Spec => []NothingMislaid
PROOF
<1>1. IInv => NothingMislaid
  <2> SUFFICES ASSUME IInv PROVE NothingMislaid
    OBVIOUS
  <2>1. writer = "exited" => Queued = {} /\ Held = {}
    BY DEF IInv, StopLast, WriterHolds, Queued, Held, ToSet
  <2> QED
    BY <2>1 DEF IInv, NothingMislaid, ExitedMeansEmpty
<1> QED
  BY <1>1, JournalInvariant, PTL

\* No call runs on a result that does not exist, or in a store that is closed, and
\* past the bound of close() the writer makes at most the one call it had already
\* checked (_resolve, _run, Journal.close).
THEOREM JournalCallsSound == Spec => []CallsSound
PROOF
<1>1. IInv => CallsSound
  <2> SUFFICES ASSUME IInv PROVE CallsSound
    OBVIOUS
  <2>1. ArgumentsWritten
    BY DEF IInv, Results, Resolves, ArgumentsWritten
  <2>2. StoreClosedUnused
    BY DEF IInv, WriterHolds, StoreClosedUnused
  <2>3. OneOverrunAtMost
    BY DEF IInv, OneMore, OneOverrunAtMost
  <2> QED
    BY <2>1, <2>2, <2>3 DEF CallsSound
<1> QED
  BY <1>1, JournalInvariant, PTL

(***************************************************************************)
(* The journal implements DurableLog.  The place of a ticket in the line   *)
(* is its state in the log.                                                *)
(***************************************************************************)
\* The call of a ticket returned a value, which the owner has not seen.
Good(s) == \E i \in DOMAIN completions : completions[i] = [seq |-> s, error |-> "none"]

Placed(s) ==
  /\ s \notin Seqs => StateOf(s) = "new"
  /\ s \in Seqs \ Undrained =>
       StateOf(s) = (IF tickets[s].error = "none" THEN "ok" ELSE "failed")
  /\ s \in Finished => /\ s \in Undrained /\ s \notin Held \cup Queued
                       /\ StateOf(s) = (IF Good(s) THEN "written" ELSE "lost")
  /\ s \in Held => /\ s \in Undrained /\ s \notin Queued
                   /\ StateOf(s) = (IF writer \in {"begin", "inside"} THEN "running" ELSE "waiting")
  /\ s \in Queued => s \in Undrained /\ StateOf(s) = "waiting"

AllPlaced == \A s \in 1 .. MaxSubmits : Placed(s)

LEMMA EachPlaced == IInv => AllPlaced
PROOF
<1> SUFFICES ASSUME IInv, NEW s \in 1 .. MaxSubmits PROVE Placed(s)
  BY DEF AllPlaced
<1>1. Len(tickets) \in Nat /\ Seqs = 1 .. Len(tickets) /\ s \in Nat
  BY Facts, JournalAssumption
<1>2. s \in Seqs <=> ~(s > Len(tickets))
  BY <1>1
<1>3. Undrained = Queued \cup Held \cup Finished /\ Undrained \subseteq Seqs
  BY Facts DEF IInv, Accounted
<1>4. s \in Finished => s \notin Held \cup Queued
  BY <1>1 DEF IInv, Order, Finished
<1>5. s \in Held => s \notin Queued
  BY <1>1 DEF IInv, Order, Held
<1>6. s \in Held <=> s = hand
  BY <1>1 DEF Held
<1>7. s \in Seqs => (tickets[s].done <=> s \notin Undrained)
  BY DEF Undrained
<1> QED
  BY <1>2, <1>3, <1>4, <1>5, <1>6, <1>7 DEF Placed, StateOf, Good

LEMMA EachPlacedNext == IInv' => AllPlaced'
BY EachPlaced, PTL

\* A ticket that stays where it is keeps its state in the log.
LEMMA SamePlace ==
  ASSUME IInv, IInv', NEW s \in 1 .. MaxSubmits,
         s \in Seqs' <=> s \in Seqs, s \in Seqs => tickets'[s].error = tickets[s].error,
         s \in Finished' <=> s \in Finished, s \in Held' <=> s \in Held,
         s \in Queued' <=> s \in Queued, Good(s)' <=> Good(s),
         s \in Held => (writer' \in {"begin", "inside"} <=> writer \in {"begin", "inside"})
  PROVE  StateOf(s)' = StateOf(s)
PROOF
<1>1. Placed(s) /\ Placed(s)'
  BY EachPlaced, EachPlacedNext DEF AllPlaced
<1>2. /\ Undrained = Queued \cup Held \cup Finished /\ Undrained \subseteq Seqs
      /\ Undrained' = Queued' \cup Held' \cup Finished' /\ Undrained' \subseteq Seqs'
  BY DEF IInv, Accounted, Undrained
<1> QED
  BY <1>1, <1>2 DEF Placed

LEMMA MoveMaps ==
  ASSUME NEW w \in 1 .. MaxSubmits, NEW to,
         \A s \in 1 .. MaxSubmits : StateOf(s)' = IF s = w THEN to ELSE StateOf(s)
  PROVE  Log!Move(w, to)
BY DEF Log!Move

\* The ticket that is submitted is the oldest that is new.
LEMMA NextIsNew ==
  ASSUME IInv, Len(tickets) < MaxSubmits
  PROVE  Len(tickets) + 1 \in 1 .. MaxSubmits /\ Log!Oldest(Len(tickets) + 1, {"new"})
PROOF
<1> DEFINE n == Len(tickets) + 1
<1>1. n - 1 \in Nat /\ Seqs = 1 .. n - 1 /\ n \in 1 .. MaxSubmits
  BY Facts, JournalAssumption
<1>2. \A s \in 1 .. MaxSubmits : StateOf(s) = "new" <=> s \notin Seqs
  <2>1. TAKE s \in 1 .. MaxSubmits
  <2>2. Placed(s)
    BY EachPlaced DEF AllPlaced
  <2>3. Undrained = Queued \cup Held \cup Finished
    BY DEF IInv, Accounted
  <2> QED
    BY <2>2, <2>3 DEF Placed
<1> HIDE DEF n
<1>3. \A v \in 1 .. MaxSubmits : v < n => v \in Seqs
  BY <1>1
<1>4. n \notin Seqs
  BY <1>1
<1>5. Log!Oldest(n, {"new"})
  BY <1>1, <1>2, <1>3, <1>4 DEF Log!Oldest, Log!Writes
<1> QED
  BY <1>1, <1>5 DEF n

LEMMA Appended ==
  ASSUME IInv, NEW t \in TicketType, NEW n, n = Len(tickets) + 1, tickets' = Append(tickets, t)
  PROVE  /\ Seqs' = Seqs \cup {n} /\ n \notin Seqs /\ \A s \in Seqs : tickets'[s] = tickets[s]
         /\ tickets'[n] = t
PROOF
<1>1. tickets \in Seq(TicketType)
  BY TypeFacts DEF IInv
<1>2. /\ Len(tickets') = n /\ Len(tickets) \in Nat
      /\ \A i \in 1 .. n : tickets'[i] = IF i = n THEN t ELSE tickets[i]
  BY <1>1, AppendAt
<1> QED
  BY <1>2 DEF Seqs

LogStep == [Log!LogNext]_(Log!logVars)

LEMMA SubmitMaps == ASSUME IInv, IInv', Submit PROVE LogStep
PROOF
<1>1. PICK size \in Sizes, arg \in Args :
        \/ SubmitRefused(size, arg) \/ SubmitUncopied(size, arg) \/ SubmitQueued(size, arg)
        \/ \E error \in {"none", "write"}, effect \in BOOLEAN :
             SubmitInline(size, arg, error, effect)
  BY DEF Submit
<1>2. PICK n \in 1 .. MaxSubmits :
        /\ n = Len(tickets) + 1 /\ n - 1 \in Nat /\ Seqs = 1 .. n - 1 /\ Log!Oldest(n, {"new"})
  <2>1. Len(tickets) < MaxSubmits
    BY <1>1 DEF SubmitRefused, SubmitUncopied, SubmitQueued, SubmitInline, MaySubmit
  <2> QED
    BY <2>1, Facts, NextIsNew
<1>3. PICK done \in BOOLEAN, error \in Errors \cup {"none"} :
        tickets' = Append(tickets, Ticket(size, arg, done, error))
  <2>1. CASE SubmitRefused(size, arg)
    BY <2>1 DEF SubmitRefused, Refusal, Errors
  <2>2. CASE SubmitUncopied(size, arg)
    BY <2>2 DEF SubmitUncopied, Errors
  <2>3. CASE SubmitQueued(size, arg)
    BY <2>3 DEF SubmitQueued
  <2>4. ASSUME NEW e \in {"none", "write"}, NEW effect \in BOOLEAN,
               SubmitInline(size, arg, e, effect)
        PROVE  \E d \in BOOLEAN, error \in Errors \cup {"none"} :
                 tickets' = Append(tickets, Ticket(size, arg, d, error))
    <3> DEFINE verdict == IF ~Resolves(arg) THEN "dependency" ELSE e
    <3>1. verdict \in Errors \cup {"none"}
          /\ tickets' = Append(tickets, Ticket(size, arg, TRUE, verdict))
      BY <2>4 DEF SubmitInline, Errors
    <3> QED
      BY <3>1
  <2> QED
    BY <1>1, <2>1, <2>2, <2>3, <2>4
<1> DEFINE t == Ticket(size, arg, done, error)
<1>4. t \in TicketType /\ t.done = done /\ t.error = error
  <2>1. arg \in Nat
    BY Facts DEF Args
  <2> QED
    BY <2>1 DEF Ticket, TicketType
<1>5. /\ Seqs' = Seqs \cup {n} /\ n \notin Seqs /\ \A s \in Seqs : tickets'[s] = tickets[s]
      /\ tickets'[n] = t
  <2>1. tickets' = Append(tickets, t)
    BY <1>3
  <2> HIDE DEF t
  <2> QED
    BY <1>2, <1>4, <2>1, Appended
<1>6. completions' = completions /\ hand' = hand /\ writer' = writer /\ UNCHANGED cutoff
  BY <1>1 DEF SubmitRefused, SubmitUncopied, SubmitQueued, SubmitInline, ownerVars,
       writerVars
<1>7. Finished' = Finished /\ Held' = Held /\ \A s : Good(s)' <=> Good(s)
  BY <1>6 DEF Finished, Held, Good
<1>8. Queued' = IF done THEN Queued ELSE Queued \cup {n}
  <2>1. Undrained' = IF done THEN Undrained ELSE Undrained \cup {n}
    BY <1>4, <1>5 DEF Undrained
  <2>2. Undrained = Queued \cup Held \cup Finished /\ Undrained \subseteq Seqs
        /\ Undrained' = Queued' \cup Held' \cup Finished'
    BY DEF IInv, Accounted, Undrained
  <2>3. \A s \in 1 .. MaxSubmits : Placed(s) /\ Placed(s)'
    BY EachPlaced, EachPlacedNext DEF AllPlaced
  <2>4. Undrained' \subseteq 1 .. MaxSubmits /\ Undrained \subseteq 1 .. MaxSubmits
    <3>1. Seqs \subseteq 1 .. MaxSubmits
      BY <1>2, JournalAssumption
    <3> QED
      BY <1>2, <2>1, <2>2, <3>1
  <2> QED
    BY <1>5, <1>7, <2>1, <2>2, <2>3, <2>4 DEF Placed
<1> HIDE DEF t
<1> DEFINE to == IF ~done THEN "waiting" ELSE IF error = "none" THEN "ok" ELSE "failed"
<1>9. \A s \in 1 .. MaxSubmits : StateOf(s)' = IF s = n THEN to ELSE StateOf(s)
  <2>1. TAKE s \in 1 .. MaxSubmits
  <2>2. CASE s = n
    <3>1. Placed(n)'
      BY <1>2, EachPlacedNext DEF AllPlaced
    <3>2. ~done => n \in Queued'
      BY <1>8
    <3>3. done => n \in Seqs' \ Undrained'
      BY <1>4, <1>5 DEF Undrained
    <3> QED
      BY <1>4, <1>5, <2>2, <3>1, <3>2, <3>3 DEF Placed
  <2>3. CASE s # n
    <3>1. (s \in Seqs' <=> s \in Seqs) /\ (s \in Seqs => tickets'[s].error = tickets[s].error)
      BY <1>5, <2>3
    <3>2. s \in Queued' <=> s \in Queued
      BY <1>8, <2>3
    <3> QED
      BY <1>6, <1>7, <2>3, <3>1, <3>2, SamePlace
  <2> QED
    BY <2>2, <2>3
<1>10. Log!Move(n, to)
  BY <1>2, <1>9, MoveMaps
<1>11. (cutoff = "past")' = (cutoff = "past")
  BY <1>6
<1>12. CASE ~done
  <2>1. applied' = applied
    <3>1. ~(\E e \in {"none", "write"}, effect \in BOOLEAN : SubmitInline(size, arg, e, effect))
      <4>1. ASSUME NEW e \in {"none", "write"}, NEW effect \in BOOLEAN,
                   SubmitInline(size, arg, e, effect)
            PROVE  FALSE
        <5>1. writer = "absent"
          BY <4>1 DEF SubmitInline, Threaded
        <5>2. requests' = <<>> /\ n \in Queued'
          BY <1>6, <1>8, <1>12, <5>1 DEF IInv, WriterHolds
        <5> QED
          BY <5>2 DEF Queued, ToSet
      <4> QED
        BY <4>1
    <3> QED
      BY <1>1, <3>1 DEF SubmitRefused, SubmitUncopied, SubmitQueued, writerVars
  <2>2. Log!Accept(n)
    BY <1>2, <1>10, <1>11, <1>12, <2>1 DEF Log!Accept
  <2> QED
    BY <1>2, <2>2 DEF LogStep, Log!LogNext, Log!Writes
<1>13. CASE done /\ applied' = applied /\ error # "none"
  <2>1. Log!Refuse(n)
    BY <1>2, <1>10, <1>11, <1>13 DEF Log!Refuse
  <2> QED
    BY <1>2, <2>1 DEF LogStep, Log!LogNext, Log!Writes
<1>14. CASE done /\ ~(applied' = applied /\ error # "none")
  <2>1. PICK e \in {"none", "write"}, effect \in BOOLEAN : SubmitInline(size, arg, e, effect)
    <3>1. CASE SubmitRefused(size, arg)
      <4>1. error # "none" /\ applied' = applied
        <5>1. tickets' = Append(tickets, Ticket(size, arg, TRUE, Refusal(size)))
          BY <3>1 DEF SubmitRefused
        <5>2. Refusal(size) # "none" /\ Refusal(size) \in Errors
          BY <3>1 DEF SubmitRefused, Refusal, Errors
        <5>3. Ticket(size, arg, TRUE, Refusal(size)) \in TicketType
          BY <5>2, Facts DEF Ticket, TicketType, Args
        <5>4. tickets'[n] = Ticket(size, arg, TRUE, Refusal(size))
          BY <1>2, <5>1, <5>3, Appended
        <5>5. error = Refusal(size)
          BY <1>4, <1>5, <5>4 DEF Ticket
        <5>6. applied' = applied
          BY <3>1 DEF SubmitRefused, writerVars
        <5> QED
          BY <5>2, <5>5, <5>6
      <4> QED
        BY <1>14, <4>1
    <3>2. CASE SubmitUncopied(size, arg)
      <4>1. error # "none" /\ applied' = applied
        <5>1. tickets' = Append(tickets, Ticket(size, arg, TRUE, "copy"))
          BY <3>2 DEF SubmitUncopied
        <5>3. Ticket(size, arg, TRUE, "copy") \in TicketType
          BY Facts DEF Ticket, TicketType, Args, Errors
        <5>4. tickets'[n] = Ticket(size, arg, TRUE, "copy")
          BY <1>2, <5>1, <5>3, Appended
        <5>5. error = "copy"
          BY <1>4, <1>5, <5>4 DEF Ticket
        <5>6. applied' = applied
          BY <3>2 DEF SubmitUncopied, writerVars
        <5> QED
          BY <5>5, <5>6
      <4> QED
        BY <1>14, <4>1
    <3>3. CASE SubmitQueued(size, arg)
      <4>1. n \in Queued'
        <5>1. requests' = Append(requests, n) /\ n \in Nat /\ n # Stop
          BY <1>2, <3>3 DEF SubmitQueued, Stop
        <5>2. ToSet(requests') = ToSet(requests) \cup {n}
          BY <5>1, TypeFacts, AppendAt DEF IInv
        <5> QED
          BY <5>1, <5>2 DEF Queued
      <4>2. n \notin Queued
        BY <1>5, Facts DEF IInv, Accounted
      <4> QED
        BY <1>8, <1>14, <4>1, <4>2
    <3> QED
      BY <1>1, <3>1, <3>2, <3>3
  <2>2. writer = "absent" /\ applied' = Append(applied, n)
    <3> DEFINE verdict == IF ~Resolves(arg) THEN "dependency" ELSE e
    <3>1. /\ tickets' = Append(tickets, Ticket(size, arg, TRUE, verdict))
          /\ verdict \in Errors \cup {"none"} /\ writer = "absent"
          /\ applied' = IF verdict = "none" \/ (verdict = "write" /\ effect)
                        THEN Append(applied, n) ELSE applied
      BY <1>2, <2>1 DEF SubmitInline, Errors, Threaded
    <3> HIDE DEF verdict
    <3>2. Ticket(size, arg, TRUE, verdict) \in TicketType
      BY <3>1, Facts DEF Ticket, TicketType, Args
    <3>3. tickets'[n] = Ticket(size, arg, TRUE, verdict)
      BY <1>2, <3>1, <3>2, Appended
    <3>4. verdict = error
      BY <1>4, <1>5, <3>3 DEF Ticket
    <3> QED
      BY <1>14, <3>1, <3>4
  <2>3. \A v \in 1 .. MaxSubmits : StateOf(v) \in {"new", "ok", "failed"}
    <3>1. requests = <<>> /\ completions = <<>> /\ hand = 0
      BY <2>2 DEF IInv, WriterHolds
    <3>2. Undrained = {}
      BY <3>1 DEF IInv, Accounted, Queued, Held, Finished, ToSet
    <3>3. \A v \in 1 .. MaxSubmits : Placed(v)
      BY EachPlaced DEF AllPlaced
    <3> QED
      BY <3>2, <3>3 DEF Placed
  <2>4. Log!Immediate(n)
    <3>1. to \in {"ok", "failed"}
      BY <1>14
    <3> QED
      BY <1>2, <1>10, <1>11, <2>2, <2>3, <3>1 DEF Log!Immediate, Log!Writes
  <2> QED
    BY <1>2, <2>4 DEF LogStep, Log!LogNext, Log!Writes
<1> QED
  BY <1>12, <1>13, <1>14

LEMMA Stutters ==
  ASSUME \A s \in 1 .. MaxSubmits : StateOf(s)' = StateOf(s), applied' = applied,
         (cutoff = "past")' = (cutoff = "past")
  PROVE  UNCHANGED Log!logVars
BY DEF Log!logVars

\* The finished call the owner takes is the oldest without an answer.
LEMMA DrainMaps == ASSUME IInv, IInv', DrainOne PROVE LogStep
PROOF
<1> DEFINE c == Head(completions)
<1>1. PICK s \in Nat, error \in Errors \cup {"none"} : c = [seq |-> s, error |-> error]
  <2>1. c \in CompletionType
    BY TypeFacts, TailAt DEF IInv, DrainOne
  <2> QED
    BY <2>1 DEF CompletionType
<1>2. /\ tickets' = [tickets EXCEPT ![s].done = TRUE, ![s].error = error]
      /\ completions' = Tail(completions) /\ completions # <<>>
      /\ UNCHANGED <<requests, cutoff, applied, writer, hand>>
  <2>1. /\ tickets' = [tickets EXCEPT ![c.seq].done = TRUE, ![c.seq].error = c.error]
        /\ completions' = Tail(completions) /\ completions # <<>>
        /\ UNCHANGED <<requests, cutoff, applied, writer, hand>>
    BY DEF DrainOne, writerVars
  <2>2. c.seq = s /\ c.error = error
    BY <1>1
  <2> HIDE DEF c
  <2> QED
    BY <2>1, <2>2
<1>3. /\ Len(completions) \in Nat \ {0}
      /\ DOMAIN completions' = 1 .. Len(completions) - 1
      /\ DOMAIN completions = 1 .. Len(completions)
      /\ \A i \in 1 .. Len(completions) - 1 : completions'[i] = completions[i + 1]
      /\ completions[1] = [seq |-> s, error |-> error]
  BY <1>1, <1>2, TypeFacts, TailAt DEF IInv
<1>4. \A i \in 1 .. Len(completions) - 1 : i + 1 \in DOMAIN completions /\ s < completions[i + 1].seq
  <2>1. TAKE i \in 1 .. Len(completions) - 1
  <2>2. 1 \in DOMAIN completions /\ i + 1 \in DOMAIN completions /\ 1 < i + 1
    BY <1>3
  <2>3. completions[1].seq < completions[i + 1].seq
    BY <2>2 DEF IInv, Order
  <2> QED
    BY <1>3, <2>2, <2>3
<1>5. \A i \in DOMAIN completions : i = 1 \/ (i - 1 \in 1 .. Len(completions) - 1 /\ (i - 1) + 1 = i)
  BY <1>3
<1>6. 1 \in DOMAIN completions
  BY <1>3
<1>7. /\ s \in Finished /\ s \notin Finished'
      /\ \A v : v # s => (v \in Finished' <=> v \in Finished) /\ (Good(v)' <=> Good(v))
      /\ Good(s) <=> error = "none"
  <2>1. s \in Finished
    BY <1>3, <1>6 DEF Finished
  <2>2. s \notin Finished'
    BY <1>1, <1>3, <1>4 DEF Finished
  <2>3. ASSUME NEW v, v # s PROVE v \in Finished' <=> v \in Finished
    <3>1. v \in Finished' => v \in Finished
      BY SMTT(30), <1>3, <1>4 DEF Finished
    <3>2. v \in Finished => v \in Finished'
      BY <1>3, <1>5, <2>3 DEF Finished
    <3> QED
      BY <3>1, <3>2
  <2>4. ASSUME NEW v, v # s PROVE Good(v)' <=> Good(v)
    <3>1. Good(v)' => Good(v)
      BY <1>3, <1>4 DEF Good
    <3>2. Good(v) => Good(v)'
      <4>1. SUFFICES ASSUME NEW i \in DOMAIN completions,
                            completions[i] = [seq |-> v, error |-> "none"]
                     PROVE  Good(v)'
        BY DEF Good
      <4>2. i # 1
        BY <1>3, <2>4, <4>1
      <4>3. i - 1 \in DOMAIN completions' /\ completions'[i - 1] = completions[i]
        BY <1>3, <1>5, <4>2
      <4> QED
        BY <4>1, <4>3 DEF Good
    <3> QED
      BY <3>1, <3>2
  <2>5. Good(s) <=> error = "none"
    <3>1. error = "none" => Good(s)
      BY <1>3, <1>6 DEF Good
    <3>2. Good(s) => error = "none"
      <4>1. SUFFICES ASSUME NEW i \in DOMAIN completions,
                            completions[i] = [seq |-> s, error |-> "none"]
                     PROVE  error = "none"
        BY DEF Good
      <4>2. i = 1
        <5>1. i # 1 => s < completions[i].seq
          BY <1>4, <1>5
        <5> QED
          BY <1>1, <4>1, <5>1
      <4> QED
        BY <1>3, <4>1, <4>2
    <3> QED
      BY <3>1, <3>2
  <2> QED
    BY <2>1, <2>2, <2>3, <2>4, <2>5
<1>8. Queued' = Queued /\ Held' = Held
  BY <1>2 DEF Queued, Held
<1>9. s \in Undrained /\ s \in Seqs /\ s \in 1 .. MaxSubmits /\ Seqs \subseteq 1 .. MaxSubmits
  <2>1. s \in Undrained /\ s \in Seqs
    BY <1>7, Facts DEF IInv, Accounted
  <2>2. Len(tickets) <= MaxSubmits
    BY DEF IInv, TypeOK
  <2> QED
    BY <2>1, <2>2, Facts, JournalAssumption
<1>10. /\ Seqs' = Seqs /\ tickets'[s].error = error
       /\ \A v \in Seqs : v # s => tickets'[v] = tickets[v]
  <2>1. tickets \in Seq(TicketType) /\ s \in 1 .. Len(tickets) /\ tickets[s] \in TicketType
    BY <1>9, Facts, TypeFacts DEF IInv
  <2>2. DOMAIN tickets = 1 .. Len(tickets) /\ Len(tickets') = Len(tickets)
    BY <1>2, <2>1
  <2>3. tickets'[s].error = error
    BY <1>2, <2>1, <2>2 DEF TicketType
  <2> QED
    BY <1>2, <2>2, <2>3 DEF Seqs
<1> DEFINE to == IF error = "none" THEN "ok" ELSE "failed"
<1>11. s \in Seqs' \ Undrained'
  <2>1. s \notin Queued \cup Held
    BY <1>7, <1>9, EachPlaced DEF AllPlaced, Placed
  <2> QED
    BY <1>7, <1>8, <1>9, <1>10, <2>1 DEF IInv, Accounted
<1>12. \A v \in 1 .. MaxSubmits : StateOf(v)' = IF v = s THEN to ELSE StateOf(v)
  <2>1. TAKE v \in 1 .. MaxSubmits
  <2>2. CASE v = s
    <3>1. Placed(s)'
      BY <1>9, EachPlacedNext DEF AllPlaced
    <3> QED
      BY <1>10, <1>11, <2>2, <3>1 DEF Placed
  <2>3. CASE v # s
    BY <1>2, <1>7, <1>8, <1>10, <2>3, SamePlace
  <2> QED
    BY <2>2, <2>3
<1>13. StateOf(s) = IF error = "none" THEN "written" ELSE "lost"
  BY <1>7, <1>9, EachPlaced DEF AllPlaced, Placed
<1>14. \A v \in 1 .. MaxSubmits : v < s => StateOf(v) \in {"ok", "failed"}
  <2>1. SUFFICES ASSUME NEW v \in 1 .. MaxSubmits, v < s PROVE StateOf(v) \in {"ok", "failed"}
    OBVIOUS
  <2>2. v \in Seqs
    BY <1>9, <2>1, Facts
  <2>3. v \notin Finished
    <3>1. SUFFICES ASSUME NEW i \in DOMAIN completions, completions[i].seq = v PROVE FALSE
      BY DEF Finished
    <3>2. i = 1 \/ s < completions[i].seq
      BY <1>4, <1>5
    <3>3. i # 1
      BY <1>3, <2>1, <3>1
    <3> QED
      BY <1>1, <2>1, <3>1, <3>2, <3>3
  <2>4. v \notin Held \cup Queued
    <3>1. \A u \in Held \cup Queued : completions[1].seq < u
      BY <1>6 DEF IInv, Order
    <3> QED
      BY <1>1, <1>3, <2>1, <3>1
  <2>5. v \in Seqs \ Undrained
    BY <2>2, <2>3, <2>4 DEF IInv, Accounted
  <2> QED
    BY <2>5, EachPlaced DEF AllPlaced, Placed
<1>15. Log!Oldest(s, {"waiting", "running", "written", "lost"})
  BY <1>9, <1>13, <1>14 DEF Log!Oldest, Log!Writes
<1>16. Log!Answer(s)
  <2>1. Log!Move(s, to)
    BY <1>9, <1>12, MoveMaps
  <2> QED
    BY <1>2, <1>9, <1>13, <1>15, <2>1 DEF Log!Answer, Log!Writes
<1> QED
  BY <1>9, <1>16 DEF LogStep, Log!LogNext, Log!Writes

\* Nobody sees which of the waiting writes is in the writer's hand.
LEMMA TakeMaps == ASSUME IInv, IInv', Take PROVE LogStep
PROOF
<1> DEFINE h == Head(requests)
<1>1. /\ writer = "get" /\ requests # <<>> /\ requests' = Tail(requests) /\ hand = 0
      /\ UNCHANGED <<tickets, completions, applied, cutoff>>
  BY DEF Take, ownerVars, IInv, WriterHolds
<1>2. /\ h \in Nat /\ ToSet(requests) = ToSet(requests') \cup {h}
  BY <1>1, TypeFacts, TailAt DEF IInv
<1>3. \/ h = Stop /\ writer' = "exited" /\ hand' = 0
      \/ h # Stop /\ writer' = "check" /\ hand' = h
  BY <1>1 DEF Take
<1>4. /\ Seqs' = Seqs /\ Undrained' = Undrained /\ Finished' = Finished /\ Held = {}
      /\ \A s : Good(s)' <=> Good(s)
  BY <1>1 DEF Seqs, Undrained, Finished, Held, Good
<1>5. Held' \cup Queued' = Queued
  BY <1>2, <1>3 DEF Held, Queued, Stop
<1>6. \A s \in 1 .. MaxSubmits : StateOf(s)' = StateOf(s)
  <2>1. TAKE s \in 1 .. MaxSubmits
  <2>2. Placed(s) /\ Placed(s)'
    BY EachPlaced, EachPlacedNext DEF AllPlaced
  <2>3. Undrained = Queued \cup Held \cup Finished
    BY DEF IInv, Accounted
  <2>4. writer' \notin {"begin", "inside"}
    BY <1>3
  <2>5. CASE s \in Queued
    <3>1. StateOf(s) = "waiting"
      BY <2>2, <2>5 DEF Placed
    <3>2. StateOf(s)' = "waiting"
      BY <1>5, <2>2, <2>4, <2>5 DEF Placed
    <3> QED
      BY <3>1, <3>2
  <2>6. CASE s \notin Queued
    <3>1. s \notin Held' /\ s \notin Queued' /\ s \notin Held
      BY <1>4, <1>5, <2>6
    <3> QED
      BY <1>1, <1>4, <2>6, <3>1, SamePlace
  <2> QED
    BY <2>5, <2>6
<1> QED
  BY <1>1, <1>6, Stutters DEF LogStep

\* The call in the writer's hand is the oldest that waits.
LEMMA HandIsOldest ==
  ASSUME IInv, NEW w, w = hand, w # 0
  PROVE  /\ w \in 1 .. MaxSubmits /\ w \in Held /\ w \in Seqs /\ w \notin Finished
         /\ Placed(w) /\ StateOf(w) = IF writer \in {"begin", "inside"} THEN "running" ELSE "waiting"
         /\ Log!Oldest(w, {"waiting", "running"})
PROOF
<1>1. w \in 1 .. MaxSubmits /\ w \in Held /\ w \in Seqs
  <2>1. Len(tickets) <= MaxSubmits /\ w \in 0 .. Len(tickets)
    BY DEF IInv, TypeOK
  <2> QED
    BY <2>1, Facts, JournalAssumption DEF Held
<1>2. Placed(w)
  BY <1>1, EachPlaced DEF AllPlaced
<1>3. StateOf(w) = IF writer \in {"begin", "inside"} THEN "running" ELSE "waiting"
  BY <1>1, <1>2 DEF Placed
<1>4. w \notin Finished
  BY <1>1, <1>2 DEF Placed
<1>5. \A v \in 1 .. MaxSubmits : v < w => StateOf(v) \notin {"waiting", "running"}
  <2>1. SUFFICES ASSUME NEW v \in 1 .. MaxSubmits, v < w
                 PROVE  StateOf(v) \notin {"waiting", "running"}
    OBVIOUS
  <2>2. Placed(v) /\ v \in Seqs
    BY <1>1, <2>1, EachPlaced, Facts DEF AllPlaced
  <2>3. v \notin Held
    BY <1>1, <2>1 DEF Held
  <2>4. v \notin Queued
    <3>1. \A s \in Queued : w < s
      BY DEF IInv, Order
    <3> QED
      BY <1>1, <2>1, <3>1
  <2>5. Undrained = Queued \cup Held \cup Finished
    BY DEF IInv, Accounted
  <2> QED
    BY <2>2, <2>3, <2>4, <2>5 DEF Placed
<1>6. Log!Oldest(w, {"waiting", "running"})
  BY <1>1, <1>3, <1>5 DEF Log!Oldest, Log!Writes
<1> QED
  BY <1>1, <1>2, <1>3, <1>4, <1>6

\* The writer takes the call up, or begins it.
LEMMA TakenUpMaps ==
  ASSUME IInv, IInv', \/ CheckCutoff /\ ~CutOff
                      \/ Begin /\ Resolves(tickets[hand].arg)
  PROVE  LogStep
PROOF
<1>1. UNCHANGED <<tickets, requests, completions, hand, applied, cutoff>>
  BY DEF CheckCutoff, Begin, ownerVars
<1>2. \/ writer = "check" /\ writer' = "begin" /\ cutoff # "past"
      \/ writer = "begin" /\ writer' = "inside"
  BY DEF CheckCutoff, Begin, CutOff
<1>3. PICK w : w = hand
  OBVIOUS
<1>4. w # 0 /\ w = hand'
  BY <1>1, <1>2, <1>3 DEF IInv, WriterHolds
<1>5. /\ w \in 1 .. MaxSubmits /\ w \in Held
      /\ StateOf(w) = IF writer = "begin" THEN "running" ELSE "waiting"
      /\ Log!Oldest(w, {"waiting", "running"})
  BY <1>2, <1>3, <1>4, HandIsOldest
<1>6. /\ Seqs' = Seqs /\ Finished' = Finished /\ Held' = Held /\ Queued' = Queued
      /\ \A s : Good(s)' <=> Good(s)
  BY <1>1 DEF Seqs, Finished, Held, Queued, Good
<1>7. \A s \in 1 .. MaxSubmits : StateOf(s)' = IF s = w THEN "running" ELSE StateOf(s)
  <2>1. TAKE s \in 1 .. MaxSubmits
  <2>2. CASE s = w
    <3>1. Placed(w)'
      BY <1>5, EachPlacedNext DEF AllPlaced
    <3> QED
      BY <1>2, <1>5, <1>6, <2>2, <3>1 DEF Placed
  <2>3. CASE s # w
    <3>1. s \notin Held
      BY <1>3, <2>3 DEF Held
    <3>2. (s \in Held => (writer' \in {"begin", "inside"} <=> writer \in {"begin", "inside"}))
          /\ (s \in Seqs => tickets'[s].error = tickets[s].error)
      BY <1>1, <3>1
    <3>3. /\ (s \in Seqs' <=> s \in Seqs) /\ (s \in Finished' <=> s \in Finished)
          /\ (s \in Held' <=> s \in Held) /\ (s \in Queued' <=> s \in Queued)
          /\ (Good(s)' <=> Good(s))
      BY <1>6
    <3>4. StateOf(s)' = StateOf(s)
      BY <3>2, <3>3, SamePlace
    <3> QED
      BY <2>3, <3>4
  <2> QED
    BY <2>2, <2>3
<1>8. CASE writer = "check"
  <2>1. Log!Move(w, "running")
    BY <1>5, <1>7, MoveMaps
  <2>2. Log!TakeUp(w)
    BY <1>1, <1>2, <1>5, <1>8, <2>1 DEF Log!TakeUp, Log!Writes
  <2> QED
    BY <1>5, <2>2 DEF LogStep, Log!LogNext, Log!Writes
<1>9. CASE writer = "begin"
  <2>1. \A s \in 1 .. MaxSubmits : StateOf(s)' = StateOf(s)
    BY <1>5, <1>7, <1>9
  <2> QED
    BY <1>1, <2>1, Stutters DEF LogStep
<1> QED
  BY <1>2, <1>8, <1>9

\* The call leaves the writer's hand for the finished ones.
LEMMA CompletedPlaces ==
  ASSUME IInv, IInv', NEW w, w = hand, w # 0, hand' = 0, NEW error \in Errors \cup {"none"},
         Completed(error), UNCHANGED <<tickets, requests>>
  PROVE  Log!Move(w, IF error = "none" THEN "written" ELSE "lost")
PROOF
<1> DEFINE c == [seq |-> w, error |-> error]
           to == IF error = "none" THEN "written" ELSE "lost"
<1>1. /\ w \in 1 .. MaxSubmits /\ w \in Held /\ w \in Seqs /\ w \notin Finished
  BY HandIsOldest
<1>2. c \in CompletionType /\ c.seq = w /\ c.error = error
  BY <1>1 DEF CompletionType
<1>3. /\ Len(completions) \in Nat
      /\ DOMAIN completions = 1 .. Len(completions)
      /\ DOMAIN completions' = 1 .. Len(completions) + 1
      /\ \A i \in 1 .. Len(completions) + 1 :
           completions'[i] = IF i = Len(completions) + 1 THEN c ELSE completions[i]
  <2>1. completions' = Append(completions, c)
    BY DEF Completed
  <2> HIDE DEF c
  <2> QED
    BY <1>2, <2>1, TypeFacts, AppendAt DEF IInv
<1>4. Len(completions) + 1 \in DOMAIN completions' /\ completions'[Len(completions) + 1] = c
  BY <1>3
<1>5. \A i \in DOMAIN completions : i \in DOMAIN completions' /\ completions'[i] = completions[i]
  BY <1>3
<1>6. \A i \in DOMAIN completions' :
        (i \in DOMAIN completions /\ completions'[i] = completions[i]) \/ completions'[i] = c
  BY <1>3
<1>7. \A i \in DOMAIN completions : completions[i].seq # w
  BY <1>1 DEF Finished
<1>8. w \in Finished' /\ \A s : s # w => (s \in Finished' <=> s \in Finished)
  <2>1. w \in Finished'
    BY <1>2, <1>4 DEF Finished
  <2>2. ASSUME NEW s, s # w PROVE s \in Finished' <=> s \in Finished
    <3>1. s \in Finished => s \in Finished'
      BY <1>5 DEF Finished
    <3>2. s \in Finished' => s \in Finished
      BY <1>2, <1>6, <2>2 DEF Finished
    <3> QED
      BY <3>1, <3>2
  <2> QED
    BY <2>1, <2>2
<1>9. (Good(w)' <=> error = "none") /\ \A s : s # w => (Good(s)' <=> Good(s))
  <2>1. error = "none" => Good(w)'
    BY <1>4 DEF Good
  <2>2. Good(w)' => error = "none"
    <3>1. SUFFICES ASSUME NEW i \in DOMAIN completions',
                          completions'[i] = [seq |-> w, error |-> "none"]
                   PROVE  error = "none"
      BY DEF Good
    <3>2. completions'[i].seq = w /\ completions'[i].error = "none"
      BY <3>1
    <3> QED
      BY <1>2, <1>6, <1>7, <3>2
  <2>3. ASSUME NEW s, s # w PROVE Good(s)' <=> Good(s)
    <3>1. Good(s) => Good(s)'
      BY <1>5 DEF Good
    <3>2. Good(s)' => Good(s)
      <4>1. SUFFICES ASSUME NEW i \in DOMAIN completions',
                            completions'[i] = [seq |-> s, error |-> "none"]
                     PROVE  Good(s)
        BY DEF Good
      <4>2. completions'[i].seq = s
        BY <4>1
      <4>3. i \in DOMAIN completions /\ completions'[i] = completions[i]
        BY <1>2, <1>6, <2>3, <4>2
      <4> QED
        BY <4>1, <4>3 DEF Good
    <3> QED
      BY <3>1, <3>2
  <2> QED
    BY <2>1, <2>2, <2>3
<1>10. Seqs' = Seqs /\ Queued' = Queued /\ Held = {w} /\ Held' = {}
  BY DEF Seqs, Queued, Held
<1>11. \A s \in 1 .. MaxSubmits : StateOf(s)' = IF s = w THEN to ELSE StateOf(s)
  <2>1. TAKE s \in 1 .. MaxSubmits
  <2>2. CASE s = w
    <3>1. Placed(w)'
      BY <1>1, EachPlacedNext DEF AllPlaced
    <3> QED
      BY <1>8, <1>9, <2>2, <3>1 DEF Placed
  <2>3. CASE s # w
    BY <1>8, <1>9, <1>10, <2>3, SamePlace
  <2> QED
    BY <2>2, <2>3
<1> QED
  BY <1>1, <1>11, MoveMaps

LEMMA DoneMaps ==
  ASSUME IInv, IInv', \/ CheckCutoff /\ CutOff
                      \/ Begin /\ ~Resolves(tickets[hand].arg)
                      \/ Returns
  PROVE  LogStep
PROOF
<1>1. UNCHANGED <<tickets, requests, cutoff>> /\ writer \in {"check", "begin", "inside"} /\ hand' = 0
  BY DEF CheckCutoff, Begin, Returns, CallReturns, ownerVars
<1>2. PICK w : w = hand
  OBVIOUS
<1>3. w # 0
  BY <1>1, <1>2 DEF IInv, WriterHolds
<1>4. /\ w \in 1 .. MaxSubmits
      /\ StateOf(w) = IF writer \in {"begin", "inside"} THEN "running" ELSE "waiting"
      /\ Log!Oldest(w, {"waiting", "running"})
  BY <1>2, <1>3, HandIsOldest
<1>5. (cutoff = "past")' = (cutoff = "past")
  BY <1>1
<1>6. CASE CheckCutoff /\ CutOff
  <2>1. Completed("closed") /\ applied' = applied /\ writer = "check" /\ cutoff = "past"
    BY <1>6 DEF CheckCutoff, CutOff
  <2>2. "closed" \in Errors \cup {"none"}
    BY DEF Errors
  <2>3. Log!Move(w, "lost")
    BY <1>1, <1>2, <1>3, <2>1, <2>2, CompletedPlaces
  <2>4. Log!Skip(w)
    BY <1>4, <1>5, <2>1, <2>3 DEF Log!Skip, Log!Writes
  <2> QED
    BY <1>4, <2>4 DEF LogStep, Log!LogNext, Log!Writes
<1>7. CASE Begin /\ ~Resolves(tickets[hand].arg)
  <2>1. Completed("dependency") /\ applied' = applied /\ writer = "begin"
    BY <1>7 DEF Begin
  <2>2. "dependency" \in Errors \cup {"none"}
    BY DEF Errors
  <2>3. Log!Move(w, "lost")
    BY <1>1, <1>2, <1>3, <2>1, <2>2, CompletedPlaces
  <2>4. Log!Return(w)
    BY <1>4, <1>5, <2>1, <2>3 DEF Log!Return, Log!Writes
  <2> QED
    BY <1>4, <2>4 DEF LogStep, Log!LogNext, Log!Writes
<1>8. CASE Returns
  <2>1. PICK error \in {"none", "write"}, effect \in BOOLEAN : CallReturns(error, effect)
    BY <1>8 DEF Returns
  <2>2. /\ Completed(error) /\ writer = "inside"
        /\ applied' = IF error = "none" \/ effect THEN Append(applied, w) ELSE applied
    BY <1>2, <2>1 DEF CallReturns
  <2>3. error \in Errors \cup {"none"}
    BY DEF Errors
  <2>4. Log!Move(w, IF error = "none" THEN "written" ELSE "lost")
    BY <1>1, <1>2, <1>3, <2>2, <2>3, CompletedPlaces
  <2>5. Log!Return(w)
    BY <1>4, <1>5, <2>2, <2>4 DEF Log!Return, Log!Writes
  <2> QED
    BY <1>4, <2>5 DEF LogStep, Log!LogNext, Log!Writes
<1> QED
  BY <1>6, <1>7, <1>8

\* What is left moves no write; the log is cut when the bound passes.
LEMMA StillMaps ==
  ASSUME IInv, IInv',
         \/ DrainBegin \/ DrainEnd \/ Joined \/ CloseEnd \/ BoundPasses \/ UNCHANGED vars
         \/ \E bound \in {"ahead", "past"} : CloseBegin(bound)
  PROVE  LogStep
PROOF
<1>1. UNCHANGED <<tickets, completions, hand, applied, writer>>
  BY DEF DrainBegin, DrainEnd, Joined, CloseEnd, BoundPasses, vars, CloseBegin, writerVars
<1>2. Queued' = Queued
  <2>1. CASE requests' = requests
    BY <2>1 DEF Queued
  <2>2. CASE requests' = Append(requests, Stop)
    <3>1. requests \in Seq(Nat) /\ Stop \in Nat
      BY TypeFacts DEF IInv, Stop
    <3>2. ToSet(requests') = ToSet(requests) \cup {Stop}
      BY <2>2, <3>1, AppendAt
    <3> QED
      BY <3>2 DEF Queued
  <2> QED
    BY <2>1, <2>2 DEF DrainBegin, DrainEnd, Joined, CloseEnd, BoundPasses, vars, CloseBegin
<1>3. /\ Seqs' = Seqs /\ Finished' = Finished /\ Held' = Held /\ \A s : Good(s)' <=> Good(s)
  BY <1>1 DEF Seqs, Finished, Held, Good
<1>4. \A s \in 1 .. MaxSubmits : StateOf(s)' = StateOf(s)
  BY <1>1, <1>2, <1>3, SamePlace
<1>5. CASE cutoff' = "past"
  <2>1. Log!Cut
    BY <1>1, <1>4, <1>5 DEF Log!Cut
  <2> QED
    BY <2>1 DEF LogStep, Log!LogNext
<1>6. CASE cutoff' # "past"
  <2>1. cutoff # "past"
    <3>1. cutoff = "past" => Closed
      BY DEF IInv, WriterHolds
    <3> QED
      BY <1>6, <3>1
         DEF DrainBegin, DrainEnd, Joined, CloseEnd, BoundPasses, vars, CloseBegin, Closed
  <2>2. (cutoff = "past")' = (cutoff = "past")
    BY <1>6, <2>1
  <2> QED
    BY <1>1, <1>4, <2>2, Stutters DEF LogStep
<1> QED
  BY <1>5, <1>6

LEMMA InitMaps == Init => Log!LogInit
PROOF
<1> SUFFICES ASSUME Init PROVE Log!LogInit
  OBVIOUS
<1>1. Len(tickets) = 0
  BY DEF Init
<1>2. \A s \in 1 .. MaxSubmits : StateOf(s) = "new"
  BY <1>1, JournalAssumption DEF StateOf
<1> QED
  BY <1>2 DEF Init, Log!LogInit, Log!Writes

LEMMA NextMaps == IInv /\ IInv' /\ [Next]_vars => [Log!LogNext]_(Log!logVars)
PROOF
<1> SUFFICES ASSUME IInv, IInv', [Next]_vars PROVE LogStep
  BY DEF LogStep
<1>1. CASE Submit
  BY <1>1, SubmitMaps
<1>2. CASE Owner
  BY <1>2, DrainMaps, StillMaps DEF Owner
<1>3. ASSUME NEW bound \in {"ahead", "past"}, CloseBegin(bound) PROVE LogStep
  BY <1>3, StillMaps
<1>4. CASE BoundPasses \/ UNCHANGED vars
  BY <1>4, StillMaps
<1>5. CASE Writer
  BY <1>5, TakeMaps, TakenUpMaps, DoneMaps DEF Writer
<1>6. CASE Returns
  BY <1>6, DoneMaps
<1> QED
  BY <1>1, <1>2, <1>3, <1>4, <1>5, <1>6 DEF Next

\* For any number and size of writes and any bounds the journal implements DurableLog:
\* the writes take effect one at a time in the order they were submitted, each is
\* answered once and in that order, and none is taken up past the bound of close().
THEOREM JournalKeepsLog == Spec => KeepsLog
BY InitMaps, NextMaps, JournalInvariant, PTL DEF Spec, KeepsLog, Log!LogSpec
=============================================================================
