------------------------------ MODULE JobsProofs ------------------------------
(***************************************************************************)
(* Proofs about Jobs for any number of calls, every finite set of units    *)
(* and any number of jobs of other clients.                                *)
(***************************************************************************)
EXTENDS Jobs, FiniteSetTheorems, SequenceTheorems, TLAPS

\* The units that a call has yet to queue, and those it still waits for.
ToQueue(c) == Range(call[c].todo)

Awaited(c) == Range(call[c].pending)

Received(c) == call[c].units \ (ToQueue(c) \cup Awaited(c))

\* The manager has not handled a request of c for u.
Unasked(c, u) ==
  \/ u \notin call[c].units
  \/ u \in ToQueue(c) /\ ~(u = Head(call[c].todo) /\ call[c].request = "queued")

\* Every unit is either left to queue, waited for, or its result has been received.
Partition(c) ==
  /\ IsInjective(call[c].todo) /\ IsInjective(call[c].pending)
  /\ ToQueue(c) \cap Awaited(c) = {}
  /\ ToQueue(c) \cup Awaited(c) \subseteq call[c].units
  /\ call[c].request # "none" => call[c].todo # <<>>

\* One request at a time is out, and a job, its result and what was done agree.
ResultTrue(c, u) ==
  /\ <<c, u>> \in wire => call[c].request = "sent" /\ u = Head(call[c].todo)
  /\ Unasked(c, u) => call[c].result[u] = "none" /\ job[u] # c /\ u \notin carried[c]
  /\ job[u] = c => call[c].result[u] = "none" /\ u \notin carried[c]
  /\ call[c].result[u] = "done" => u \in carried[c]
  /\ call[c].result[u] \in {"failed", "canceled"} => u \notin carried[c]

\* What the call has received is all it knows of.
Counted(c) ==
  /\ \A u \in Received(c) : call[c].result[u] # "none"
  /\ call[c].failed <=> \E u \in Received(c) : Bad(call[c].result[u])

NoTrace(c) == \A u \in Units : job[u] # c /\ <<c, u>> \notin wire

Follows(c) ==
  /\ call[c].phase = "new" => call[c] = NotBegun /\ NoTrace(c) /\ carried[c] = {}
  /\ Open(c) => Partition(c) /\ (\A u \in Units : ResultTrue(c, u)) /\ Counted(c)
  /\ call[c].phase \in {"ok", "failed"} =>
       NoTrace(c) /\ (call[c].phase = "ok" <=> carried[c] = call[c].units)

JobsInv == JobsTypeOK /\ \A c \in Calls : Follows(c)

-----------------------------------------------------------------------------
(* Sequences without repetition *)

LEMMA EmptyRange ==
  ASSUME NEW S, NEW s \in Seq(S)
  PROVE  /\ Range(<<>>) = {} /\ IsInjective(<<>>)
         /\ Range(s) = {} <=> s = <<>>
         /\ Range(s) \subseteq S
<1>1. DOMAIN <<>> = {}
  OBVIOUS
<1>2. Range(<<>>) = {} /\ IsInjective(<<>>)
  BY <1>1 DEF Range, IsInjective
<1>3. s # <<>> => 1 \in DOMAIN s
  BY LenProperties, EmptySeq
<1>4. s # <<>> => s[1] \in Range(s)
  BY <1>3 DEF Range
<1>5. Range(s) \subseteq S
  BY LenProperties, ElementOfSeq DEF Range
<1> QED
  BY <1>2, <1>4, <1>5

LEMMA TailDistinct ==
  ASSUME NEW S, NEW s \in Seq(S), s # <<>>, IsInjective(s)
  PROVE  /\ Tail(s) \in Seq(S) /\ IsInjective(Tail(s))
         /\ Head(s) \in Range(s) /\ Head(s) \in S
         /\ Range(Tail(s)) = Range(s) \ {Head(s)}
<1>1. /\ Head(s) \in S /\ Tail(s) \in Seq(S) /\ Len(s) \in Nat \ {0}
      /\ DOMAIN s = 1..Len(s) /\ DOMAIN Tail(s) = 1..(Len(s) - 1)
      /\ \A i \in 1..(Len(s) - 1) : Tail(s)[i] = s[i + 1]
      /\ Head(s) = s[1]
  BY HeadTailProperties, LenProperties, EmptySeq
<1>2. IsInjective(Tail(s))
  <2>1. ASSUME NEW i \in 1..(Len(s) - 1), NEW j \in 1..(Len(s) - 1), Tail(s)[i] = Tail(s)[j]
        PROVE  i = j
    <3>1. i + 1 \in DOMAIN s /\ j + 1 \in DOMAIN s /\ s[i + 1] = s[j + 1]
      BY <1>1, <2>1
    <3>2. i + 1 = j + 1
      BY <3>1 DEF IsInjective
    <3> QED
      BY <1>1, <3>2
  <2> QED
    BY <1>1, <2>1 DEF IsInjective
<1>3. ASSUME NEW i \in DOMAIN s
      PROVE  s[i] = Head(s) \/ s[i] \in Range(Tail(s))
  <2>1. CASE i = 1
    BY <1>1, <2>1
  <2>2. CASE i # 1
    <3>1. i - 1 \in DOMAIN Tail(s) /\ Tail(s)[i - 1] = s[i]
      BY <1>1, <2>2
    <3> QED
      BY <3>1 DEF Range
  <2> QED
    BY <2>1, <2>2
<1>4. ASSUME NEW i \in DOMAIN Tail(s)
      PROVE  Tail(s)[i] \in Range(s) /\ Tail(s)[i] # Head(s)
  <2>1. i + 1 \in DOMAIN s /\ Tail(s)[i] = s[i + 1] /\ 1 \in DOMAIN s /\ i + 1 # 1
    BY <1>1
  <2> QED
    BY <1>1, <2>1 DEF Range, IsInjective
<1>5. Head(s) \in Range(s)
  BY <1>1 DEF Range
<1>6. Range(Tail(s)) = Range(s) \ {Head(s)}
  BY <1>3, <1>4, <1>5 DEF Range
<1> QED
  BY <1>1, <1>2, <1>5, <1>6

LEMMA AppendDistinct ==
  ASSUME NEW S, NEW s \in Seq(S), IsInjective(s), NEW e \in S, e \notin Range(s)
  PROVE  /\ Append(s, e) \in Seq(S) /\ IsInjective(Append(s, e))
         /\ Range(Append(s, e)) = Range(s) \cup {e}
<1>1. /\ Append(s, e) \in Seq(S) /\ Len(s) \in Nat
      /\ DOMAIN s = 1..Len(s) /\ DOMAIN Append(s, e) = 1..(Len(s) + 1)
      /\ \A i \in 1..Len(s) : Append(s, e)[i] = s[i]
      /\ Append(s, e)[Len(s) + 1] = e
  BY AppendProperties, LenProperties
<1>2. \A i \in 1..Len(s) : s[i] # e
  BY <1>1 DEF Range
<1>3. \A i \in 1..(Len(s) + 1) : i \in 1..Len(s) \/ i = Len(s) + 1
  BY <1>1
<1>4. IsInjective(Append(s, e))
  BY <1>1, <1>2, <1>3 DEF IsInjective
<1>5. Range(Append(s, e)) \subseteq Range(s) \cup {e}
  BY <1>1, <1>3 DEF Range
<1>6. ASSUME NEW i \in DOMAIN s
      PROVE  s[i] \in Range(Append(s, e))
  <2>1. i \in DOMAIN Append(s, e) /\ Append(s, e)[i] = s[i]
    BY <1>1
  <2> QED
    BY <2>1 DEF Range
<1>7. e \in Range(Append(s, e))
  <2>1. Len(s) + 1 \in DOMAIN Append(s, e)
    BY <1>1
  <2> QED
    BY <1>1, <2>1 DEF Range
<1>8. Range(s) \subseteq Range(Append(s, e))
  BY <1>6 DEF Range
<1> QED
  BY <1>1, <1>4, <1>5, <1>7, <1>8

\* An enumeration of a set has all of its elements.
LEMMA Enumerated ==
  ASSUME NEW S \in SUBSET Units, NEW s \in SetToSeqs(S)
  PROVE  s \in Seq(S) /\ IsInjective(s) /\ Range(s) = S
<1>1. IsFiniteSet(S)
  BY JobsAssumption, FS_Subset
<1>2. PICK n \in Nat : n = Cardinality(S)
  BY <1>1, FS_CardinalityType
<1>3. s \in [1..n -> S] /\ \A i, j \in 1..n : i # j => s[i] # s[j]
  BY <1>2 DEF SetToSeqs
<1>4. s \in Seq(S)
  BY <1>3, IsASeq
<1>5. IsInjective(s)
  BY <1>3 DEF IsInjective
<1>6. ASSUME NEW u \in S, u \notin Range(s)
      PROVE  FALSE
  <2>1. s \in [1..n -> S \ {u}]
    BY <1>3, <1>6 DEF Range
  <2>2. IsFiniteSet(S \ {u}) /\ Cardinality(S \ {u}) = n - 1
    BY <1>1, <1>2, FS_RemoveElement
  <2>3. IsFiniteSet(1..n) /\ Cardinality(1..n) = n
    BY FS_Interval
  <2>4. Cardinality(S \ {u}) < Cardinality(1..n)
    BY <2>2, <2>3
  <2>5. \E i, j \in 1..n : i # j /\ s[i] = s[j]
    BY <2>1, <2>2, <2>3, <2>4, FS_PigeonHole
  <2> QED
    BY <1>3, <2>5
<1>7. Range(s) \subseteq S
  BY <1>3 DEF Range
<1> QED
  BY <1>4, <1>5, <1>6, <1>7

-----------------------------------------------------------------------------
(* What a step does to a call *)

LEMMA CallType ==
  ASSUME JobsTypeOK, NEW c \in Calls
  PROVE  /\ call[c].phase \in {"new", "open"} \cup Ends
         /\ call[c].units \in SUBSET Units
         /\ call[c].todo \in Seq(Units) /\ call[c].pending \in Seq(Units)
         /\ call[c].request \in {"none", "sent", "queued"}
         /\ call[c].result \in [Units -> Results \cup {"none"}]
         /\ call[c].failed \in BOOLEAN /\ call[c].live \in BOOLEAN
BY DEF JobsTypeOK, Locals

LEMMA NotBegunType == NotBegun \in Locals
<1>1. <<>> \in Seq(Units)
  BY EmptySeq
<1>2. [u \in Units |-> "none"] \in [Units -> Results \cup {"none"}]
  OBVIOUS
<1> QED
  BY <1>1, <1>2 DEF NotBegun, Locals

LEMMA OpenFollowed ==
  ASSUME NEW c \in Calls, Follows(c), Open(c)
  PROVE  /\ Partition(c) /\ (\A u \in Units : ResultTrue(c, u)) /\ Counted(c)
         /\ ~Over(c) /\ call[c].phase # "new"
BY DEF Follows, Open, Over, Ends

\* A call that the step leaves alone, whose jobs and requests only go.
LEMMA Undisturbed ==
  ASSUME NEW c \in Calls, Follows(c), call'[c] = call[c], carried'[c] = carried[c],
         \A u \in Units : (job'[u] = c => job[u] = c) /\ (<<c, u>> \in wire' => <<c, u>> \in wire)
  PROVE  Follows(c)'
<1>1. NoTrace(c) => NoTrace(c)'
  BY DEF NoTrace
<1>2. Partition(c) => Partition(c)'
  BY DEF Partition, ToQueue, Awaited
<1>3. Received(c)' = Received(c) /\ \A u : Unasked(c, u)' <=> Unasked(c, u)
  BY DEF Received, ToQueue, Awaited, Unasked
<1>4. Counted(c) => Counted(c)'
  BY <1>3 DEF Counted
<1>5. \A u \in Units : ResultTrue(c, u) => ResultTrue(c, u)'
  BY <1>3 DEF ResultTrue
<1> QED
  BY <1>1, <1>2, <1>4, <1>5 DEF Follows, Open

\* A call that ends without a word on its jobs.
LEMMA GivenUp ==
  ASSUME NEW c \in Calls, call'[c].phase \in {"refused", "lost", "cancelled"}
  PROVE  Follows(c)'
BY DEF Follows, Open

\* The record of one call is replaced.
LEMMA OneCall ==
  ASSUME JobsTypeOK, NEW c \in Calls, NEW new, call' = [call EXCEPT ![c] = new]
  PROVE  call'[c] = new /\ \A d \in Calls \ {c} : call'[d] = call[d]
BY DEF JobsTypeOK

LEMMA EndType ==
  ASSUME JobsTypeOK, NEW c \in Calls, NEW how \in Ends, End(c, how)
  PROVE  /\ call' \in [Calls -> Locals]
         /\ call'[c].phase = how /\ call'[c].units = call[c].units
         /\ \A d \in Calls \ {c} : call'[d] = call[d]
<1>1. PICK old \in Locals, given \in SUBSET Units : old = NotBegun /\ given = call[c].units
  BY NotBegunType, CallType
<1>2. PICK new : new = [old EXCEPT !.phase = how, !.units = given]
  OBVIOUS
<1>3. new \in Locals /\ new.phase = how /\ new.units = given
  BY <1>2 DEF Locals
<1>4. call' = [call EXCEPT ![c] = new]
  BY <1>1, <1>2 DEF End
<1> QED
  BY <1>1, <1>3, <1>4 DEF JobsTypeOK

\* A step of one call that touches neither the queue nor what was done.
LEMMA OwnStep ==
  ASSUME JobsInv, NEW c \in Calls, call' \in [Calls -> Locals],
         \A d \in Calls \ {c} : call'[d] = call[d],
         UNCHANGED <<wire, job, carried, foreign>>, Follows(c)'
  PROVE  JobsInv'
BY Undisturbed DEF JobsInv, JobsTypeOK

LEMMA BeginStep ==
  ASSUME JobsInv, NEW c \in Calls, Begin(c)
  PROVE  JobsInv'
<1>1. PICK units \in SUBSET Units : \E todo \in SetToSeqs(units) :
        call' = [call EXCEPT ![c] = [call[c] EXCEPT !.phase = "open", !.units = units,
                                                    !.todo = todo, !.pending = Room(todo)]]
  BY DEF Begin
<1>2. PICK todo \in SetToSeqs(units) :
        call' = [call EXCEPT ![c] = [call[c] EXCEPT !.phase = "open", !.units = units,
                                                    !.todo = todo, !.pending = Room(todo)]]
  BY <1>1
<1>3. todo \in Seq(units) /\ todo \in Seq(Units) /\ IsInjective(todo) /\ Range(todo) = units
  BY Enumerated, SeqMonotonic
<1>4. call[c] = NotBegun /\ NoTrace(c) /\ carried[c] = {}
  BY DEF Begin, JobsInv, Follows
<1>5. PICK old \in Locals, empty \in Seq(Units) :
        /\ old = call[c] /\ empty = <<>> /\ old.request = "none" /\ ~old.failed
        /\ old.result = [u \in Units |-> "none"]
  BY <1>4, NotBegunType, EmptySeq DEF NotBegun
<1>6. PICK new : new = [old EXCEPT !.phase = "open", !.units = units, !.todo = todo, !.pending = empty]
  OBVIOUS
<1>7. /\ new \in Locals /\ new.phase = "open" /\ new.units = units /\ new.todo = todo
      /\ new.pending = empty /\ new.request = "none" /\ ~new.failed
      /\ new.result = [u \in Units |-> "none"]
  BY <1>3, <1>5, <1>6 DEF Locals
<1>8. call' = [call EXCEPT ![c] = new]
  BY <1>2, <1>5, <1>6 DEF Room
<1>9. /\ call' \in [Calls -> Locals] /\ call'[c] = new
      /\ \A d \in Calls \ {c} : call'[d] = call[d]
  BY <1>7, <1>8 DEF JobsInv, JobsTypeOK
<1>10. Range(empty) = {} /\ IsInjective(empty)
  BY <1>5, EmptyRange
<1>11. UNCHANGED <<wire, job, carried, foreign>>
  BY DEF Begin
<1>12. Partition(c)'
  BY <1>3, <1>7, <1>9, <1>10 DEF Partition, ToQueue, Awaited
<1>13. ASSUME NEW u \in Units
       PROVE  ResultTrue(c, u)'
  BY <1>4, <1>7, <1>9, <1>11 DEF ResultTrue, NoTrace
<1>14. Received(c)' = {}
  BY <1>3, <1>7, <1>9 DEF Received, ToQueue, Awaited
<1>15. Counted(c)'
  BY <1>7, <1>9, <1>14 DEF Counted
<1>16. Follows(c)'
  BY <1>7, <1>9, <1>12, <1>13, <1>15 DEF Follows, Open
<1> QED
  BY <1>9, <1>11, <1>16, OwnStep

LEMMA SubmitStep ==
  ASSUME JobsInv, NEW c \in Calls, Submit(c)
  PROVE  JobsInv'
<1>1. /\ JobsTypeOK /\ Follows(c) /\ Open(c) /\ call[c].todo # <<>> /\ call[c].request = "none"
      /\ call[c].todo \in Seq(Units)
  BY CallType DEF JobsInv, Submit
<1>2. PICK old \in Locals, head \in Units : old = call[c] /\ head = Head(call[c].todo)
  BY <1>1, HeadTailProperties DEF JobsTypeOK
<1>3. PICK new : new = [old EXCEPT !.request = "sent"]
  OBVIOUS
<1>4. /\ new \in Locals /\ new.phase = old.phase /\ new.units = old.units /\ new.todo = old.todo
      /\ new.pending = old.pending /\ new.request = "sent" /\ new.failed = old.failed
      /\ new.result = old.result
  BY <1>3 DEF Locals
<1>5. call' = [call EXCEPT ![c] = new]
  BY <1>2, <1>3 DEF Submit
<1>6. /\ call' \in [Calls -> Locals] /\ call'[c] = new
      /\ \A d \in Calls \ {c} : call'[d] = call[d]
  BY <1>1, <1>4, <1>5 DEF JobsTypeOK
<1>7. wire' = wire \cup {<<c, head>>} /\ UNCHANGED <<job, carried, foreign>>
  BY <1>2 DEF Submit
<1>8. JobsTypeOK'
  BY <1>1, <1>6, <1>7 DEF JobsTypeOK
<1>9. Partition(c) /\ (\A u \in Units : ResultTrue(c, u)) /\ Counted(c)
  BY <1>1, OpenFollowed
<1>10. ToQueue(c)' = ToQueue(c) /\ Awaited(c)' = Awaited(c) /\ Received(c)' = Received(c)
  BY <1>2, <1>4, <1>6 DEF ToQueue, Awaited, Received
<1>11. Partition(c)' /\ Counted(c)'
  BY <1>1, <1>2, <1>4, <1>6, <1>9, <1>10 DEF Partition, Counted
<1>12. ASSUME NEW u \in Units
       PROVE  ResultTrue(c, u)'
  <2>1. ResultTrue(c, u) /\ <<c, u>> \notin wire
    BY <1>1, <1>9 DEF ResultTrue
  <2>2. Unasked(c, u)' => Unasked(c, u)
    BY <1>1, <1>2, <1>4, <1>6, <1>10 DEF Unasked
  <2>3. <<c, u>> \in wire' => u = head
    BY <1>7, <2>1
  <2> QED
    BY <1>2, <1>4, <1>6, <1>7, <2>1, <2>2, <2>3 DEF ResultTrue
<1>13. Follows(c)'
  BY <1>1, <1>2, <1>4, <1>6, <1>11, <1>12 DEF Follows, Open
<1>14. ASSUME NEW d \in Calls \ {c}
       PROVE  Follows(d)'
  BY <1>6, <1>7, <1>14, Undisturbed DEF JobsInv
<1> QED
  BY <1>8, <1>13, <1>14 DEF JobsInv

LEMMA SubmittedStep ==
  ASSUME JobsInv, NEW c \in Calls, Submitted(c)
  PROVE  JobsInv'
<1>1. JobsTypeOK /\ Follows(c) /\ Open(c) /\ call[c].request = "queued"
  BY DEF JobsInv, Submitted
<1>2. Partition(c) /\ (\A u \in Units : ResultTrue(c, u)) /\ Counted(c)
  BY <1>1, OpenFollowed
<1>3. PICK old \in Locals : old = call[c]
  BY <1>1 DEF JobsTypeOK
<1>4. /\ old.todo \in Seq(Units) /\ old.pending \in Seq(Units) /\ old.todo # <<>>
      /\ IsInjective(old.todo) /\ IsInjective(old.pending)
  BY <1>1, <1>2, <1>3 DEF Partition, Locals
<1>5. PICK head, rest, pending :
        head = Head(old.todo) /\ rest = Tail(old.todo) /\ pending = Append(old.pending, head)
  OBVIOUS
<1>6. /\ head \in Units /\ rest \in Seq(Units) /\ IsInjective(rest)
      /\ head \in ToQueue(c) /\ Range(rest) = ToQueue(c) \ {head}
  BY <1>3, <1>4, <1>5, TailDistinct DEF ToQueue
<1>7. /\ pending \in Seq(Units) /\ IsInjective(pending)
      /\ Range(pending) = Awaited(c) \cup {head}
  <2>1. head \notin Range(old.pending)
    BY <1>2, <1>3, <1>6 DEF Partition, Awaited
  <2> QED
    BY <1>3, <1>4, <1>5, <1>6, <2>1, AppendDistinct DEF Awaited
<1>8. PICK new : new = [old EXCEPT !.todo = rest, !.request = "none", !.pending = pending]
  OBVIOUS
<1>9. /\ new \in Locals /\ new.phase = old.phase /\ new.units = old.units /\ new.todo = rest
      /\ new.pending = pending /\ new.request = "none" /\ new.failed = old.failed
      /\ new.result = old.result
  BY <1>6, <1>7, <1>8 DEF Locals
<1>10. call' = [call EXCEPT ![c] = new]
  BY <1>3, <1>5, <1>8 DEF Submitted
<1>11. /\ call' \in [Calls -> Locals] /\ call'[c] = new
       /\ \A d \in Calls \ {c} : call'[d] = call[d]
  BY <1>1, <1>9, <1>10 DEF JobsTypeOK
<1>12. UNCHANGED <<wire, job, carried, foreign>>
  BY DEF Submitted
<1>13. ToQueue(c)' = ToQueue(c) \ {head} /\ Awaited(c)' = Awaited(c) \cup {head}
  BY <1>6, <1>7, <1>9, <1>11 DEF ToQueue, Awaited
<1>14. Received(c)' = Received(c)
  BY <1>3, <1>6, <1>9, <1>11, <1>13 DEF Received
<1>15. Partition(c)'
  BY <1>2, <1>3, <1>6, <1>7, <1>9, <1>11, <1>13 DEF Partition
<1>16. Counted(c)'
  BY <1>2, <1>3, <1>9, <1>11, <1>14 DEF Counted
<1>17. ASSUME NEW u \in Units
       PROVE  ResultTrue(c, u)'
  <2>1. ResultTrue(c, u) /\ <<c, u>> \notin wire
    BY <1>1, <1>2 DEF ResultTrue
  <2>2. Unasked(c, u)' => Unasked(c, u)
    BY <1>3, <1>5, <1>9, <1>11, <1>13 DEF Unasked
  <2> QED
    BY <1>3, <1>9, <1>11, <1>12, <2>1, <2>2 DEF ResultTrue
<1>18. Follows(c)'
  BY <1>1, <1>3, <1>9, <1>11, <1>15, <1>16, <1>17 DEF Follows, Open
<1> QED
  BY <1>11, <1>12, <1>18, OwnStep

LEMMA ReceiveStep ==
  ASSUME JobsInv, NEW c \in Calls, Receive(c)
  PROVE  JobsInv'
<1>1. /\ JobsTypeOK /\ Follows(c) /\ Open(c) /\ call[c].todo = <<>> /\ call[c].pending # <<>>
      /\ call[c].result[Head(call[c].pending)] # "none"
  BY DEF JobsInv, Receive
<1>2. Partition(c) /\ (\A u \in Units : ResultTrue(c, u)) /\ Counted(c)
  BY <1>1, OpenFollowed
<1>3. PICK old \in Locals : old = call[c]
  BY <1>1 DEF JobsTypeOK
<1>4. old.pending \in Seq(Units) /\ old.pending # <<>> /\ IsInjective(old.pending)
  BY <1>1, <1>2, <1>3 DEF Partition, Locals
<1>5. PICK head, rest : head = Head(old.pending) /\ rest = Tail(old.pending)
  OBVIOUS
<1>6. /\ head \in Units /\ rest \in Seq(Units) /\ IsInjective(rest)
      /\ head \in Awaited(c) /\ Range(rest) = Awaited(c) \ {head}
  BY <1>3, <1>4, <1>5, TailDistinct DEF Awaited
<1>7. PICK bad \in BOOLEAN : bad = (old.failed \/ Bad(old.result[head]))
  BY <1>3 DEF Locals
<1>8. PICK new : new = [old EXCEPT !.pending = rest, !.failed = bad]
  OBVIOUS
<1>9. /\ new \in Locals /\ new.phase = old.phase /\ new.units = old.units /\ new.todo = old.todo
      /\ new.pending = rest /\ new.request = old.request /\ new.failed = bad
      /\ new.result = old.result
  BY <1>6, <1>7, <1>8 DEF Locals
<1>10. call' = [call EXCEPT ![c] = new]
  BY <1>3, <1>5, <1>7, <1>8 DEF Receive
<1>11. /\ call' \in [Calls -> Locals] /\ call'[c] = new
       /\ \A d \in Calls \ {c} : call'[d] = call[d]
  BY <1>1, <1>9, <1>10 DEF JobsTypeOK
<1>12. UNCHANGED <<wire, job, carried, foreign>>
  BY DEF Receive
<1>13. ToQueue(c)' = ToQueue(c) /\ Awaited(c)' = Awaited(c) \ {head}
  BY <1>3, <1>6, <1>9, <1>11 DEF ToQueue, Awaited
<1>14. Received(c)' = Received(c) \cup {head}
  BY <1>2, <1>3, <1>6, <1>9, <1>11, <1>13 DEF Received, Partition
<1>15. Partition(c)'
  BY <1>2, <1>3, <1>6, <1>9, <1>11, <1>13 DEF Partition
<1>16. Counted(c)'
  <2>1. old.result[head] # "none"
    BY <1>1, <1>3, <1>5
  <2>2. \A u \in Received(c)' : call'[c].result[u] # "none"
    BY <1>2, <1>3, <1>9, <1>11, <1>14, <2>1 DEF Counted
  <2>3. call'[c].failed <=> old.failed \/ Bad(old.result[head])
    BY <1>7, <1>9, <1>11
  <2>4. old.failed <=> \E u \in Received(c) : Bad(old.result[u])
    BY <1>2, <1>3 DEF Counted
  <2>5. call'[c].failed <=> \E u \in Received(c)' : Bad(old.result[u])
    BY <1>14, <2>3, <2>4
  <2> QED
    BY <1>9, <1>11, <2>2, <2>5 DEF Counted, Bad
<1>17. ASSUME NEW u \in Units
       PROVE  ResultTrue(c, u)'
  BY <1>2, <1>3, <1>9, <1>11, <1>12, <1>13 DEF ResultTrue, Unasked
<1>18. Follows(c)'
  BY <1>1, <1>3, <1>9, <1>11, <1>15, <1>16, <1>17 DEF Follows, Open
<1> QED
  BY <1>11, <1>12, <1>18, OwnStep

\* A call whose results are all in has its answer right.
LEMMA ReturnStep ==
  ASSUME JobsInv, NEW c \in Calls, Return(c)
  PROVE  JobsInv'
<1>1. /\ JobsTypeOK /\ Follows(c) /\ Open(c) /\ call[c].todo = <<>> /\ call[c].pending = <<>>
      /\ UNCHANGED <<wire, job, carried, foreign>>
  BY DEF JobsInv, Return, Complete
<1>2. Partition(c) /\ (\A u \in Units : ResultTrue(c, u)) /\ Counted(c)
  BY <1>1, OpenFollowed
<1>3. PICK how \in {"ok", "failed"} :
        (how = "ok" <=> ~call[c].failed) /\ End(c, how)
  BY DEF Return
<1>4. /\ call' \in [Calls -> Locals] /\ call'[c].phase = how /\ call'[c].units = call[c].units
      /\ \A d \in Calls \ {c} : call'[d] = call[d]
  BY <1>1, <1>3, EndType DEF Ends
<1>5. Received(c) = call[c].units /\ call[c].units \subseteq Units
  BY <1>1, EmptyRange, CallType DEF Received, ToQueue, Awaited
<1>6. \A u \in call[c].units : call[c].result[u] \in Results
  BY <1>1, <1>2, <1>5, CallType DEF Counted
<1>7. NoTrace(c)
  <2>1. ASSUME NEW u \in Units
        PROVE  job[u] # c /\ <<c, u>> \notin wire
    <3>1. ResultTrue(c, u) /\ call[c].request = "none"
      BY <1>1, <1>2, CallType DEF Partition
    <3>2. CASE u \in call[c].units
      BY <1>6, <3>1, <3>2 DEF ResultTrue, Results
    <3>3. CASE u \notin call[c].units
      BY <3>1, <3>3 DEF ResultTrue, Unasked
    <3> QED
      BY <3>2, <3>3
  <2> QED
    BY <2>1 DEF NoTrace
<1>8. carried[c] \subseteq call[c].units
  BY <1>1, <1>2 DEF JobsTypeOK, ResultTrue, Unasked
<1>9. how = "ok" <=> carried[c] = call[c].units
  <2>1. \A u \in call[c].units : u \in carried[c] <=> ~Bad(call[c].result[u])
    BY <1>2, <1>5, <1>6 DEF ResultTrue, Results, Bad
  <2>2. how = "ok" <=> \A u \in call[c].units : ~Bad(call[c].result[u])
    BY <1>2, <1>3, <1>5 DEF Counted
  <2> QED
    BY <1>8, <2>1, <2>2
<1>10. NoTrace(c)'
  BY <1>1, <1>7 DEF NoTrace
<1>11. Follows(c)'
  BY <1>1, <1>4, <1>9, <1>10 DEF Follows, Open
<1> QED
  BY <1>1, <1>4, <1>11, OwnStep

LEMMA GiveUpStep ==
  ASSUME JobsInv, NEW c \in Calls, SubmitFails(c) \/ Cancel(c)
  PROVE  JobsInv'
<1>1. PICK how \in {"lost", "cancelled"} :
        End(c, how) /\ UNCHANGED <<wire, job, carried, foreign>>
  BY DEF SubmitFails, Cancel
<1>2. /\ call' \in [Calls -> Locals] /\ call'[c].phase = how
      /\ \A d \in Calls \ {c} : call'[d] = call[d]
  BY <1>1, EndType DEF Ends, JobsInv
<1> QED
  BY <1>1, <1>2, GivenUp, OwnStep

LEMMA DisconnectStep ==
  ASSUME JobsInv, NEW c \in Calls, Disconnect(c)
  PROVE  JobsInv'
<1>1. /\ JobsTypeOK /\ Follows(c) /\ Open(c) /\ UNCHANGED <<wire, job, carried, foreign>>
  BY DEF JobsInv, Disconnect
<1>2. Partition(c) /\ (\A u \in Units : ResultTrue(c, u)) /\ Counted(c)
  BY <1>1, OpenFollowed
<1>3. PICK old \in Locals : old = call[c]
  BY <1>1 DEF JobsTypeOK
<1>4. PICK new : new = [old EXCEPT !.live = FALSE]
  OBVIOUS
<1>5. /\ new \in Locals /\ new.phase = old.phase /\ new.units = old.units /\ new.todo = old.todo
      /\ new.pending = old.pending /\ new.request = old.request /\ new.failed = old.failed
      /\ new.result = old.result
  BY <1>4 DEF Locals
<1>6. call' = [call EXCEPT ![c] = new]
  BY <1>3, <1>4 DEF Disconnect
<1>7. /\ call' \in [Calls -> Locals] /\ call'[c] = new
      /\ \A d \in Calls \ {c} : call'[d] = call[d]
  BY <1>1, <1>5, <1>6 DEF JobsTypeOK
<1>8. ToQueue(c)' = ToQueue(c) /\ Awaited(c)' = Awaited(c) /\ Received(c)' = Received(c)
  BY <1>3, <1>5, <1>7 DEF ToQueue, Awaited, Received
<1>9. Partition(c)' /\ Counted(c)'
  BY <1>2, <1>3, <1>5, <1>7, <1>8 DEF Partition, Counted
<1>10. ASSUME NEW u \in Units
       PROVE  ResultTrue(c, u)'
  BY <1>1, <1>2, <1>3, <1>5, <1>7, <1>8 DEF ResultTrue, Unasked
<1>11. Follows(c)'
  BY <1>1, <1>3, <1>5, <1>7, <1>9, <1>10 DEF Follows, Open
<1> QED
  BY <1>1, <1>7, <1>11, OwnStep

-----------------------------------------------------------------------------
(* The manager's steps *)

\* The report of a job changes one result of one call.
LEMMA ReportType ==
  ASSUME JobsTypeOK, NEW u \in Units, NEW r \in Results
  PROVE  /\ Reported(u, r) \in [Calls -> Locals]
         /\ \A c \in Calls :
              LET new == Reported(u, r)[c] IN
              /\ new.phase = call[c].phase /\ new.units = call[c].units
              /\ new.todo = call[c].todo /\ new.pending = call[c].pending
              /\ new.request = call[c].request /\ new.failed = call[c].failed
              /\ \A v \in Units \ {u} : new.result[v] = call[c].result[v]
              /\ job[u] = c /\ Open(c) =>
                   new.result[u] = r \/ new.result[u] = call[c].result[u]
              /\ job[u] # c \/ ~Open(c) => new = call[c]
<1>1. ASSUME NEW c \in Calls
      PROVE  LET new == Reported(u, r)[c] IN
             /\ new \in Locals
             /\ new.phase = call[c].phase /\ new.units = call[c].units
             /\ new.todo = call[c].todo /\ new.pending = call[c].pending
             /\ new.request = call[c].request /\ new.failed = call[c].failed
             /\ \A v \in Units \ {u} : new.result[v] = call[c].result[v]
             /\ job[u] = c /\ Open(c) =>
                  new.result[u] = r \/ new.result[u] = call[c].result[u]
             /\ job[u] # c \/ ~Open(c) => new = call[c]
  <2>1. PICK old \in Locals : old = call[c]
    BY DEF JobsTypeOK
  <2>2. CASE job[u] = c /\ Open(c) /\ call[c].live
    <3>1. PICK result : result = [old.result EXCEPT ![u] = r]
      OBVIOUS
    <3>2. /\ result \in [Units -> Results \cup {"none"}] /\ result[u] = r
          /\ \A v \in Units \ {u} : result[v] = old.result[v]
      BY <3>1 DEF Locals
    <3>3. PICK new : new = [old EXCEPT !.result = result]
      OBVIOUS
    <3>4. /\ new \in Locals /\ new.phase = old.phase /\ new.units = old.units
          /\ new.todo = old.todo /\ new.pending = old.pending
          /\ new.request = old.request /\ new.failed = old.failed /\ new.result = result
      BY <3>2, <3>3 DEF Locals
    <3>5. Reported(u, r)[c] = new
      BY <2>1, <2>2, <3>1, <3>3 DEF Reported
    <3> QED
      BY <2>1, <2>2, <3>2, <3>4, <3>5
  <2>3. CASE ~(job[u] = c /\ Open(c) /\ call[c].live)
    <3>1. Reported(u, r)[c] = old
      BY <2>1, <2>3 DEF Reported
    <3> QED
      BY <2>1, <2>3, <3>1
  <2> QED
    BY <2>2, <2>3
<1>2. DOMAIN Reported(u, r) = Calls /\ Reported(u, r) = [c \in Calls |-> Reported(u, r)[c]]
  BY DEF Reported
<1>3. \A c \in Calls : Reported(u, r)[c] \in Locals
  BY <1>1
<1>4. Reported(u, r) \in [Calls -> Locals]
  BY <1>2, <1>3
<1> HIDE DEF Reported
<1> QED
  BY <1>1, <1>4

\* A call one of whose jobs may have ended.
LEMMA ReportFollowed ==
  ASSUME JobsInv, NEW c \in Calls, NEW u \in Units, NEW r \in Results,
         call'[c] = Reported(u, r)[c], job'[u] # c,
         \A v \in Units \ {u} : job'[v] = c => job[v] = c,
         \A v \in Units : <<c, v>> \in wire' => <<c, v>> \in wire,
         carried'[c] = IF job[u] = c /\ r = "done" THEN carried[c] \cup {u} ELSE carried[c]
  PROVE  Follows(c)'
<1>1. JobsTypeOK /\ Follows(c)
  BY DEF JobsInv
<1>2. PICK new : new = Reported(u, r)[c]
  OBVIOUS
<1>3. /\ new.phase = call[c].phase /\ new.units = call[c].units
      /\ new.todo = call[c].todo /\ new.pending = call[c].pending
      /\ new.request = call[c].request /\ new.failed = call[c].failed
      /\ \A v \in Units \ {u} : new.result[v] = call[c].result[v]
      /\ job[u] = c /\ Open(c) => new.result[u] = r \/ new.result[u] = call[c].result[u]
      /\ job[u] # c \/ ~Open(c) => new = call[c]
  BY <1>1, <1>2, ReportType
<1>4. CASE job[u] # c
  BY <1>1, <1>2, <1>3, <1>4, Undisturbed
<1>5. CASE job[u] = c /\ ~Open(c)
  <2>1. ~NoTrace(c)
    BY <1>5 DEF NoTrace
  <2>2. call[c].phase \in {"refused", "lost", "cancelled"}
    BY <1>1, <1>5, <2>1, CallType DEF Follows, Open, Ends
  <2> QED
    BY <1>2, <1>3, <2>2, GivenUp
<1>6. CASE job[u] = c /\ Open(c)
  <2>1. Partition(c) /\ (\A v \in Units : ResultTrue(c, v)) /\ Counted(c)
    BY <1>1, <1>6, OpenFollowed
  <2>2. /\ call[c].result[u] = "none" /\ u \notin carried[c] /\ ~Unasked(c, u)
        /\ u \notin Received(c)
    BY <1>6, <2>1 DEF ResultTrue, Counted
  <2>3. /\ ToQueue(c)' = ToQueue(c) /\ Awaited(c)' = Awaited(c) /\ Received(c)' = Received(c)
        /\ \A v \in Units : Unasked(c, v)' <=> Unasked(c, v)
    BY <1>2, <1>3 DEF ToQueue, Awaited, Received, Unasked
  <2>4. Partition(c)'
    BY <1>2, <1>3, <2>1, <2>3 DEF Partition
  <2>5. \A v \in Received(c) : new.result[v] = call[c].result[v]
    BY <1>1, <1>3, <2>2, CallType DEF Received
  <2>6. Counted(c)'
    BY <1>2, <1>3, <2>1, <2>3, <2>5 DEF Counted, Bad
  <2>7. ASSUME NEW v \in Units
        PROVE  ResultTrue(c, v)'
    <3>1. CASE v # u
      BY <1>2, <1>3, <2>1, <2>3, <3>1 DEF ResultTrue
    <3>2. CASE v = u
      <4>1. <<c, u>> \in wire' => call'[c].request = "sent" /\ u = Head(call'[c].todo)
        BY <1>2, <1>3, <2>1 DEF ResultTrue
      <4>2. call'[c].result[u] \in {r, "none"}
        BY <1>2, <1>3, <1>6, <2>2
      <4>3. u \in carried'[c] <=> r = "done"
        BY <1>6, <2>2
      <4> QED
        BY <2>2, <2>3, <3>2, <4>1, <4>2, <4>3 DEF ResultTrue, Results
    <3> QED
      BY <3>1, <3>2
  <2> QED
    BY <1>2, <1>3, <1>6, <2>4, <2>6, <2>7 DEF Follows, Open
<1> QED
  BY <1>4, <1>5, <1>6

\* The job that a request asked for is the first of its unit.
LEMMA QueuedFollowed ==
  ASSUME JobsInv, NEW c \in Calls, NEW u \in Units, <<c, u>> \in wire,
         wire' = wire \ {<<c, u>>}, job' = [job EXCEPT ![u] = c], UNCHANGED carried,
         call'[c] = [call[c] EXCEPT !.request = IF Open(c) THEN "queued" ELSE call[c].request]
  PROVE  Follows(c)'
<1>1. JobsTypeOK /\ Follows(c)
  BY DEF JobsInv
<1>2. PICK old \in Locals, asked \in {"none", "sent", "queued"} :
        old = call[c] /\ asked = IF Open(c) THEN "queued" ELSE call[c].request
  BY <1>1, CallType DEF JobsTypeOK
<1>3. PICK new : new = [old EXCEPT !.request = asked]
  OBVIOUS
<1>4. /\ call'[c] = new /\ new.phase = old.phase /\ new.units = old.units /\ new.todo = old.todo
      /\ new.pending = old.pending /\ new.request = asked /\ new.failed = old.failed
      /\ new.result = old.result
  BY <1>2, <1>3 DEF Locals
<1>5. CASE ~Open(c)
  <2>1. call[c].phase \in {"refused", "lost", "cancelled"}
    BY <1>1, <1>5, CallType DEF Follows, Open, Ends, NoTrace
  <2> QED
    BY <1>2, <1>4, <2>1, GivenUp
<1>6. CASE Open(c)
  <2>1. Partition(c) /\ (\A v \in Units : ResultTrue(c, v)) /\ Counted(c)
    BY <1>1, <1>6, OpenFollowed
  <2>2. call[c].request = "sent" /\ u = Head(call[c].todo) /\ asked = "queued"
    BY <1>2, <1>6, <2>1 DEF ResultTrue
  <2>3. call[c].todo # <<>> /\ u \in ToQueue(c) /\ u \in call[c].units
    BY <1>1, <2>1, <2>2, CallType, TailDistinct DEF Partition, ToQueue
  <2>4. call[c].result[u] = "none" /\ u \notin carried[c]
    BY <2>1, <2>2, <2>3 DEF ResultTrue, Unasked
  <2>5. /\ ToQueue(c)' = ToQueue(c) /\ Awaited(c)' = Awaited(c) /\ Received(c)' = Received(c)
        /\ \A v \in Units : Unasked(c, v)' => Unasked(c, v) /\ v # u
    BY <1>2, <1>4, <2>2, <2>3 DEF ToQueue, Awaited, Received, Unasked
  <2>6. Partition(c)' /\ Counted(c)'
    BY <1>2, <1>4, <2>1, <2>3, <2>5 DEF Partition, Counted
  <2>7. \A v \in Units : <<c, v>> \notin wire'
    BY <2>1, <2>2 DEF ResultTrue
  <2>8. \A v \in Units : job'[v] = IF v = u THEN c ELSE job[v]
    BY <1>1 DEF JobsTypeOK
  <2>9. ASSUME NEW v \in Units
        PROVE  ResultTrue(c, v)'
    BY <1>2, <1>4, <2>1, <2>4, <2>5, <2>7, <2>8 DEF ResultTrue
  <2> QED
    BY <1>2, <1>4, <1>6, <2>6, <2>9 DEF Follows, Open
<1> QED
  BY <1>5, <1>6

LEMMA QueueStep ==
  ASSUME JobsInv, NEW c \in Calls, NEW u \in Units, Queue(c, u)
  PROVE  JobsInv'
<1>1. /\ JobsTypeOK /\ Follows(c) /\ <<c, u>> \in wire /\ wire' = wire \ {<<c, u>>}
      /\ UNCHANGED <<carried, foreign>>
  BY DEF JobsInv, Queue
<1>2. CASE /\ job' = [job EXCEPT ![u] = c]
           /\ call' = [Reported(u, "canceled") EXCEPT ![c].request =
                          IF Open(c) THEN "queued" ELSE @]
  <2>1. job[u] # c \/ ~Open(c)
    <3>1. SUFFICES ASSUME Open(c) PROVE job[u] # c
      OBVIOUS
    <3>2. Partition(c) /\ ResultTrue(c, u)
      BY <1>1, <3>1, OpenFollowed
    <3>3. call[c].todo # <<>> /\ u = Head(call[c].todo) /\ call[c].request = "sent"
      BY <1>1, <3>2 DEF Partition, ResultTrue
    <3>4. u \in ToQueue(c)
      BY <1>1, <3>2, <3>3, CallType, TailDistinct DEF Partition, ToQueue
    <3> QED
      BY <3>2, <3>3, <3>4 DEF ResultTrue, Unasked
  <2>2. PICK reported \in [Calls -> Locals] : reported = Reported(u, "canceled")
    BY <1>1, ReportType DEF Results
  <2>3. reported[c] = call[c]
    BY <1>1, <2>1, <2>2, ReportType DEF Results
  <2>4. PICK asked \in {"none", "sent", "queued"} :
          asked = IF Open(c) THEN "queued" ELSE call[c].request
    BY <1>1, CallType
  <2>5. call' = [reported EXCEPT ![c].request = asked]
    BY <1>2, <2>2, <2>3, <2>4
  <2>6. PICK old \in Locals : old = reported[c]
    OBVIOUS
  <2>7. PICK new : new = [old EXCEPT !.request = asked]
    OBVIOUS
  <2>8. new \in Locals
    BY <2>7 DEF Locals
  <2>9. call' = [reported EXCEPT ![c] = new]
    BY <2>5, <2>6, <2>7
  <2>10. /\ call' \in [Calls -> Locals] /\ call'[c] = new
         /\ \A d \in Calls \ {c} : call'[d] = reported[d]
    BY <2>8, <2>9
  <2>11. call'[c] = [call[c] EXCEPT !.request = IF Open(c) THEN "queued" ELSE call[c].request]
    BY <2>3, <2>4, <2>6, <2>7, <2>10
  <2>12. Follows(c)'
    BY <1>1, <1>2, <2>11, QueuedFollowed
  <2>13. job' \in [Units -> Calls \cup {NoJob, Other}] /\ job'[u] = c
         /\ \A v \in Units \ {u} : job'[v] = job[v]
    BY <1>1, <1>2 DEF JobsTypeOK
  <2>14. ASSUME NEW d \in Calls \ {c}
         PROVE  Follows(d)'
    <3>1. call'[d] = Reported(u, "canceled")[d] /\ job'[u] # d
      BY <2>2, <2>10, <2>13
    <3>2. \A v \in Units : <<d, v>> \in wire' => <<d, v>> \in wire
      BY <1>1
    <3>3. "canceled" \in Results /\ "canceled" # "done"
      BY DEF Results
    <3> QED
      BY <1>1, <2>13, <3>1, <3>2, <3>3, ReportFollowed
  <2>15. JobsTypeOK'
    BY <1>1, <2>10, <2>13 DEF JobsTypeOK
  <2> QED
    BY <2>12, <2>14, <2>15 DEF JobsInv
<1>3. CASE UNCHANGED <<job, call>>
  BY <1>1, <1>3, Undisturbed DEF JobsInv, JobsTypeOK
<1> QED
  BY <1>2, <1>3 DEF Queue

LEMMA RefuseStep ==
  ASSUME JobsInv, NEW c \in Calls, NEW u \in Units, Refuse(c, u)
  PROVE  JobsInv'
<1>1. /\ JobsTypeOK /\ <<c, u>> \in wire /\ wire' = wire \ {<<c, u>>}
      /\ UNCHANGED <<job, carried, foreign>>
  BY DEF JobsInv, Refuse
<1>2. CASE Open(c)
  <2>1. End(c, "refused")
    BY <1>2 DEF Refuse
  <2>2. /\ call' \in [Calls -> Locals] /\ call'[c].phase = "refused"
        /\ \A d \in Calls \ {c} : call'[d] = call[d]
    BY <1>1, <2>1, EndType DEF Ends
  <2>3. ASSUME NEW d \in Calls \ {c}
        PROVE  Follows(d)'
    BY <1>1, <2>2, Undisturbed DEF JobsInv
  <2> QED
    BY <1>1, <2>2, <2>3, GivenUp DEF JobsInv, JobsTypeOK
<1>3. CASE ~Open(c)
  <2>1. UNCHANGED call
    BY <1>3 DEF Refuse
  <2> QED
    BY <1>1, <2>1, Undisturbed DEF JobsInv, JobsTypeOK
<1> QED
  BY <1>2, <1>3

LEMMA CarryOutStep ==
  ASSUME JobsInv, NEW u \in Units, CarryOut(u)
  PROVE  JobsInv'
<1>1. JobsTypeOK /\ job' = [job EXCEPT ![u] = NoJob] /\ UNCHANGED <<wire, foreign>>
  BY DEF JobsInv, CarryOut
<1>2. PICK r \in Results :
        /\ call' = Reported(u, r)
        /\ carried' = [c \in Calls |-> carried[c] \cup {v \in {u} : job[v] = c /\ r = "done"}]
  BY DEF CarryOut
<1>3. call' \in [Calls -> Locals]
  BY <1>1, <1>2, ReportType
<1>4. carried' \in [Calls -> SUBSET Units]
  BY <1>1, <1>2 DEF JobsTypeOK
<1>5. /\ job' \in [Units -> Calls \cup {NoJob, Other}] /\ job'[u] = NoJob
      /\ \A v \in Units \ {u} : job'[v] = job[v]
  BY <1>1 DEF JobsTypeOK
<1>6. ASSUME NEW c \in Calls
      PROVE  Follows(c)'
  <2>1. call'[c] = Reported(u, r)[c] /\ job'[u] # c
    BY <1>2, <1>5, JobsAssumption
  <2>2. carried'[c] = IF job[u] = c /\ r = "done" THEN carried[c] \cup {u} ELSE carried[c]
    BY <1>2
  <2> QED
    BY <1>1, <1>5, <2>1, <2>2, ReportFollowed
<1> QED
  BY <1>1, <1>3, <1>4, <1>5, <1>6 DEF JobsInv, JobsTypeOK

LEMMA ForeignStep ==
  ASSUME JobsInv, NEW u \in Units, Foreign(u)
  PROVE  JobsInv'
<1>1. /\ JobsTypeOK /\ call' = Reported(u, "canceled") /\ UNCHANGED <<wire, carried>>
      /\ foreign < MaxForeign /\ foreign' = foreign + 1
  BY DEF JobsInv, Foreign
<1>2. PICK j \in {NoJob, Other} : job' = [job EXCEPT ![u] = j]
  BY DEF Foreign
<1>3. "canceled" \in Results /\ "canceled" # "done"
  BY DEF Results
<1>4. call' \in [Calls -> Locals]
  BY <1>1, <1>3, ReportType
<1>5. /\ job' \in [Units -> Calls \cup {NoJob, Other}] /\ job'[u] = j
      /\ \A v \in Units \ {u} : job'[v] = job[v]
  BY <1>1, <1>2 DEF JobsTypeOK
<1>6. ASSUME NEW c \in Calls
      PROVE  Follows(c)'
  <2>1. call'[c] = Reported(u, "canceled")[c] /\ job'[u] # c
    BY <1>1, <1>5, JobsAssumption
  <2> QED
    BY <1>1, <1>3, <1>5, <2>1, ReportFollowed
<1>7. foreign' \in 0..MaxForeign
  BY <1>1, JobsAssumption DEF JobsTypeOK
<1> QED
  BY <1>1, <1>4, <1>5, <1>6, <1>7 DEF JobsInv, JobsTypeOK

LEMMA LoseRequestStep ==
  ASSUME JobsInv, NEW c \in Calls, NEW u \in Units, LoseRequest(c, u)
  PROVE  JobsInv'
<1>1. wire' = wire \ {<<c, u>>} /\ UNCHANGED <<call, job, carried, foreign>>
  BY DEF LoseRequest
<1> QED
  BY <1>1, Undisturbed DEF JobsInv, JobsTypeOK

-----------------------------------------------------------------------------
(* The invariant *)

LEMMA JobsBegin ==
  ASSUME Init
  PROVE  JobsInv
<1>1. JobsTypeOK
  BY NotBegunType, JobsAssumption DEF Init, JobsTypeOK
<1>2. ASSUME NEW c \in Calls
      PROVE  Follows(c)
  <2>1. call[c] = NotBegun /\ carried[c] = {} /\ call[c].phase = "new"
    BY DEF Init, NotBegun
  <2>2. NoTrace(c)
    BY JobsAssumption DEF Init, NoTrace
  <2> QED
    BY <2>1, <2>2 DEF Follows, Open
<1> QED
  BY <1>1, <1>2 DEF JobsInv

\* Every job of a call is accounted for: left to queue, asked for, queued, or ended
\* with the result that the call knows or will get to know (manager.go:137-171).
THEOREM JobsInvariant == Spec => []JobsInv
<1>1. Init => JobsInv
  BY JobsBegin
<1>2. JobsInv /\ [Next]_vars => JobsInv'
  <2>1. SUFFICES ASSUME JobsInv, [Next]_vars PROVE JobsInv'
    OBVIOUS
  <2>2. CASE UNCHANGED vars
    BY <2>1, <2>2, Undisturbed DEF vars, JobsInv, JobsTypeOK
  <2>3. ASSUME NEW c \in Calls, Begin(c) \/ Run(c) \/ Cancel(c) \/ Disconnect(c)
        PROVE  JobsInv'
    BY <2>1, <2>3, BeginStep, SubmitStep, SubmittedStep, GiveUpStep, ReceiveStep, ReturnStep,
       DisconnectStep DEF Run
  <2>4. ASSUME NEW c \in Calls, NEW u \in Units, Queue(c, u) \/ Refuse(c, u) \/ LoseRequest(c, u)
        PROVE  JobsInv'
    BY <2>1, <2>4, QueueStep, RefuseStep, LoseRequestStep
  <2>5. ASSUME NEW u \in Units, CarryOut(u) \/ Foreign(u)
        PROVE  JobsInv'
    BY <2>1, <2>5, CarryOutStep, ForeignStep
  <2> QED
    BY <2>1, <2>2, <2>3, <2>4, <2>5 DEF Next
<1> QED
  BY <1>1, <1>2, PTL DEF Spec

\* The locals, the queue and the requests keep their types, for any number of calls.
THEOREM TypeCorrect == Spec => []JobsTypeOK
<1>1. JobsInv => JobsTypeOK
  BY DEF JobsInv
<1> QED
  BY <1>1, JobsInvariant, PTL

\* A call that reports on its jobs reports the truth, whatever other clients and the
\* leftovers of earlier calls do to them (manager.go:158-171).
THEOREM OutcomesTrue == Spec => []OutcomeTrue
<1>1. JobsInv => OutcomeTrue
  BY DEF JobsInv, Follows, OutcomeTrue
<1> QED
  BY <1>1, JobsInvariant, PTL

\* A call that waited to the end leaves no request and no job to run under the next
\* holder of the lock (manager.go:158-167).
THEOREM NothingIsLeftBehind == Spec => []NothingLeftBehind
<1>1. JobsInv => NothingLeftBehind
  BY DEF JobsInv, Follows, NoTrace, NothingLeftBehind
<1> QED
  BY <1>1, JobsInvariant, PTL
=============================================================================
