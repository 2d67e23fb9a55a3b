-------------------------------- MODULE Jobs --------------------------------
(***************************************************************************)
(* systemd.Manager.jobs, behind Stop, Restart and TryRestart.  A call      *)
(* queues one job per unit with the user manager and waits for the         *)
(* results.  The manager carries jobs out in its own time, other clients   *)
(* queue and cancel jobs as well, and a job does not care whether the call *)
(* that queued it still waits.  The calls of one host user follow each     *)
(* other, because they are made under config.lock.                         *)
(***************************************************************************)
EXTENDS Naturals, Sequences, FiniteSets, SequencesExt

CONSTANTS
  Calls,        \* calls of jobs, made one at a time in some order
  Units,
  NoJob,        \* nothing is queued for the unit
  Other,        \* the job was queued by another client of the manager
  MaxForeign    \* bound: how often other clients queue or cancel a job

\* ZeroJobs, AnyEnd, GiveUpEarly and OnlyWhileSubmitting are slips of the code (README, Mutants).

VARIABLES
  call,         \* call[c]: the locals of a call, its channels and connection, how it ended
  wire,         \* requests <<c, u>> that the manager has received and not handled
  job,          \* job[u]: whose job is queued for unit u
  carried,      \* history: carried[c] are the units whose job of call c was carried out
  foreign       \* jobs of other clients so far

vars == <<call, wire, job, carried, foreign>>

ASSUME JobsAssumption ==
  /\ IsFiniteSet(Units)
  /\ NoJob \notin Calls /\ Other \notin Calls
  /\ MaxForeign \in Nat

\* "done" stands for "skipped" as well, "failed" for every other result but "canceled".
Results == {"done", "failed", "canceled"}

Ends == {"ok", "failed", "refused", "lost", "cancelled"}

NotBegun == [phase |-> "new", units |-> {}, todo |-> <<>>, request |-> "none",
             pending |-> <<>>, result |-> [u \in Units |-> "none"],
             failed |-> FALSE, live |-> TRUE]

Open(c) == call[c].phase = "open"

Over(c) == call[c].phase \in Ends

Init ==
  /\ call = [c \in Calls |-> NotBegun]
  /\ wire = {}
  /\ job = [u \in Units |-> NoJob]
  /\ carried = [c \in Calls |-> {}]
  /\ foreign = 0

-----------------------------------------------------------------------------
(* The call.                                                               *)

End(c, how) ==
  call' = [call EXCEPT ![c] = [NotBegun EXCEPT !.phase = how, !.units = call[c].units]]

\* make([]job, len(units)) in place of make([]job, 0, len(units)).
ZeroJobs(todo) == [i \in DOMAIN todo |-> NoJob]

Room(todo) == <<>>

Begin(c) ==
  /\ call[c].phase = "new"
  /\ \A d \in Calls : ~Open(d)
  /\ \E units \in SUBSET Units : \E todo \in SetToSeqs(units) :
       call' = [call EXCEPT ![c] = [@ EXCEPT !.phase = "open", !.units = units, !.todo = todo,
                                             !.pending = Room(todo)]]
  /\ UNCHANGED <<wire, job, carried, foreign>>

Submit(c) ==
  /\ Open(c)
  /\ call[c].todo # <<>>
  /\ call[c].request = "none"
  /\ call[c].live
  /\ call' = [call EXCEPT ![c].request = "sent"]
  /\ wire' = wire \cup {<<c, Head(call[c].todo)>>}
  /\ UNCHANGED <<job, carried, foreign>>

\* submit returns without an error.
Submitted(c) ==
  /\ Open(c)
  /\ call[c].request = "queued"
  /\ call[c].live
  /\ LET head == Head(call[c].todo) IN
     call' = [call EXCEPT ![c] = [@ EXCEPT !.todo = Tail(call[c].todo), !.request = "none",
                                           !.pending = Append(call[c].pending, head)]]
  /\ UNCHANGED <<wire, job, carried, foreign>>

\* submit fails because the connection is gone; the job may be queued nevertheless.
SubmitFails(c) ==
  /\ Open(c)
  /\ call[c].todo # <<>>
  /\ ~call[c].live
  /\ End(c, "lost")
  /\ UNCHANGED <<wire, job, carried, foreign>>

AnyEnd(r) == r = "failed"

Bad(r) == r # "done"

Receive(c) ==
  /\ Open(c)
  /\ call[c].todo = <<>>
  /\ call[c].pending # <<>>
  /\ LET r == call[c].result[Head(call[c].pending)] IN
       /\ r # "none"
       /\ call' = [call EXCEPT ![c] = [@ EXCEPT !.pending = Tail(call[c].pending),
                                                !.failed = call[c].failed \/ Bad(r)]]
  /\ UNCHANGED <<wire, job, carried, foreign>>

GiveUpEarly(c) == call[c].pending = <<>> \/ call[c].failed

Complete(c) == call[c].pending = <<>>

Return(c) ==
  /\ Open(c)
  /\ call[c].todo = <<>>
  /\ Complete(c)
  /\ End(c, IF call[c].failed THEN "failed" ELSE "ok")
  /\ UNCHANGED <<wire, job, carried, foreign>>

OnlyWhileSubmitting(c) == Open(c) /\ call[c].todo # <<>>

Interruptible(c) == Open(c)

\* The context is done: the operation's timeout, an interrupt, or a lost lease.  It ends
\* submit as well as the wait for a result.
Cancel(c) ==
  /\ Interruptible(c)
  /\ End(c, "cancelled")
  /\ UNCHANGED <<wire, job, carried, foreign>>

-----------------------------------------------------------------------------
(* The user manager, its other clients, and the connection.                *)

\* The manager reports the end of a job to the call whose job it is, if the connection
\* is up and the call is there to listen.
Reported(u, r) ==
  [c \in Calls |-> IF job[u] = c /\ Open(c) /\ call[c].live
                   THEN [call[c] EXCEPT !.result[u] = r] ELSE call[c]]

\* Mode "replace": a job that is queued for the unit is cancelled, or the two are merged
\* when they ask for the same.  A request outlives its call.
Queue(c, u) ==
  /\ <<c, u>> \in wire
  /\ wire' = wire \ {<<c, u>>}
  /\ \/ /\ job' = [job EXCEPT ![u] = c]
        /\ call' = [Reported(u, "canceled") EXCEPT ![c].request = IF Open(c) THEN "queued" ELSE @]
     \/ Over(c) /\ job[u] # NoJob /\ UNCHANGED <<job, call>>
  /\ UNCHANGED <<carried, foreign>>

\* An unknown or masked unit, or a transaction that contradicts itself.
Refuse(c, u) ==
  /\ <<c, u>> \in wire
  /\ wire' = wire \ {<<c, u>>}
  /\ IF Open(c) THEN End(c, "refused") ELSE UNCHANGED call
  /\ UNCHANGED <<job, carried, foreign>>

CarryOut(u) ==
  /\ job[u] # NoJob
  /\ \E r \in Results \ {"canceled"} :
       /\ call' = Reported(u, r)
       /\ carried' = [c \in Calls |-> carried[c] \cup {v \in {u} : job[v] = c /\ r = "done"}]
  /\ job' = [job EXCEPT ![u] = NoJob]
  /\ UNCHANGED <<wire, foreign>>

\* Another client queues a job for the unit, or cancels the one that is queued.
Foreign(u) ==
  /\ foreign < MaxForeign
  /\ foreign' = foreign + 1
  /\ \E j \in {NoJob, Other} : job[u] # j /\ job' = [job EXCEPT ![u] = j]
  /\ call' = Reported(u, "canceled")
  /\ UNCHANGED <<wire, carried>>

\* The socket breaks, or the manager starts anew: no reply and no signal arrives.
Disconnect(c) ==
  /\ Open(c)
  /\ call[c].live
  /\ call' = [call EXCEPT ![c].live = FALSE]
  /\ UNCHANGED <<wire, job, carried, foreign>>

LoseRequest(c, u) ==
  /\ <<c, u>> \in wire
  /\ Over(c) \/ ~call[c].live
  /\ wire' = wire \ {<<c, u>>}
  /\ UNCHANGED <<call, job, carried, foreign>>

-----------------------------------------------------------------------------

Run(c) == Submit(c) \/ Submitted(c) \/ SubmitFails(c) \/ Receive(c) \/ Return(c)

Next ==
  \/ \E c \in Calls :
       \/ Begin(c) \/ Run(c) \/ Cancel(c) \/ Disconnect(c)
       \/ \E u \in Units : Queue(c, u) \/ Refuse(c, u) \/ LoseRequest(c, u)
  \/ \E u \in Units : CarryOut(u) \/ Foreign(u)

Spec == Init /\ [][Next]_vars

\* The call goes on and its timeout fires.  Nothing is assumed of the manager: a job may
\* wait for ever.
FairSpec == Spec /\ \A c \in Calls : WF_vars(Run(c)) /\ WF_vars(Cancel(c))

-----------------------------------------------------------------------------

Locals ==
  [phase : {"new", "open"} \cup Ends, units : SUBSET Units, todo : Seq(Units),
   request : {"none", "sent", "queued"}, pending : Seq(Units),
   result : [Units -> Results \cup {"none"}], failed : BOOLEAN, live : BOOLEAN]

\* The locals and the queue keep their types; what is waited for is always a unit.
JobsTypeOK ==
  /\ call \in [Calls -> Locals]
  /\ wire \subseteq Calls \X Units
  /\ job \in [Units -> Calls \cup {NoJob, Other}]
  /\ carried \in [Calls -> SUBSET Units]
  /\ foreign \in 0..MaxForeign

\* A call that reports on its jobs reports the truth: success if and only if the manager
\* carried out the call's own job of every unit, whatever other clients and the leftovers
\* of earlier calls did to them (manager.go:158-171).
OutcomeTrue ==
  \A c \in Calls :
    call[c].phase \in {"ok", "failed"} =>
      (call[c].phase = "ok" <=> carried[c] = call[c].units)

\* Only a refused or cancelled call leaves jobs to run under the next holder of the lock:
\* one that waited to the end has no request and no job left (manager.go:158-167).
NothingLeftBehind ==
  \A c \in Calls :
    call[c].phase \in {"ok", "failed"} =>
      \A u \in Units : job[u] # c /\ <<c, u>> \notin wire

\* "queues one job per unit and waits for every one of them" (manager.go:137-138): a call
\* that nothing cut short has no job left in the queue when it is over.
JobsAwaited ==
  \A c \in Calls :
    call[c].phase \in {"ok", "failed", "refused"} => \A u \in Units : job[u] # c

\* A call ends, at the latest by the operation's timeout, although its connection may be
\* gone and its job may wait for ever (manager.go:164-165).
CallsReturn == \A c \in Calls : Open(c) ~> Over(c)
=============================================================================
