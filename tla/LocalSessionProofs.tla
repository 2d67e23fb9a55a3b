------------------------- MODULE LocalSessionProofs -------------------------
(***************************************************************************)
(* Any number of local sessions: one operation at a time, and the lease    *)
(* contract.                                                               *)
(***************************************************************************)
EXTENDS LocalSession, TLAPS

\* The steps of the operation, the callbacks and the processes, each by its name.
LEMMA StepCases ==
  ASSUME NEW s \in Sessions, Step(s)
  PROVE  \/ Connect(s) \/ Return(s) \/ Begin(s) \/ FileCall(s) \/ Run(s) \/ Done(s)
         \/ Lock(s) \/ TryLock(s) \/ GiveUp(s) \/ Released(s) \/ Close(s)
         \/ Timeout(s) \/ CloseEarly(s) \/ StopClient(s)
         \/ BeginRelease(s) \/ CloseForRelease(s) \/ Unlock(s)
         \/ Fork(s) \/ Exit(s) \/ Kill(s) \/ Die(s)
BY DEF Step, Operation, Callbacks

LEMMA TypeStep ==
  ASSUME TypeOK, NEW s \in Sessions, Step(s)
  PROVE  TypeOK'
<1> USE DEF TypeOK, Places, Calling, Goto
<1>1. CASE Connect(s) \/ Return(s) \/ Begin(s) \/ FileCall(s) \/ Run(s) \/ Done(s)
  <2>1. CASE Connect(s) \/ Begin(s) \/ FileCall(s) \/ Done(s)
    BY <2>1 DEF Connect, Begin, FileCall, Done
  <2>2. CASE Return(s)
    BY <2>2 DEF Return
  <2>3. CASE Run(s)
    BY <2>3 DEF Run
  <2>4. QED
    BY <1>1, <2>1, <2>2, <2>3
<1>2. CASE Lock(s) \/ GiveUp(s) \/ Released(s) \/ Close(s)
  <2>1. CASE Lock(s)
    BY <2>1 DEF Lock
  <2>2. CASE GiveUp(s) \/ Released(s)
    BY <2>2 DEF GiveUp, Released
  <2>3. CASE Close(s)
    BY <2>3 DEF Close
  <2>4. QED
    BY <1>2, <2>1, <2>2, <2>3
<1>3. CASE TryLock(s)
  <2>1. holder' \in Sessions /\ main' \in [Sessions -> Places]
    BY <1>3 DEF TryLock
  <2>2. locked' \in [Sessions -> BOOLEAN]
    BY <1>3 DEF TryLock
  <2>3. QED
    BY <1>3, <2>1, <2>2 DEF TryLock
<1>4. CASE Timeout(s) \/ CloseEarly(s) \/ StopClient(s)
  BY <1>4 DEF Timeout, CloseEarly, StopClient
<1>5. CASE BeginRelease(s) \/ CloseForRelease(s) \/ Unlock(s)
  BY <1>5 DEF BeginRelease, CloseForRelease, Unlock
<1>6. CASE Fork(s) \/ Exit(s) \/ Kill(s)
  BY <1>6 DEF Fork, Exit, Kill
<1>7. CASE Die(s)
  BY <1>7 DEF Die
<1>8. QED
  BY <1>1, <1>2, <1>3, <1>4, <1>5, <1>6, <1>7, StepCases

\* What the step of one session leaves alone.
Untouched(r) ==
  /\ main'[r] = main[r] /\ open'[r] = open[r] /\ lease'[r] = lease[r]
  /\ locked'[r] = locked[r] /\ release'[r] = release[r] /\ procs'[r] = procs[r]
  /\ holder = r => holder' = r

LEMMA OthersUntouched ==
  ASSUME TypeOK, NEW s \in Sessions, Step(s), NEW r \in Sessions, r # s
  PROVE  Untouched(r)
<1> USE HoldersDiffer DEF TypeOK, Goto, Untouched
<1>1. CASE Connect(s) \/ Return(s) \/ Begin(s) \/ FileCall(s) \/ Run(s) \/ Done(s)
  BY <1>1 DEF Connect, Return, Begin, FileCall, Run, Done
<1>2. CASE Lock(s) \/ TryLock(s) \/ GiveUp(s) \/ Released(s) \/ Close(s)
  BY <1>2 DEF Lock, TryLock, GiveUp, Released, Close
<1>3. CASE Timeout(s) \/ CloseEarly(s) \/ StopClient(s)
  BY <1>3 DEF Timeout, CloseEarly, StopClient
<1>4. CASE BeginRelease(s) \/ CloseForRelease(s) \/ Unlock(s)
  BY <1>4 DEF BeginRelease, CloseForRelease, Unlock
<1>5. CASE Fork(s) \/ Exit(s) \/ Kill(s) \/ Die(s)
  BY <1>5 DEF Fork, Exit, Kill, Die
<1>6. QED
  BY <1>1, <1>2, <1>3, <1>4, <1>5, StepCases

LEMMA OrderlyKept ==
  ASSUME NEW r \in Sessions, Orderly(r), Untouched(r)
  PROVE  Orderly(r)'
BY DEF Orderly, Untouched, KeptUntilReleased, ClosedWhileDraining, DrainedWhenDone,
       NothingToReleaseYet, ProcessesAwaited

\* The session that makes the step.
LEMMA OrderlyStep ==
  ASSUME TypeOK, NEW s \in Sessions, Orderly(s), Step(s)
  PROVE  Orderly(s)'
<1> USE DEF TypeOK, Orderly, Goto, Calling, Alive, Mutex, KeptUntilReleased,
            ClosedWhileDraining, DrainedWhenDone, NothingToReleaseYet, ProcessesAwaited
<1>1. CASE Connect(s) \/ Return(s) \/ Begin(s)
  BY <1>1 DEF Connect, Return, Begin
<1>2. CASE FileCall(s) \/ Run(s) \/ Done(s)
  BY <1>2 DEF FileCall, Run, Done
<1>3. CASE Lock(s)
  BY <1>3 DEF Lock
<1>4. CASE TryLock(s)
  <2>1. main[s] = "polling" /\ main'[s] = "fn"
    BY <1>4 DEF TryLock
  <2>2. procs[s] = {} /\ ~locked[s] /\ release[s] = "idle"
    BY <2>1
  <2>3. holder' = s /\ UNCHANGED <<open, lease, release, procs>>
    BY <1>4 DEF TryLock
  <2>4. lease[s] # "none"
    BY <2>1
  <2>5. QED
    BY <2>1, <2>2, <2>3, <2>4
<1>5. CASE GiveUp(s) \/ Released(s) \/ Close(s)
  BY <1>5 DEF GiveUp, Released, Close
<1>6. CASE Timeout(s) \/ CloseEarly(s) \/ StopClient(s)
  BY <1>6 DEF Timeout, CloseEarly, StopClient
<1>7. CASE BeginRelease(s)
  BY <1>7 DEF BeginRelease
<1>8. CASE CloseForRelease(s)
  BY <1>8 DEF CloseForRelease
<1>9. CASE Unlock(s)
  BY <1>9 DEF Unlock, Drained
<1>10. CASE Fork(s) \/ Exit(s) \/ Kill(s)
  BY <1>10 DEF Fork, Exit, Kill, Killed
<1>11. CASE Die(s)
  BY <1>11 DEF Die
<1>12. QED
  BY <1>1, <1>2, <1>3, <1>4, <1>5, <1>6, <1>7, <1>8, <1>9, <1>10, <1>11, StepCases

LEMMA SessionInductive == SessionInv /\ [Next]_vars => SessionInv'
<1> SUFFICES ASSUME SessionInv, [Next]_vars PROVE SessionInv'
  OBVIOUS
<1>1. CASE UNCHANGED vars
  BY <1>1 DEF vars, SessionInv, TypeOK, Orderly, KeptUntilReleased, ClosedWhileDraining,
              DrainedWhenDone, NothingToReleaseYet, ProcessesAwaited
<1>2. CASE ElsewhereLocks \/ ElsewhereUnlocks
  <2>1. TypeOK'
    BY <1>2 DEF ElsewhereLocks, ElsewhereUnlocks, SessionInv, TypeOK
  <2>2. ASSUME NEW s \in Sessions PROVE Untouched(s)
    BY <1>2, HoldersDiffer DEF ElsewhereLocks, ElsewhereUnlocks, Untouched
  <2>3. QED
    BY <2>1, <2>2, OrderlyKept DEF SessionInv
<1>3. ASSUME NEW s \in Sessions, Step(s) PROVE SessionInv'
  <2>1. TypeOK'
    BY <1>3, TypeStep DEF SessionInv
  <2>2. ASSUME NEW r \in Sessions, r # s PROVE Orderly(r)'
    BY <1>3, <2>2, OthersUntouched, OrderlyKept DEF SessionInv
  <2>3. Orderly(s)'
    BY <1>3, OrderlyStep DEF SessionInv
  <2>4. QED
    BY <2>1, <2>2, <2>3 DEF SessionInv
<1>4. QED
  BY <1>1, <1>2, <1>3 DEF Next

\* The invariant behind both results: the lock is kept until the release function is
\* through, and from the drain on no call begins (lock.go:23-33, client.go:45-63).
THEOREM SessionInvariant == Spec => []SessionInv
<1>1. Init => SessionInv
  BY DEF Init, SessionInv, TypeOK, Places, Orderly, KeptUntilReleased, Calling,
         ClosedWhileDraining, DrainedWhenDone, NothingToReleaseYet, ProcessesAwaited
<1>2. QED
  BY <1>1, SessionInductive, PTL DEF Spec

LEMMA WorkingHolds ==
  ASSUME SessionInv, NEW s \in Sessions, Working(s)
  PROVE  holder = s
BY DEF SessionInv, Orderly, Working, KeptUntilReleased, DrainedWhenDone,
       ProcessesAwaited, Calling

\* For any number of operations, timeouts, cancellations and killed providers: nothing
\* an operation started under config.lock runs while somebody else holds the lock.
THEOREM ExclusiveUse == Spec => []OneAtATime
<1>1. SessionInv => OneAtATime
  BY WorkingHolds DEF OneAtATime
<1>2. QED
  BY SessionInvariant, <1>1, PTL

-----------------------------------------------------------------------------

Busy == {s \in Sessions : Working(s)}

\* A step changes at most its own session's membership.
LEMMA BusyStep ==
  ASSUME SessionInv, NEW s \in Sessions, Step(s)
  PROVE  Busy' = IF Working(s)' THEN Busy \cup {s} ELSE Busy \ {s}
<1>1. ASSUME NEW r \in Sessions, r # s PROVE Working(r)' = Working(r)
  BY <1>1, OthersUntouched DEF Untouched, Working, SessionInv
<1>2. QED
  BY <1>1 DEF Busy

\* Only FileCall and Run begin a call, and they do so under the lock.
LEMMA CallsStart ==
  ASSUME SessionInv, NEW s \in Sessions, Step(s), ~Working(s), Working(s)'
  PROVE  holder = s /\ UNCHANGED holder
<1> USE DEF SessionInv, TypeOK, Orderly, Working, Calling, Goto, Alive,
            KeptUntilReleased, ClosedWhileDraining, NothingToReleaseYet, ProcessesAwaited
<1>1. CASE FileCall(s) \/ Run(s)
  BY <1>1 DEF FileCall, Run
<1>2. CASE Connect(s) \/ Return(s) \/ Begin(s) \/ Done(s)
  BY <1>2 DEF Connect, Return, Begin, Done
<1>3. CASE Lock(s) \/ TryLock(s) \/ GiveUp(s) \/ Released(s) \/ Close(s)
  BY <1>3 DEF Lock, TryLock, GiveUp, Released, Close
<1>4. CASE Timeout(s) \/ CloseEarly(s) \/ StopClient(s)
  BY <1>4 DEF Timeout, CloseEarly, StopClient
<1>5. CASE BeginRelease(s) \/ CloseForRelease(s) \/ Unlock(s)
  BY <1>5 DEF BeginRelease, CloseForRelease, Unlock
<1>6. CASE Fork(s) \/ Exit(s) \/ Kill(s) \/ Die(s)
  BY <1>6 DEF Fork, Exit, Kill, Die
<1>7. QED
  BY <1>1, <1>2, <1>3, <1>4, <1>5, <1>6, StepCases

\* The steps at which the lock changes hands.
LEMMA HolderStep ==
  ASSUME SessionInv, NEW s \in Sessions, Step(s), holder' # holder
  PROVE  \/ holder = Nobody /\ holder' = s /\ ~Working(s) /\ ~Working(s)'
         \/ holder = s /\ holder' = Nobody /\ ~Working(s)'
<1>1. TryLock(s) \/ Unlock(s) \/ Die(s)
  BY StepCases DEF Connect, Return, Begin, FileCall, Run, Done, Lock, GiveUp, Released,
     Close, Timeout, CloseEarly, StopClient, BeginRelease, CloseForRelease, Fork, Exit, Kill
<1> USE DEF SessionInv, TypeOK, Orderly, Working, Calling, Goto, Alive,
            NothingToReleaseYet, ProcessesAwaited
<1>2. CASE TryLock(s)
  BY <1>2 DEF TryLock
<1>3. CASE Unlock(s)
  BY <1>3 DEF Unlock, Drained
<1>4. CASE Die(s)
  BY <1>4 DEF Die
<1>5. QED
  BY <1>1, <1>2, <1>3, <1>4

\* Every step of the sessions is a step of the contract or changes nothing it can see.
LEMMA LeaseStep ==
  SessionInv /\ [Next]_vars => [Contract!LeaseNext]_(Contract!leaseVars)
<1> SUFFICES ASSUME SessionInv, [Next]_vars
             PROVE  [Contract!LeaseNext]_(Contract!leaseVars)
  OBVIOUS
<1>1. CASE UNCHANGED vars
  BY <1>1 DEF vars, Contract!leaseVars, Working
<1>2. CASE ElsewhereLocks \/ ElsewhereUnlocks
  BY <1>2 DEF ElsewhereLocks, ElsewhereUnlocks, Working, Contract!LeaseNext, Contract!Foreign
<1>3. ASSUME NEW s \in Sessions, Step(s)
      PROVE  [Contract!LeaseNext]_(Contract!leaseVars)
  <2> USE DEF Busy, Contract!leaseVars, Contract!LeaseNext
  <2>1. Busy' = IF Working(s)' THEN Busy \cup {s} ELSE Busy \ {s}
    BY <1>3, BusyStep
  <2>2. CASE holder' # holder
    <3>1. CASE holder = Nobody /\ holder' = s /\ ~Working(s) /\ ~Working(s)'
      BY <1>3, <2>1, <3>1 DEF Contract!Take
    <3>2. CASE holder = s /\ holder' = Nobody /\ ~Working(s)'
      BY <1>3, <2>1, <3>2 DEF Contract!Release
    <3>3. QED
      BY <1>3, <2>2, <3>1, <3>2, HolderStep
  <2>3. CASE UNCHANGED holder /\ ~Working(s)'
    BY <1>3, <2>1, <2>3 DEF Contract!Finish
  <2>4. CASE UNCHANGED holder /\ Working(s)'
    <3>1. CASE Working(s)
      BY <1>3, <2>1, <2>4, <3>1
    <3>2. CASE ~Working(s)
      BY <1>3, <2>1, <2>4, <3>2, CallsStart DEF Contract!Start
    <3>3. QED
      BY <3>1, <3>2
  <2>5. QED
    BY <2>2, <2>3, <2>4
<1>4. QED
  BY <1>1, <1>2, <1>3 DEF Next

\* The local session implements the lease contract of host.Session for any number of
\* operations: calls start under the lock, the lock is given back when they are over.
THEOREM LeaseImplemented == Spec => ImplementsLease
<1>1. Init => Contract!LeaseInit
  BY DEF Init, Contract!LeaseInit, Working
<1>2. QED
  BY <1>1, LeaseStep, SessionInvariant, PTL DEF Spec, ImplementsLease, Contract!LeaseSpec
=============================================================================
