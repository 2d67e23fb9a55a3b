------------------------ MODULE RemoteSessionProofs -------------------------
(***************************************************************************)
(* Any number of operations over SSH and any bound on power failures and   *)
(* other disturbances: success under the lock, and files that are whole    *)
(* and durable.                                                            *)
(***************************************************************************)
EXTENDS RemoteSession, TLAPS

\* The request on the way is the one that the operation waits for.  The connection may
\* outlive a failed operation, and its last request with it.
OneRequest(o) ==
  /\ at[o] \in Waiting => wire[o] \subseteq {at[o]}
  /\ at[o] \notin Waiting /\ ~(at[o] = "ended" /\ failed[o]) => wire[o] = {}
  /\ answered[o] => at[o] \in Waiting /\ wire[o] = {}
  /\ \A r, s \in wire[o] : r = s

\* The lock's process lives as long as the host serves the connection.
LockServed(o) ==
  at[o] \in Writing \cup {"fn"} \/ (at[o] = "lock" /\ answered[o])
    => flock[o] # "none" \/ ~peer[o]

\* An operation that did something without its lock waits for an answer that the host
\* cannot send, or has failed.
StrayFails(o) ==
  o \in stray =>
    \/ at[o] \in Writing /\ ~answered[o] /\ ~peer[o]
    \/ at[o] = "ended" /\ failed[o]

\* Between the rename and the answer to the sync that follows, a power failure may take
\* the file away.
InDoubt(o) ==
  at[o] = "rename" \/ (at[o] = "sync dir" /\ ~answered[o]) \/ (at[o] = "ended" /\ failed[o])

Durable(o) == ~InDoubt(o) /\ dest.by = o => safe = o

Complete(o) == tmp[o] \in {"whole", "synced"}

\* What the client knows of its temporary file holds until the host loses its power, and
\* nothing that was asked before changes it: the file is complete when it is synced, and
\* synced when it is renamed.
FileReady(o) ==
  /\ at[o] \in Copying /\ answered[o] /\ peer[o] => Complete(o)
  /\ "sync" \in wire[o] => Complete(o)
  /\ at[o] = "sync" /\ answered[o] /\ peer[o] => tmp[o] = "synced"
  /\ "rename" \in wire[o] => tmp[o] = "synced"

Orderly(o) ==
  OneRequest(o) /\ LockServed(o) /\ StrayFails(o) /\ Durable(o) /\ FileReady(o)

RemoteInv == TypeOK /\ dest.data = "synced" /\ \A o \in Operations : Orderly(o)

-----------------------------------------------------------------------------

Step(o) ==
  \/ Operation(o) \/ Timeout(o) \/ CloseConnection(o) \/ Notice(o) \/ Die(o)
  \/ Host(o) \/ HangUp(o) \/ Break(o) \/ KillFlock(o) \/ Lose(o) \/ Fail(o)

\* The steps of an operation, its callbacks and the host, by what they do to the operation.
Asks(o, r) ==
  /\ \/ at[o] = "connected" /\ r = "lock"
     \/ at[o] = "fn" /\ r \in Copying
     \/ at[o] \in Copying /\ answered[o] /\ r = "sync"
     \/ at[o] = "sync" /\ answered[o] /\ r = "rename"
     \/ at[o] = "rename" /\ answered[o] /\ r = "sync dir"
  /\ Ask(o, r) /\ UNCHANGED failed

Leaves(o) == \E err \in BOOLEAN : Leave(o, err) /\ (~err => at[o] = "fn")

LEMMA StepCases ==
  ASSUME NEW o \in Operations, Step(o)
  PROVE  \/ Start(o) \/ Connect(o) \/ Locked(o) \/ Written(o)
         \/ \E r \in Waiting : Asks(o, r)
         \/ Leaves(o)
         \/ Timeout(o) \/ CloseConnection(o) \/ Notice(o)
         \/ Acquire(o) \/ FlockEnds(o) \/ CreateFile(o) \/ Execute(o)
         \/ HangUp(o) \/ Break(o) \/ KillFlock(o) \/ Lose(o) \/ Fail(o)
<1>1. ASSUME Lock(o) \/ Copy(o) \/ Sync(o) \/ Rename(o) \/ SyncDir(o)
      PROVE  \E r \in Waiting : Asks(o, r)
  BY <1>1 DEF Lock, Copy, Sync, Rename, FileSynced, SyncDir, Asks, Waiting, Writing
<1>2. ASSUME Refused(o) \/ DialGivesUp(o) \/ LockFails(o) \/ WriteFails(o) \/ Return(o) \/ Die(o)
      PROVE  Leaves(o)
  BY <1>2 DEF Refused, DialGivesUp, LockFails, WriteFails, Return, Die, Leaves
<1> QED
  BY <1>1, <1>2 DEF Step, Operation, Host

LEMMA ClosedStep ==
  ASSUME TypeOK, NEW o \in Operations, Step(o), NEW p \in Operations
  PROVE  Closed(p)'
<1> USE CopyingAssumption DEF TypeOK, Closed, Waiting, Writing, Goto, client, link
<1>1. CASE Start(o) \/ Connect(o) \/ Locked(o) \/ Written(o)
  <2>1. PICK place \in {"dialing", "connected", "fn"} : at' = [at EXCEPT ![o] = place]
    BY <1>1 DEF Start, Connect, Locked, Written
  <2>2. done' = done /\ (p = o \/ up'[p] = up[p])
    BY <1>1 DEF Start, Connect, Locked, Written
  <2> QED
    BY <2>1, <2>2
<1>2. ASSUME NEW r \in Waiting, Asks(o, r)
      PROVE  Closed(p)'
  <2>1. r # "ended" /\ at' = [at EXCEPT ![o] = r] /\ UNCHANGED <<done, up>>
    BY <1>2 DEF Asks, Ask
  <2> QED
    BY <2>1
<1>3. ASSUME NEW err \in BOOLEAN, Leave(o, err)
      PROVE  Closed(p)'
  BY <1>3 DEF Leave
<1>4. CASE Timeout(o) \/ CloseConnection(o) \/ Notice(o)
  BY <1>4 DEF Timeout, CloseConnection, Notice
<1>5. UNCHANGED <<at, done, up>> \/ ~(Acquire(o) \/ FlockEnds(o) \/ CreateFile(o)
        \/ Execute(o) \/ HangUp(o) \/ Break(o) \/ KillFlock(o) \/ Lose(o) \/ Fail(o))
  BY DEF Acquire, FlockEnds, CreateFile, Execute, HangUp, Break, KillFlock, Lose, Fail
<1> QED
  BY <1>1, <1>2, <1>3, <1>4, <1>5, StepCases DEF Leaves

LEMMA DisturbanceBounded ==
  ASSUME TypeOK, Disturbance
  PROVE  faults' \in 0..MaxFaults
BY FaultAssumption DEF TypeOK, Disturbance

LEMMA TypeStep ==
  ASSUME TypeOK, NEW o \in Operations, Step(o)
  PROVE  TypeOK'
<1> USE CopyingAssumption DEF TypeOK, Data, Places, Waiting, Writing, Goto, client, link, host, disk
<1>0. \A p \in Operations : Closed(p)'
  BY ClosedStep
<1>1. CASE Start(o) \/ Connect(o) \/ Locked(o) \/ Written(o)
  BY <1>0, <1>1 DEF Start, Connect, Locked, Written
<1>2. ASSUME NEW r \in Waiting, Asks(o, r)
      PROVE  TypeOK'
  <2>1. at' \in [Operations -> Places] /\ answered' \in [Operations -> BOOLEAN]
    BY <1>2 DEF Asks, Ask
  <2>2. wire' \in [Operations -> SUBSET Waiting]
    <3>1. wire'= [wire EXCEPT ![o] = wire'[o]] /\ wire'[o] \subseteq wire[o] \cup {r}
      BY <1>2 DEF Asks, Ask
    <3>2. wire \in [Operations -> SUBSET Waiting] /\ r \in Waiting
      OBVIOUS
    <3> HIDE DEF Waiting, TypeOK
    <3>3. wire'[o] \in SUBSET Waiting
      BY <3>1, <3>2
    <3> QED
      BY <3>1, <3>2, <3>3
  <2> QED
    BY <1>0, <1>2, <2>1, <2>2 DEF Asks, Ask
<1>3. ASSUME NEW err \in BOOLEAN, Leave(o, err)
      PROVE  TypeOK'
  <2>1. at' \in [Operations -> Places] /\ answered' \in [Operations -> BOOLEAN]
    BY <1>3 DEF Leave
  <2> QED
    BY <1>0, <1>3, <2>1 DEF Leave
<1>4. CASE Timeout(o) \/ CloseConnection(o) \/ Notice(o)
  BY <1>0, <1>4 DEF Timeout, CloseConnection, Notice
<1>5. CASE Acquire(o)
  <2>1. answered' \in [Operations -> BOOLEAN] /\ wire' \in [Operations -> SUBSET Waiting]
    BY <1>5 DEF Acquire, Taken, Answer
  <2> QED
    BY <1>0, <1>5, <2>1 DEF Acquire
<1>6. CASE FlockEnds(o) \/ HangUp(o) \/ Break(o) \/ KillFlock(o)
  <2>1. faults' \in 0..MaxFaults
    BY <1>6, DisturbanceBounded DEF FlockEnds, HangUp, Break, KillFlock
  <2> QED
    BY <1>0, <1>6, <2>1 DEF FlockEnds, HangUp, Break, KillFlock
<1>7. CASE Lose(o) \/ Fail(o)
  <2>1. PICK r \in wire[o] : Taken(o, r)
    BY <1>7 DEF Lose, Fail
  <2>2. wire' \in [Operations -> SUBSET Waiting]
    BY <2>1 DEF Taken
  <2>3. faults' \in 0..MaxFaults
    BY <1>7, DisturbanceBounded DEF Lose, Fail
  <2> QED
    BY <1>0, <1>7, <2>2, <2>3 DEF Lose, Fail
<1>8. CASE Execute(o)
  <2>1. PICK r \in wire[o] :
          /\ \/ r \in Copying /\ DoCopy(o)
             \/ r = "rename" /\ DoRename(o)
             \/ r \in {"sync", "sync dir"} /\ DoSync
          /\ Taken(o, r) /\ Answer(o, r)
    BY <1>8 DEF Execute
  <2>2. wire' \in [Operations -> SUBSET Waiting] /\ answered' \in [Operations -> BOOLEAN]
    BY <2>1 DEF Taken, Answer
  <2>3. /\ tmp' \in [Operations -> {"none"} \cup Data]
        /\ dest' \in [by : Operations \cup {Old}, data : Data \cup {"torn"}]
        /\ safe' \in Operations \cup {Old}
    <3>1. CASE DoCopy(o)
      BY <3>1 DEF DoCopy
    <3>2. CASE DoRename(o)
      BY <3>2 DEF DoRename
    <3>3. CASE DoSync
      BY <3>3 DEF DoSync, WrittenBack
    <3> QED
      BY <2>1, <3>1, <3>2, <3>3
  <2>4. UNCHANGED <<at, failed, done, up, peer, flock, faults>> /\ stray' \in SUBSET Operations
    BY <1>8 DEF Execute, Strays
  <2> QED
    BY <1>0, <2>2, <2>3, <2>4
<1>9. CASE CreateFile(o)
  BY <1>0, <1>9 DEF CreateFile, Strays
<1> QED
  BY <1>1, <1>2, <1>3, <1>4, <1>5, <1>6, <1>7, <1>8, <1>9, StepCases DEF Leaves

\* The requests that change files.
LEMMA ExecuteCases ==
  ASSUME NEW o \in Operations, Execute(o)
  PROVE  \E r \in wire[o] :
           /\ \/ r \in Copying /\ DoCopy(o)
              \/ r = "rename" /\ DoRename(o)
              \/ r \in {"sync", "sync dir"} /\ DoSync
           /\ Taken(o, r) /\ Answer(o, r)
BY DEF Execute

\* What the step of one operation leaves alone.
Untouched(p) ==
  /\ at'[p] = at[p] /\ answered'[p] = answered[p] /\ failed'[p] = failed[p]
  /\ peer'[p] = peer[p] /\ flock'[p] = flock[p] /\ wire'[p] = wire[p]
  /\ p \in stray' => p \in stray
  /\ dest'.by = p => dest.by = p /\ (safe = p => safe' = p)
  /\ tmp'[p] \in {tmp[p], WrittenBack(tmp[p])}

LEMMA OthersUntouched ==
  ASSUME TypeOK, NEW o \in Operations, Step(o), NEW p \in Operations, p # o
  PROVE  Untouched(p)
<1> USE DEF TypeOK, Goto, Untouched, client, link, host, disk
<1>1. CASE Start(o) \/ Connect(o) \/ Locked(o) \/ Written(o)
  BY <1>1 DEF Start, Connect, Locked, Written
<1>2. ASSUME NEW r \in Waiting, Asks(o, r)
      PROVE  Untouched(p)
  BY <1>2 DEF Asks, Ask
<1>3. ASSUME NEW err \in BOOLEAN, Leave(o, err)
      PROVE  Untouched(p)
  BY <1>3 DEF Leave
<1>4. CASE Timeout(o) \/ CloseConnection(o) \/ Notice(o)
  BY <1>4 DEF Timeout, CloseConnection, Notice
<1>5. CASE Acquire(o) \/ FlockEnds(o) \/ HangUp(o) \/ Break(o) \/ KillFlock(o) \/ Lose(o) \/ Fail(o)
  BY <1>5 DEF Acquire, FlockEnds, HangUp, Break, KillFlock, Lose, Fail, Taken, Answer
<1>6. CASE Execute(o)
  <2>1. PICK r \in wire[o] :
          /\ \/ r \in Copying /\ DoCopy(o)
             \/ r = "rename" /\ DoRename(o)
             \/ r \in {"sync", "sync dir"} /\ DoSync
          /\ Taken(o, r) /\ Answer(o, r)
    BY <1>6, ExecuteCases
  <2>2. wire'[p] = wire[p] /\ answered'[p] = answered[p]
    BY <2>1 DEF Taken, Answer
  <2>3. /\ dest'.by = p => dest.by = p /\ (safe = p => safe' = p)
        /\ tmp'[p] \in {tmp[p], WrittenBack(tmp[p])}
    <3>1. CASE DoCopy(o)
      BY <3>1 DEF DoCopy
    <3>2. CASE DoRename(o)
      BY <3>2 DEF DoRename
    <3>3. CASE DoSync
      <4>1. dest'.by = dest.by
        BY <3>3 DEF DoSync
      <4> QED
        BY <3>3, <4>1 DEF DoSync
    <3> QED
      BY <2>1, <3>1, <3>2, <3>3
  <2>4. p \in stray' => p \in stray
    BY <1>6 DEF Execute, Strays
  <2> QED
    BY <1>6, <2>2, <2>3, <2>4 DEF Execute
<1>7. CASE CreateFile(o)
  BY <1>7 DEF CreateFile, Strays
<1> QED
  BY <1>1, <1>2, <1>3, <1>4, <1>5, <1>6, <1>7, StepCases DEF Leaves

LEMMA OrderlyKept ==
  ASSUME NEW p \in Operations, Orderly(p), Untouched(p)
  PROVE  Orderly(p)'
<1>1. OneRequest(p)' /\ LockServed(p)' /\ StrayFails(p)' /\ Durable(p)'
  BY DEF Orderly, Untouched, OneRequest, LockServed, StrayFails, InDoubt, Durable
<1>2. FileReady(p)'
  BY DEF Orderly, Untouched, FileReady, Complete, WrittenBack
<1> QED
  BY <1>1, <1>2 DEF Orderly

\* The operation that makes the step.
LEMMA OrderlyStep ==
  ASSUME TypeOK, NEW o \in Operations, Orderly(o), Step(o)
  PROVE  OneRequest(o)' /\ LockServed(o)' /\ StrayFails(o)' /\ Durable(o)'
<1> USE CopyingAssumption DEF TypeOK, Orderly, OneRequest, LockServed, StrayFails, InDoubt,
            Durable, Waiting, Writing, Goto, client, link, host, disk
<1>1. CASE Start(o) \/ Connect(o)
  BY <1>1 DEF Start, Connect
<1>2. CASE Locked(o) \/ Written(o)
  BY <1>2 DEF Locked, Written, LastStep
<1>3. ASSUME NEW r \in Waiting, Asks(o, r)
      PROVE  OneRequest(o)' /\ LockServed(o)' /\ StrayFails(o)' /\ Durable(o)'
  <2>1. wire[o] = {} /\ o \notin stray
    BY <1>3 DEF Asks
  <2>2. at'[o] = r /\ answered'[o] = FALSE /\ wire'[o] \subseteq {r}
    BY <1>3, <2>1 DEF Asks, Ask
  <2>3. UNCHANGED <<failed, peer, flock, dest, safe, stray>>
    BY <1>3 DEF Asks, Ask
  <2>4. r \in Writing => at[o] \in Writing \cup {"fn"}
    BY <1>3 DEF Asks
  <2>5. r \in {"rename", "sync dir"} \/ ~InDoubt(o)
    BY <1>3 DEF Asks
  <2>6. r \in Waiting
    OBVIOUS
  <2>7. OneRequest(o)'
    BY <2>1, <2>2, <2>6
  <2>8. LockServed(o)' /\ StrayFails(o)'
    BY <2>1, <2>2, <2>3, <2>4
  <2>9. Durable(o)'
    BY <1>3, <2>2, <2>3, <2>5 DEF Asks
  <2> QED
    BY <2>7, <2>8, <2>9
<1>4. ASSUME NEW err \in BOOLEAN, Leave(o, err), ~err => at[o] = "fn"
      PROVE  OneRequest(o)' /\ LockServed(o)' /\ StrayFails(o)' /\ Durable(o)'
  BY <1>4 DEF Leave
<1>5. CASE Timeout(o) \/ CloseConnection(o) \/ Notice(o)
  BY <1>5 DEF Timeout, CloseConnection, Notice
<1>6. CASE Acquire(o)
  BY <1>6 DEF Acquire, Taken, Answer
<1>7. CASE FlockEnds(o) \/ HangUp(o) \/ Break(o) \/ KillFlock(o)
  BY <1>7 DEF FlockEnds, EndOfInput, Holding, HangUp, Break, KillFlock
<1>8. CASE Lose(o) \/ Fail(o)
  <2>1. PICK r \in wire[o] : wire' = [wire EXCEPT ![o] = @ \ {r}]
    BY <1>8 DEF Lose, Fail, Taken
  <2> QED
    BY <1>8, <2>1 DEF Lose, Fail
<1>9. CASE Execute(o)
  <2>1. PICK r \in wire[o] :
          /\ \/ r \in Copying /\ DoCopy(o)
             \/ r = "rename" /\ DoRename(o)
             \/ r \in {"sync", "sync dir"} /\ DoSync
          /\ Taken(o, r) /\ Answer(o, r)
    BY <1>9, ExecuteCases
  <2>2. UNCHANGED <<at, failed, peer, flock>>
    BY <1>9 DEF Execute
  <2>3. wire'[o] = wire[o] \ {r} /\ ~answered[o]
    BY <2>1 DEF Taken
  <2>4. answered'[o] => at[o] = r /\ peer[o]
    BY <2>1, <2>3 DEF Answer
  <2>5. (at[o] = r \/ (at[o] = "ended" /\ failed[o])) /\ r \in Writing
    BY <2>1
  <2>6. OneRequest(o)' /\ LockServed(o)'
    <3>1. wire[o] \subseteq {r}
      OBVIOUS
    <3>2. wire'[o] = {}
      BY <2>3, <3>1
    <3>3. OneRequest(o)'
      BY <2>2, <2>4, <2>5, <3>2
    <3>4. LockServed(o)'
      BY <2>2, <2>4, <2>5
    <3> QED
      BY <3>3, <3>4
  <2>7. StrayFails(o)'
    BY <1>9, <2>2, <2>3, <2>4, <2>5 DEF Execute, Strays, Alive
  <2>8. Durable(o)'
    <3>1. CASE r \in Copying /\ DoCopy(o)
      BY <2>2, <2>4, <2>5, <3>1 DEF DoCopy
    <3>2. CASE r = "rename" /\ DoRename(o)
      BY <2>2, <2>5, <3>2
    <3>3. CASE DoSync
      BY <3>3 DEF DoSync
    <3> QED
      BY <2>1, <3>1, <3>2, <3>3
  <2> QED
    BY <2>6, <2>7, <2>8
<1>10. CASE CreateFile(o)
  <2>1. at[o] \in Copying /\ ~answered[o] /\ (o \in stray' /\ o \notin stray => ~peer[o])
    BY <1>10 DEF CreateFile, Strays, Alive
  <2> QED
    BY <1>10, <2>1 DEF CreateFile
<1> QED
  BY <1>1, <1>2, <1>3, <1>4, <1>5, <1>6, <1>7, <1>8, <1>9, <1>10, StepCases DEF Leaves

\* Its file is complete before it asks for the sync, synced before it asks for the rename,
\* and no request of before is left that would change it.
LEMMA FileReadyStep ==
  ASSUME TypeOK, NEW o \in Operations, Orderly(o), Step(o)
  PROVE  FileReady(o)'
<1> USE CopyingAssumption DEF TypeOK, Orderly, OneRequest, FileReady, Complete, Waiting, Writing,
            Goto, client, link, host, disk
<1>1. CASE Start(o) \/ Connect(o)
  BY <1>1 DEF Start, Connect
<1>2. CASE Locked(o) \/ Written(o)
  BY <1>2 DEF Locked, Written, LastStep
<1>3. ASSUME NEW r \in Waiting, Asks(o, r)
      PROVE  FileReady(o)'
  <2>1. at'[o] = r /\ answered'[o] = FALSE /\ UNCHANGED <<peer, tmp>> /\ wire[o] = {}
    BY <1>3 DEF Asks, Ask
  <2>2. wire'[o] \subseteq {r} /\ (wire'[o] # {} => peer[o])
    BY <1>3, <2>1 DEF Asks, Ask
  <2> QED
    BY <1>3, <2>1, <2>2 DEF Asks
<1>4. ASSUME NEW err \in BOOLEAN, Leave(o, err)
      PROVE  FileReady(o)'
  BY <1>4 DEF Leave
<1>5. CASE Timeout(o) \/ CloseConnection(o) \/ Notice(o)
  BY <1>5 DEF Timeout, CloseConnection, Notice
<1>6. CASE Acquire(o)
  BY <1>6 DEF Acquire, Taken, Answer
<1>7. CASE FlockEnds(o) \/ HangUp(o) \/ Break(o) \/ KillFlock(o)
  BY <1>7 DEF FlockEnds, HangUp, Break, KillFlock
<1>8. CASE Lose(o) \/ Fail(o)
  <2>1. PICK r \in wire[o] : wire' = [wire EXCEPT ![o] = @ \ {r}]
    BY <1>8 DEF Lose, Fail, Taken
  <2> QED
    BY <1>8, <2>1 DEF Lose, Fail
<1>9. CASE Execute(o)
  <2>1. PICK r \in wire[o] :
          /\ \/ r \in Copying /\ DoCopy(o)
             \/ r = "rename" /\ DoRename(o)
             \/ r \in {"sync", "sync dir"} /\ DoSync
          /\ Taken(o, r) /\ Answer(o, r)
    BY <1>9, ExecuteCases
  <2>2. UNCHANGED <<at, peer>> /\ wire[o] = {r} /\ wire'[o] = {} /\ ~answered[o]
    <3>1. r \in wire[o] /\ ~answered[o] /\ \A s \in wire[o] : s = r
      OBVIOUS
    <3>2. wire'[o] = wire[o] \ {r}
      BY <2>1 DEF Taken
    <3>3. wire[o] = {r}
      BY <3>1, Zenon
    <3> QED
      BY <1>9, <3>1, <3>2, <3>3 DEF Execute
  <2>3. answered'[o] => at[o] = r
    BY <2>1, <2>2 DEF Answer
  <2>4. CASE r \in Copying /\ DoCopy(o)
    BY <2>2, <2>3, <2>4 DEF DoCopy
  <2>5. CASE r = "rename" /\ DoRename(o)
    BY <2>2, <2>3, <2>5
  <2>6. CASE r \in {"sync", "sync dir"} /\ DoSync
    BY <2>2, <2>3, <2>6 DEF DoSync, WrittenBack
  <2> QED
    BY <2>1, <2>4, <2>5, <2>6
<1>10. CASE CreateFile(o)
  <2>1. wire[o] \subseteq Copying /\ ~answered[o]
    BY <1>10 DEF CreateFile, Alive
  <2> QED
    BY <1>10, <2>1 DEF CreateFile
<1> QED
  BY <1>1, <1>2, <1>3, <1>4, <1>5, <1>6, <1>7, <1>8, <1>9, <1>10, StepCases DEF Leaves

\* What is renamed is synced.
LEMMA WholeStep ==
  ASSUME TypeOK, dest.data = "synced", NEW o \in Operations, Orderly(o), Step(o)
  PROVE  dest'.data = "synced"
<1>1. CASE Execute(o)
  <2>1. PICK r \in wire[o] :
          \/ r \in Copying /\ DoCopy(o)
          \/ r = "rename" /\ DoRename(o)
          \/ r \in {"sync", "sync dir"} /\ DoSync
    BY <1>1, ExecuteCases
  <2>2. CASE DoCopy(o)
    BY <2>2 DEF DoCopy
  <2>3. CASE r = "rename" /\ DoRename(o)
    BY <2>3 DEF DoRename, Orderly, FileReady
  <2>4. CASE DoSync
    BY <2>4 DEF DoSync, WrittenBack, TypeOK
  <2> QED
    BY <2>1, <2>2, <2>3, <2>4
<1>2. Execute(o) \/ UNCHANGED dest
  BY StepCases DEF Start, Connect, Locked, Written, Asks, Ask, Leaves, Leave, Timeout,
     CloseConnection, Notice, Acquire, FlockEnds, CreateFile, HangUp, Break, KillFlock,
     Lose, Fail, disk
<1> QED
  BY <1>1, <1>2

\* A power failure ends the connections and the requests; what it leaves is safe.
LEMMA PowerFailureStep ==
  ASSUME RemoteInv, PowerFailure
  PROVE  RemoteInv'
<1>1. /\ UNCHANGED <<at, answered, failed, done, up, stray>>
      /\ \A o \in Operations : peer'[o] = FALSE /\ wire'[o] = {} /\ tmp'[o] = "none"
      /\ safe' = dest'.by
  BY DEF PowerFailure, client, link
<1>2. /\ dest' \in [by : Operations \cup {Old}, data : Data \cup {"torn"}]
      /\ dest'.data = "synced"
  <2>1. CASE dest' = [dest EXCEPT !.data = IF @ = "synced" THEN "synced" ELSE "torn"]
    BY <2>1 DEF RemoteInv, TypeOK, Data
  <2>2. CASE dest' = [by |-> safe, data |-> "synced"]
    BY <2>2 DEF RemoteInv, TypeOK, Data
  <2> QED
    BY <2>1, <2>2 DEF PowerFailure
<1>3. TypeOK'
  <2>1. faults' \in 0..MaxFaults
    BY DisturbanceBounded DEF PowerFailure, RemoteInv
  <2>2. /\ peer' \in [Operations -> BOOLEAN]
        /\ flock' \in [Operations -> {"none", "holding", "killed"}]
        /\ wire' \in [Operations -> SUBSET Waiting]
        /\ tmp' \in [Operations -> {"none"} \cup Data]
    BY DEF PowerFailure
  <2> QED
    BY <1>1, <1>2, <2>1, <2>2 DEF RemoteInv, TypeOK, Closed
<1>4. ASSUME NEW o \in Operations
      PROVE  Orderly(o)'
  BY <1>1 DEF RemoteInv, Orderly, OneRequest, LockServed, StrayFails, InDoubt, Durable, FileReady
<1> QED
  BY <1>2, <1>3, <1>4 DEF RemoteInv

LEMMA RemoteInductive == RemoteInv /\ [Next]_vars => RemoteInv'
<1> SUFFICES ASSUME RemoteInv, [Next]_vars PROVE RemoteInv'
  OBVIOUS
<1>1. CASE UNCHANGED vars
  <2>1. TypeOK'
    BY <1>1 DEF vars, client, link, host, disk, RemoteInv, TypeOK, Closed
  <2>2. ASSUME NEW o \in Operations
        PROVE  Orderly(o)'
    <3>1. Orderly(o)
      BY DEF RemoteInv
    <3> QED
      BY <1>1, <3>1 DEF vars, client, link, host, disk, Orderly, OneRequest, LockServed,
         StrayFails, InDoubt, Durable, FileReady, Complete
  <2> QED
    BY <1>1, <2>1, <2>2 DEF vars, disk, RemoteInv
<1>2. ASSUME NEW o \in Operations, Step(o)
      PROVE  RemoteInv'
  <2>1. TypeOK' /\ dest'.data = "synced"
    BY <1>2, TypeStep, WholeStep DEF RemoteInv
  <2>2. ASSUME NEW p \in Operations, p # o
        PROVE  Orderly(p)'
    BY <1>2, <2>2, OthersUntouched, OrderlyKept DEF RemoteInv
  <2>3. Orderly(o)'
    BY <1>2, OrderlyStep, FileReadyStep DEF RemoteInv, Orderly
  <2> QED
    BY <2>1, <2>2, <2>3 DEF RemoteInv
<1> QED
  BY <1>1, <1>2, PowerFailureStep DEF Next, Step

-----------------------------------------------------------------------------

\* The invariant behind the results below: one request at a time on a connection, a lock
\* that lives with the connection (lock.go:24-33), the sync of the data before the rename
\* and of the directory after it (install.go:83-92).
THEOREM RemoteInvariant == Spec => []RemoteInv
<1>1. Init => RemoteInv
  BY FaultAssumption, CopyingAssumption
     DEF Init, RemoteInv, TypeOK, Data, Places, Orderly, OneRequest, LockServed, StrayFails,
         InDoubt, Durable, FileReady, Complete, Waiting, Writing, Closed
<1> QED
  BY <1>1, RemoteInductive, PTL DEF Spec

\* Places, requests and files are what the code can produce.
THEOREM TypeCorrect == Spec => []TypeOK
<1>1. RemoteInv => TypeOK
  BY DEF RemoteInv
<1> QED
  BY <1>1, RemoteInvariant, PTL

\* For any number of operations, timeouts, broken connections and power failures: an
\* operation that reports success did everything under its lock, and nothing of it is on
\* the way when the lock goes (lock.go:16-17).
THEOREM SuccessWasUnderLock == Spec => []SuccessUnderLock
<1>1. RemoteInv => SuccessUnderLock
  BY CopyingAssumption DEF RemoteInv, Orderly, OneRequest, StrayFails, SuccessUnderLock, Succeeded, Waiting, Writing
<1> QED
  BY <1>1, RemoteInvariant, PTL

\* However many operations fail, at whatever point of an upload, a sync or a rename, with
\* whatever requests executed after the lock is gone, and whenever the power goes: the
\* destination holds a whole file. A rename is asked for only when the sync of the complete
\* file was answered, and a power failure or a broken connection after that answer takes
\* the rename with it (install.go:42-44,83-90).
THEOREM DestinationStaysWhole == Spec => []DestinationWhole
<1>1. RemoteInv => DestinationWhole
  BY DEF RemoteInv, DestinationWhole
<1> QED
  BY <1>1, RemoteInvariant, PTL

\* The file of an operation that reported success survives every power failure until
\* another operation replaces it: WriteFile returns after the directory is synced
\* (install.go:92).
THEOREM SuccessIsDurable == Spec => []SuccessDurable
<1>1. RemoteInv => SuccessDurable
  BY DEF RemoteInv, Orderly, InDoubt, Durable, SuccessDurable, Succeeded
<1> QED
  BY <1>1, RemoteInvariant, PTL
=============================================================================
