--------------------------- MODULE RemoteSession ----------------------------
(***************************************************************************)
(* Sessions of the SSH transport, one connection per operation, and the    *)
(* files they write.  The lock is held by a process on the host, which     *)
(* lives as long as its connection; requests that the host has received    *)
(* may be executed when the connection and the lock are gone.  Operations  *)
(* replace one destination file: upload or copy to a temporary file, sync  *)
(* it, rename it, sync the directory.  Each is a request of its own, and   *)
(* the host may lose its power between and during them.                    *)
(***************************************************************************)
EXTENDS Naturals

CONSTANTS
  Operations,
  Old,          \* who wrote the file that was there before
  Copying,      \* how they make their temporary file: WriteFile uploads the data over
                \* SFTP, InstallFile runs install on the host
  MaxFaults     \* bound on power failures, connections that break, requests that fail on a
                \* connection that stands and flock processes that are killed, together

ASSUME OldIsNoOperation == Old \notin Operations

ASSUME CopyingAssumption == Copying \subseteq {"upload", "install"}

ASSUME FaultAssumption == MaxFaults \in Nat

VARIABLES
  at,           \* at[o]: where the operation is; in a call, the request it waits for
  answered,     \* answered[o]: that request succeeded, and the client knows
  failed,       \* failed[o]: a call returned an error
  done,         \* done[o]: the context is cancelled (the operation's, or the lease)
  up,           \* up[o]: the client's end of the connection is open
  peer,         \* peer[o]: sshd serves the connection
  flock,        \* flock[o]: the process that takes and holds the lock
  wire,         \* wire[o]: requests sent and not executed
  tmp,          \* tmp[o]: the temporary file: none, part of the data, all of it, synced
  dest,         \* the destination: who wrote it, and the state of its data
  safe,         \* who wrote what a power failure certainly leaves at the destination
  stray,        \* history: operations that did something after their connection lost the lock
  faults        \* disturbances so far

client == <<at, answered, failed>>

link == <<done, up>>

host == <<peer, flock>>

disk == <<tmp, dest, safe>>

vars == <<client, link, host, wire, disk, stray, faults>>

Writing == Copying \cup {"sync", "rename", "sync dir"}

\* Client.Run looks at the context, SFTP requests do not.
Commands == {"install", "sync", "sync dir"}

Waiting == Writing \cup {"lock"}

Places == Waiting \cup {"new", "dialing", "connected", "fn", "ended"}

Alive(o) == at[o] \notin {"new", "ended"}

Holding(o) == flock[o] = "holding"

\* Slips: a lock command that does not live on its stdin; a timeout that does not close the
\* connection; no sync of the directory. (LeaveOpen: a release that does not close the
\* connection; SyncTried: a sync whose error is dropped.)
AnyTime(o) == TRUE

Never(o) == FALSE

RenameLast == "rename"

Init ==
  /\ at = [o \in Operations |-> "new"]
  /\ answered = [o \in Operations |-> FALSE]
  /\ failed = [o \in Operations |-> FALSE]
  /\ done = [o \in Operations |-> FALSE]
  /\ up = [o \in Operations |-> FALSE]
  /\ peer = [o \in Operations |-> FALSE]
  /\ flock = [o \in Operations |-> "none"]
  /\ wire = [o \in Operations |-> {}]
  /\ tmp = [o \in Operations |-> "none"]
  /\ dest = [by |-> Old, data |-> "synced"]
  /\ safe = Old
  /\ stray = {}
  /\ faults = 0

-----------------------------------------------------------------------------
(* The operation.                                                          *)

Goto(o, place) ==
  /\ at' = [at EXCEPT ![o] = place]
  /\ answered' = [answered EXCEPT ![o] = FALSE]

LeaveOpen(o, err) ==
  /\ Goto(o, "ended")
  /\ failed' = [failed EXCEPT ![o] = err]
  /\ done' = [done EXCEPT ![o] = TRUE]
  /\ UNCHANGED <<up, host, wire, disk, stray, faults>>

\* The operation is over, successfully or not: release or Close closes the connection.
Leave(o, err) ==
  /\ Goto(o, "ended")
  /\ failed' = [failed EXCEPT ![o] = err]
  /\ done' = [done EXCEPT ![o] = TRUE]
  /\ up' = [up EXCEPT ![o] = FALSE]
  /\ UNCHANGED <<host, wire, disk, stray, faults>>

\* Run fails at once when the context is done, SFTP when the connection is closed.  A
\* request on a connection that is broken and not closed gets nowhere.
Ask(o, r) ==
  /\ Goto(o, r)
  /\ wire' = [wire EXCEPT ![o] = IF up[o] /\ peer[o] /\ ~(r \in Commands /\ done[o])
                                 THEN @ \cup {r} ELSE @]
  /\ UNCHANGED <<link, host, disk, stray, faults>>

Interrupted(o) == ~up[o] \/ (at[o] \in Commands /\ done[o])

\* A call fails by an error that the host sends in place of an answer, when the connection
\* closes, or, in Run, when the context is done.
Fails(o) == ~answered[o] /\ (Interrupted(o) \/ (peer[o] /\ at[o] \notin wire[o]))

Start(o) ==
  /\ at[o] = "new"
  /\ Goto(o, "dialing")
  /\ UNCHANGED <<failed, link, host, wire, disk, stray, faults>>

\* Connect dials until the host answers or the context is done; a handshake that fails
\* is final.
Connect(o) ==
  /\ at[o] = "dialing"
  /\ Goto(o, "connected")
  /\ up' = [up EXCEPT ![o] = TRUE]
  /\ peer' = [peer EXCEPT ![o] = TRUE]
  /\ UNCHANGED <<failed, done, flock, wire, disk, stray, faults>>

Refused(o) == at[o] = "dialing" /\ Leave(o, TRUE)

DialGivesUp(o) == at[o] = "dialing" /\ done[o] /\ Leave(o, TRUE)

Lock(o) == at[o] = "connected" /\ Ask(o, "lock") /\ UNCHANGED failed

Locked(o) ==
  /\ at[o] = "lock"
  /\ answered[o]
  /\ Goto(o, "fn")
  /\ UNCHANGED <<failed, link, host, wire, disk, stray, faults>>

LockFails(o) == at[o] = "lock" /\ Fails(o) /\ Leave(o, TRUE)

\* WriteFile and InstallFile.  Their deferred removal of the temporary file is left out:
\* its errors are ignored and nobody reads what it leaves.
Copy(o) ==
  /\ at[o] = "fn"
  /\ \E r \in Copying : Ask(o, r)
  /\ UNCHANGED failed

Sync(o) == at[o] \in Copying /\ answered[o] /\ Ask(o, "sync") /\ UNCHANGED failed

SyncTried(o) == at[o] = "sync" /\ (answered[o] \/ Fails(o))

FileSynced(o) == at[o] = "sync" /\ answered[o]

Rename(o) == FileSynced(o) /\ Ask(o, "rename") /\ UNCHANGED failed

SyncDir(o) == at[o] = "rename" /\ answered[o] /\ Ask(o, "sync dir") /\ UNCHANGED failed

LastStep == "sync dir"

Written(o) ==
  /\ at[o] = LastStep
  /\ answered[o]
  /\ Goto(o, "fn")
  /\ UNCHANGED <<failed, link, host, wire, disk, stray, faults>>

WriteFails(o) == at[o] \in Writing /\ Fails(o) /\ Leave(o, TRUE)

\* fn returns: all its calls succeeded, or something else went wrong.
Return(o) == at[o] = "fn" /\ \E err \in BOOLEAN : Leave(o, err)

Operation(o) ==
  \/ Start(o) \/ Connect(o) \/ Refused(o) \/ DialGivesUp(o)
  \/ Lock(o) \/ Locked(o) \/ LockFails(o)
  \/ Copy(o) \/ Sync(o) \/ Rename(o) \/ SyncDir(o) \/ Written(o) \/ WriteFails(o) \/ Return(o)

-----------------------------------------------------------------------------
(* The callbacks of the contexts and the goroutine that watches the lock.  *)

Timeout(o) ==
  /\ Alive(o)
  /\ ~done[o]
  /\ done' = [done EXCEPT ![o] = TRUE]
  /\ UNCHANGED <<client, up, host, wire, disk, stray, faults>>

Expired(o) == done[o]

\* AfterFunc of withHost and of Lock.
CloseConnection(o) ==
  /\ Alive(o)
  /\ Expired(o)
  /\ up[o]
  /\ up' = [up EXCEPT ![o] = FALSE]
  /\ UNCHANGED <<client, done, host, wire, disk, stray, faults>>

\* The client notices that the connection is gone, or that the lock's process ended;
\* session.Wait returns, which cancels the lease.
Notice(o) ==
  /\ Alive(o)
  /\ up[o]
  /\ ~peer[o] \/ flock[o] = "killed"
  /\ up' = [up EXCEPT ![o] = FALSE]
  /\ done' = [done EXCEPT ![o] = TRUE]
  /\ UNCHANGED <<client, host, wire, disk, stray, faults>>

\* The provider is killed.
Die(o) == Alive(o) /\ Leave(o, TRUE)

-----------------------------------------------------------------------------
(* The host.                                                               *)

Disturbance == faults < MaxFaults /\ faults' = faults + 1

\* sshd notices that the client is gone.
HangUp(o) ==
  /\ peer[o]
  /\ ~up[o]
  /\ peer' = [peer EXCEPT ![o] = FALSE]
  /\ UNCHANGED <<client, link, flock, wire, disk, stray, faults>>

\* The connection breaks.
Break(o) ==
  /\ peer[o]
  /\ up[o]
  /\ peer' = [peer EXCEPT ![o] = FALSE]
  /\ Disturbance
  /\ UNCHANGED <<client, link, flock, wire, disk, stray>>

\* An answer arrives as long as both ends of the connection are there.
Answer(o, r) ==
  answered' = [answered EXCEPT ![o] = @ \/ (at[o] = r /\ peer[o] /\ up[o])]

Strays(o) ==
  stray' = IF Alive(o) /\ flock[o] = "none" THEN stray \cup {o} ELSE stray

Taken(o, r) == wire' = [wire EXCEPT ![o] = @ \ {r}]

\* The process started by "lock" waits for the lock, also when nobody waits for it.
Acquire(o) ==
  /\ "lock" \in wire[o]
  /\ \A p \in Operations : ~Holding(p)
  /\ flock' = [flock EXCEPT ![o] = "holding"]
  /\ Taken(o, "lock")
  /\ Answer(o, "lock")
  /\ UNCHANGED <<at, failed, link, peer, disk, stray, faults>>

EndOfInput(o) == ~peer[o]

\* cat reads the end of its input.  A process that still waits for the lock does not
\* read: it takes the lock first.
FlockEnds(o) ==
  /\ flock[o] # "none"
  /\ EndOfInput(o)
  /\ flock' = [flock EXCEPT ![o] = "none"]
  /\ UNCHANGED <<client, link, peer, wire, disk, stray, faults>>

\* Somebody on the host kills the process.
KillFlock(o) ==
  /\ Holding(o)
  /\ flock' = [flock EXCEPT ![o] = "killed"]
  /\ Disturbance
  /\ UNCHANGED <<client, link, peer, wire, disk, stray>>

\* The temporary file is there before it is complete. (One that nobody will rename any
\* more is of no interest.)
CreateFile(o) ==
  /\ Alive(o)
  /\ wire[o] \cap Copying # {}
  /\ tmp[o] = "none"
  /\ tmp' = [tmp EXCEPT ![o] = "partial"]
  /\ Strays(o)
  /\ UNCHANGED <<client, link, host, wire, dest, safe, faults>>

DoCopy(o) ==
  /\ tmp[o] = "partial"
  /\ tmp' = [tmp EXCEPT ![o] = "whole"]
  /\ UNCHANGED <<dest, safe>>

DoRename(o) ==
  /\ tmp[o] # "none"
  /\ dest' = [by |-> o, data |-> tmp[o]]
  /\ tmp' = [tmp EXCEPT ![o] = "none"]
  /\ UNCHANGED safe

WrittenBack(data) == IF data = "whole" THEN "synced" ELSE data

\* sync -f writes back the whole file system, whatever file or directory it is given.
DoSync ==
  /\ tmp' = [o \in Operations |-> WrittenBack(tmp[o])]
  /\ dest' = [dest EXCEPT !.data = WrittenBack(@)]
  /\ safe' = dest.by

Execute(o) ==
  /\ \E r \in wire[o] :
       /\ \/ r \in Copying /\ DoCopy(o)
          \/ r = "rename" /\ DoRename(o)
          \/ r \in {"sync", "sync dir"} /\ DoSync
       /\ Taken(o, r)
       /\ Answer(o, r)
  /\ Strays(o)
  /\ UNCHANGED <<at, failed, link, host, faults>>

\* A request is lost with its connection; an upload may have begun.
Lose(o) ==
  /\ ~(up[o] /\ peer[o])
  /\ \E r \in wire[o] : Taken(o, r)
  /\ UNCHANGED <<client, link, host, disk, stray, faults>>

\* A request fails on the host.
Fail(o) ==
  /\ up[o] /\ peer[o]
  /\ \E r \in wire[o] : Taken(o, r)
  /\ Disturbance
  /\ UNCHANGED <<client, link, host, disk, stray>>

\* A rename that no sync followed may be lost, and data that was not synced is torn.
PowerFailure ==
  /\ Disturbance
  /\ peer' = [o \in Operations |-> FALSE]
  /\ flock' = [o \in Operations |-> "none"]
  /\ wire' = [o \in Operations |-> {}]
  /\ tmp' = [o \in Operations |-> "none"]
  /\ \/ dest' = [dest EXCEPT !.data = IF @ = "synced" THEN "synced" ELSE "torn"]
     \/ dest' = [by |-> safe, data |-> "synced"]
  /\ safe' = dest'.by
  /\ UNCHANGED <<client, link, stray>>

Host(o) == Acquire(o) \/ FlockEnds(o) \/ CreateFile(o) \/ Execute(o)

Next ==
  \/ \E o \in Operations :
       \/ Operation(o) \/ Timeout(o) \/ CloseConnection(o) \/ Notice(o) \/ Die(o)
       \/ Host(o) \/ HangUp(o) \/ Break(o) \/ KillFlock(o) \/ Lose(o) \/ Fail(o)
  \/ PowerFailure

Spec == Init /\ [][Next]_vars

\* Timers fire and their callbacks run, sshd finds out that a client is gone, and its
\* children read the end of their input.  Nothing is assumed of requests: they may never
\* be answered, and the client may never notice a broken connection.
Fairness ==
  \A o \in Operations :
    /\ WF_vars(Timeout(o) \/ CloseConnection(o))
    /\ WF_vars(HangUp(o) \/ FlockEnds(o))

FairSpec == Spec /\ Fairness

-----------------------------------------------------------------------------

Data == {"partial", "whole", "synced"}

Closed(o) == at[o] = "ended" => done[o] /\ ~up[o]

\* Places, requests and files are what the code can produce, and an operation that is
\* over leaves neither its context nor its connection open.
TypeOK ==
  /\ at \in [Operations -> Places]
  /\ answered \in [Operations -> BOOLEAN]
  /\ failed \in [Operations -> BOOLEAN]
  /\ done \in [Operations -> BOOLEAN]
  /\ up \in [Operations -> BOOLEAN]
  /\ peer \in [Operations -> BOOLEAN]
  /\ flock \in [Operations -> {"none", "holding", "killed"}]
  /\ wire \in [Operations -> SUBSET Waiting]
  /\ tmp \in [Operations -> {"none"} \cup Data]
  /\ dest \in [by : Operations \cup {Old}, data : Data \cup {"torn"}]
  /\ safe \in Operations \cup {Old}
  /\ stray \in SUBSET Operations
  /\ faults \in 0..MaxFaults
  /\ \A o \in Operations : Closed(o)

Succeeded(o) == at[o] = "ended" /\ ~failed[o]

\* Requests that the host executes when the lock is gone ("Releasing or losing the lock
\* closes SSH/SFTP and cancels the operation", remote/lock.go:16-17) belong to operations
\* that do not succeed: a successful one did all it did under the lock and has nothing
\* left on the way.  Not counted is what it did after somebody on the host killed the
\* lock's process and before it noticed.
SuccessUnderLock ==
  \A o \in Operations : Succeeded(o) => o \notin stray /\ wire[o] = {}

\* Whatever fails, is executed late or ends half way, and whenever the power goes, the
\* destination holds one operation's file, whole: neither a part of an upload nor a file
\* whose data a power failure took (remote/install.go:42-44,83-90).
DestinationWhole == dest.data \notin {"partial", "torn"}

\* What a successful operation wrote, and no other replaced, survives a power failure
\* (remote/install.go:92).
SuccessDurable == \A o \in Operations : Succeeded(o) /\ dest.by = o => safe = o

\* Nobody keeps the lock for ever: neither an operation whose request is never answered or
\* whose connection breaks unnoticed (access.go:41-50, lock.go:29) nor the process that
\* waited for it on behalf of an operation that is over (lock.go:24-33,58-61).
LockReturns == \A o \in Operations : Holding(o) ~> ~Holding(o)
=============================================================================
