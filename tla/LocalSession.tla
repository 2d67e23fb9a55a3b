---------------------------- MODULE LocalSession ----------------------------
(***************************************************************************)
(* Sessions of the local transport, one per provider operation, and the    *)
(* flock they share with each other and with other processes.  An          *)
(* operation is the goroutine that runs access.engine; beside it run the   *)
(* callbacks that its contexts start when a timeout fires, a call is        *)
(* cancelled or somebody closes the session.                               *)
(***************************************************************************)
CONSTANTS
  Sessions,
  Nobody,       \* the lock is free
  Elsewhere     \* another process, for example under the SSH transport, has the lock

ASSUME HoldersDiffer == Nobody \notin Sessions /\ Elsewhere \notin Sessions /\ Nobody # Elsewhere

VARIABLES
  holder,       \* who holds the kernel lock
  main,         \* main[s]: where the operation is
  open,         \* open[s]: the context of the session is not cancelled (Client.ctx)
  lease,        \* lease[s]: the context that Lock derives from the operation's context
  locked,       \* locked[s]: Lock returned and the lease releases itself when cancelled
  release,      \* release[s]: how far the release function is, which runs once
  procs         \* procs[s]: the process of the command under way, and its children

vars == <<holder, main, open, lease, locked, release, procs>>

Calling == {"file", "command"}

Places == {"new", "fn", "begin", "polling", "release", "close", "ended", "killed"} \cup Calling

Alive(s) == main[s] \notin {"new", "ended", "killed"}

\* Slips: begin and Close without mu; a kill that spares the children of the command;
\* a command without the context; a blocking Lock in place of TryLockContext.
NoMutex(s) == FALSE

LeaderOnly(s) == procs[s] \cap {"leader"}

Uncancelled(s) == FALSE

WaitForLock(s) == FALSE

\* Between the check of the context and operations.Add the operation has Client.mu.
Mutex(s) == main[s] = "begin"

Init ==
  /\ holder = Nobody
  /\ main = [s \in Sessions |-> "new"]
  /\ open = [s \in Sessions |-> FALSE]
  /\ lease = [s \in Sessions |-> "none"]
  /\ locked = [s \in Sessions |-> FALSE]
  /\ release = [s \in Sessions |-> "idle"]
  /\ procs = [s \in Sessions |-> {}]

-----------------------------------------------------------------------------
(* The operation.                                                          *)

Goto(s, place) == main' = [main EXCEPT ![s] = place]

Connect(s) ==
  /\ main[s] = "new"
  /\ open' = [open EXCEPT ![s] = TRUE]
  /\ Goto(s, "fn")
  /\ UNCHANGED <<holder, lease, locked, release, procs>>

\* fn returns, with or without an error, and the deferred calls follow.
Return(s) ==
  /\ main[s] = "fn"
  /\ Goto(s, IF locked[s] THEN "release" ELSE "close")
  /\ UNCHANGED <<holder, open, lease, locked, release, procs>>

\* begin: a cancelled session takes no call.  The check and the registration of
\* the call are apart, with mu held between them.
Begin(s) ==
  /\ main[s] = "fn"
  /\ open[s]
  /\ Goto(s, "begin")
  /\ UNCHANGED <<holder, open, lease, locked, release, procs>>

FileCall(s) ==
  /\ main[s] = "begin"
  /\ Goto(s, "file")
  /\ UNCHANGED <<holder, open, lease, locked, release, procs>>

Run(s) ==
  /\ main[s] = "begin"
  /\ Goto(s, "command")
  /\ procs' = [procs EXCEPT ![s] = {"leader"}]
  /\ UNCHANGED <<holder, open, lease, locked, release>>

\* done: the file system answered, or Output has waited for the command's process.
Done(s) ==
  /\ \/ main[s] = "file"
     \/ main[s] = "command" /\ "leader" \notin procs[s]
  /\ Goto(s, "fn")
  /\ UNCHANGED <<holder, open, lease, locked, release, procs>>

Lock(s) ==
  /\ main[s] = "fn"
  /\ open[s]
  /\ lease[s] = "none"
  /\ Goto(s, "polling")
  /\ lease' = [lease EXCEPT ![s] = "live"]
  /\ UNCHANGED <<holder, open, locked, release, procs>>

\* A try that succeeds counts even if the lease has been cancelled meanwhile.
TryLock(s) ==
  /\ main[s] = "polling"
  /\ holder = Nobody
  /\ holder' = s
  /\ locked' = [locked EXCEPT ![s] = TRUE]
  /\ Goto(s, "fn")
  /\ UNCHANGED <<open, lease, release, procs>>

GiveUp(s) ==
  /\ main[s] = "polling"
  /\ lease[s] = "over"
  /\ Goto(s, "release")
  /\ UNCHANGED <<holder, open, lease, locked, release, procs>>

\* The release function is done, by whichever caller came first.
Released(s) ==
  /\ main[s] = "release"
  /\ release[s] = "done"
  /\ Goto(s, "close")
  /\ UNCHANGED <<holder, open, lease, locked, release, procs>>

Close(s) ==
  /\ main[s] = "close"
  /\ open' = [open EXCEPT ![s] = FALSE]
  /\ Goto(s, "ended")
  /\ UNCHANGED <<holder, lease, locked, release, procs>>

Operation(s) ==
  \/ Connect(s) \/ Return(s) \/ Begin(s) \/ FileCall(s) \/ Run(s) \/ Done(s)
  \/ Lock(s) \/ TryLock(s) \/ GiveUp(s) \/ Released(s) \/ Close(s)

-----------------------------------------------------------------------------
(* The callbacks of the contexts, each in a goroutine of its own.          *)

\* The operation's context ends; those derived from it end with it.
Timeout(s) ==
  /\ main[s] # "killed"
  /\ open[s]
  /\ open' = [open EXCEPT ![s] = FALSE]
  /\ lease' = [lease EXCEPT ![s] = IF @ = "live" THEN "over" ELSE @]
  /\ UNCHANGED <<holder, main, locked, release, procs>>

\* Somebody else closes the session: Close cancels under mu, and stopClient of Lock
\* passes that on to the lease.
CloseEarly(s) ==
  /\ main[s] # "killed"
  /\ open[s]
  /\ ~Mutex(s)
  /\ open' = [open EXCEPT ![s] = FALSE]
  /\ UNCHANGED <<holder, main, lease, locked, release, procs>>

StopClient(s) ==
  /\ main[s] # "killed"
  /\ ~open[s]
  /\ lease[s] = "live"
  /\ lease' = [lease EXCEPT ![s] = "over"]
  /\ UNCHANGED <<holder, main, open, locked, release, procs>>

\* sync.OnceFunc: the first caller, fn's deferred call or the cancelled lease, runs it.
BeginRelease(s) ==
  /\ release[s] = "idle"
  /\ \/ main[s] = "release"
     \/ main[s] # "killed" /\ locked[s] /\ lease[s] = "over"
  /\ release' = [release EXCEPT ![s] = "cancelled"]
  /\ lease' = [lease EXCEPT ![s] = "over"]
  /\ UNCHANGED <<holder, main, open, locked, procs>>

\* Close: cancel under mu, then wait for the calls that have begun.
CloseForRelease(s) ==
  /\ release[s] = "cancelled"
  /\ ~Mutex(s)
  /\ open' = [open EXCEPT ![s] = FALSE]
  /\ release' = [release EXCEPT ![s] = "draining"]
  /\ UNCHANGED <<holder, main, lease, locked, procs>>

Drained(s) == main[s] \notin Calling

\* Wait returns and file.Close gives the lock back.
Unlock(s) ==
  /\ release[s] = "draining"
  /\ Drained(s)
  /\ holder' = IF holder = s THEN Nobody ELSE holder
  /\ release' = [release EXCEPT ![s] = "done"]
  /\ UNCHANGED <<main, open, lease, locked, procs>>

Callbacks(s) ==
  \/ Timeout(s) \/ CloseEarly(s) \/ StopClient(s)
  \/ BeginRelease(s) \/ CloseForRelease(s) \/ Unlock(s)

-----------------------------------------------------------------------------
(* The processes of a command: a shell or a generator may have children.   *)

Fork(s) ==
  /\ Alive(s)
  /\ "leader" \in procs[s]
  /\ procs' = [procs EXCEPT ![s] = @ \cup {"child"}]
  /\ UNCHANGED <<holder, main, open, lease, locked, release>>

\* A command that is not cancelled waits for its children.
Exit(s) ==
  /\ \E p \in procs[s] :
       /\ p = "leader" => procs[s] = {p}
       /\ procs' = [procs EXCEPT ![s] = @ \ {p}]
  /\ UNCHANGED <<holder, main, open, lease, locked, release>>

\* cmd.Cancel signals the process group.
Killed(s) == procs[s]

Kill(s) ==
  /\ main[s] = "command"
  /\ procs[s] # {}
  /\ ~open[s] \/ lease[s] = "over"
  /\ procs' = [procs EXCEPT ![s] = @ \ Killed(s)]
  /\ UNCHANGED <<holder, main, open, lease, locked, release>>

-----------------------------------------------------------------------------
(* Other processes.                                                        *)

\* The provider is killed: the kernel closes the lock file.  Processes of a command
\* live on, only cancellation kills them.
Die(s) ==
  /\ Alive(s)
  /\ Goto(s, "killed")
  /\ holder' = IF holder = s THEN Nobody ELSE holder
  /\ release' = [release EXCEPT ![s] = "done"]
  /\ UNCHANGED <<open, lease, locked, procs>>

ElsewhereLocks ==
  /\ holder = Nobody
  /\ holder' = Elsewhere
  /\ UNCHANGED <<main, open, lease, locked, release, procs>>

ElsewhereUnlocks ==
  /\ holder = Elsewhere
  /\ holder' = Nobody
  /\ UNCHANGED <<main, open, lease, locked, release, procs>>

Step(s) == Operation(s) \/ Callbacks(s) \/ Fork(s) \/ Exit(s) \/ Kill(s) \/ Die(s)

Next ==
  \/ \E s \in Sessions : Step(s)
  \/ ElsewhereLocks \/ ElsewhereUnlocks

Spec == Init /\ [][Next]_vars

\* Goroutines that can run do, file system calls return and timers fire.  Nothing is
\* assumed of commands (they may hang) and of other processes (they may keep the lock).
Fairness ==
  \A s \in Sessions :
    /\ WF_vars(Operation(s))
    /\ WF_vars(Timeout(s)) /\ WF_vars(StopClient(s)) /\ WF_vars(Kill(s))
    /\ WF_vars(BeginRelease(s)) /\ WF_vars(CloseForRelease(s)) /\ WF_vars(Unlock(s))

FairSpec == Spec /\ Fairness

-----------------------------------------------------------------------------

\* A session that has, or had, the lock and still has something of its own running.
Working(s) == locked[s] /\ main[s] # "killed" /\ (main[s] \in Calling \/ procs[s] # {})

\* One operation at a time: nothing that an operation started under the lock is still
\* running when somebody else has the lock ("Drain local filesystem calls before another
\* operation gets the lock", local/lock.go:26; "A cancelled generator or shell must not
\* leave children writing after unlock", local/command_linux.go:13).
OneAtATime == \A s \in Sessions : Working(s) => holder = s

Contract == INSTANCE Lease WITH busy <- {s \in Sessions : Working(s)}

\* The local session keeps the contract of the lock: calls start only under the lock,
\* and the lock is given back only when they are over (host.go:33-35,53-55).
ImplementsLease == Contract!LeaseSpec

\* An operation ends, at the latest some time after its timeout, even if another process
\* keeps the lock or its command hangs (access.go:40-53).
OperationsEnd == \A s \in Sessions : (main[s] = "fn") ~> ~Alive(s)

\* Nobody keeps the lock for ever (lock.go:23-33,43).
LockReturns == \A s \in Sessions : (holder = s) ~> (holder # s)

-----------------------------------------------------------------------------
(* The inductive invariant.                                                *)

TypeOK ==
  /\ holder \in Sessions \cup {Nobody, Elsewhere}
  /\ main \in [Sessions -> Places]
  /\ open \in [Sessions -> BOOLEAN]
  /\ lease \in [Sessions -> {"none", "live", "over"}]
  /\ locked \in [Sessions -> BOOLEAN]
  /\ release \in [Sessions -> {"idle", "cancelled", "draining", "done"}]
  /\ procs \in [Sessions -> SUBSET {"leader", "child"}]

\* The lock is kept until the release function is through.
KeptUntilReleased(s) == locked[s] /\ release[s] # "done" => holder = s

\* Once the release function waits for the calls under way, none is added.
ClosedWhileDraining(s) ==
  release[s] \in {"draining", "done"} => ~open[s] /\ main[s] # "begin"

DrainedWhenDone(s) == release[s] = "done" => main[s] \notin Calling

NothingToReleaseYet(s) ==
  /\ locked[s] => main[s] \notin {"new", "polling"}
  /\ locked[s] \/ main[s] = "polling" => lease[s] # "none"
  /\ ~locked[s] /\ main[s] \notin {"release", "close", "ended"} => release[s] = "idle"

\* A command's processes have their leader, for which its call waits.
ProcessesAwaited(s) == procs[s] # {} => "leader" \in procs[s] /\ main[s] = "command"

Orderly(s) ==
  main[s] # "killed" =>
    /\ KeptUntilReleased(s)
    /\ ClosedWhileDraining(s)
    /\ DrainedWhenDone(s)
    /\ NothingToReleaseYet(s)
    /\ ProcessesAwaited(s)

SessionInv == TypeOK /\ \A s \in Sessions : Orderly(s)
=============================================================================
