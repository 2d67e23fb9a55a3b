--------------------------- MODULE EngineInvariant ---------------------------
(***************************************************************************)
(* What Engine maintains between any two calls: the strengthening of its   *)
(* safety invariants that every step preserves, as the proofs show.        *)
(***************************************************************************)
EXTENDS Engine

\* From the reservation to the record write that ends the operation.
Reserved ==
  {"query", "disable", "stop", "remove", "install", "recover", "reset", "enable",
   "reload", "restart", "tryrestart", "commit", "forget"}

ApplyOnly == {"install", "recover", "reset", "enable", "restart", "tryrestart", "commit"}

DeleteOnly == {"forget", "sync"}

\* A free name has no leftovers.
FreeNamesEmpty == \A n \in Names : ~Held(n) => record[n] = NoRecord

\* The locals of an operation fit together: what AdmitApply and AdmitDelete checked.
LocalsConsistent ==
  pc # "idle" =>
    /\ op.kind = "apply" =>
         /\ op.want \in Payloads
         /\ Valid(op.want)
         /\ OwnsActivated(op.want, op.units)
         /\ Native(DOMAIN op.want.files) \subseteq op.units
         /\ op.changed \subseteq DOMAIN op.want.files
    /\ op.kind = "delete" => op.want = NoPayload /\ op.units = {} /\ op.changed = {}
    /\ op.prior.id \in {NoOwner, op.id}
    /\ op.prior.id = NoOwner => op.prior = NoRecord
    /\ op.prior.enabled \subseteq op.prior.units \cap Native(op.prior.files)
    /\ op.present \subseteq RetiredUnits(op)

\* Each kind of operation goes through its own steps with its own files left.
StepsConsistent ==
  /\ pc \in ApplyOnly => op.kind = "apply"
  /\ pc \in DeleteOnly => op.kind = "delete"
  /\ pc = "remove" => todo \subseteq RetiredFiles(op)
  /\ pc = "install" => todo \subseteq op.changed
  /\ pc \notin {"remove", "install"} => todo = {}

\* The record of the deployment that is operated on.
Reserving ==
  /\ pc = "reserve" =>
       record[op.name] = op.prior /\ ~Conflict(op.name, OwnedFiles(op), OwnedUnits(op))
  /\ pc \in Reserved => record[op.name] = Reservation(op)
  /\ pc = "sync" => record[op.name] = NoRecord

\* What ownership means, whatever the disk and the manager hold.
OwnershipInv ==
  /\ TypeOK
  /\ FreeNamesEmpty
  /\ LocalsConsistent
  /\ StepsConsistent
  /\ Reserving
  /\ OwnershipDisjoint
  /\ RecordsReadable

-----------------------------------------------------------------------------
(* Files and links *)

Written(f) == disk[f] \in Contents \ {Foreign}

\* f has the content c, or others have touched it since it had it.
InPlace(f, c) == f \in drifted \/ disk[f] = c

\* Files the operation gives up are gone once the loop has passed them.
RetiredGone ==
  /\ pc = "remove" => \A f \in RetiredFiles(op) \ todo : ~Written(f)
  /\ pc \in ApplyOnly \cup {"reload", "forget", "sync"} => \A f \in RetiredFiles(op) : ~Written(f)

\* A destroy leaves nothing at all at its paths, but for what others put there.
DestroyedGone ==
  /\ pc = "remove" /\ op.kind = "delete" =>
       \A f \in RetiredFiles(op) \ todo : InPlace(f, Absent)
  /\ pc \in {"reload", "forget", "sync"} /\ op.kind = "delete" =>
       \A f \in RetiredFiles(op) : InPlace(f, Absent)

\* Files the operation wants are in place, left to install, or touched by others.
WantedInstalled ==
  LET wanted(left) == \A f \in DOMAIN op.want.files \ left : InPlace(f, op.want.files[f]) IN
  /\ pc \in {"reserve", "query", "disable", "stop", "remove"} => wanted(op.changed)
  /\ pc = "install" => wanted(todo)
  /\ pc \in (ApplyOnly \cup {"reload"}) \ {"install"} => wanted({})

\* A link belongs to the record that lists its unit and its native file.
LinksRecorded ==
  \A u \in KeptLinks :
    u \in NativeUnits /\ \E n \in Names : u \in record[n].units /\ NativeFile[u] \in record[n].files

\* Which of the operation's units may have links at each step, those aside that others
\* have enabled or disabled.
LinksFollow ==
  LET mine == KeptLinks \cap OwnedUnits(op)
      wanted == op.want.enable \ relinked
  IN
  /\ pc \in {"reserve", "query", "disable", "stop", "remove", "install", "recover", "reset"}
       => Resumes(op) \/ mine \subseteq op.prior.enabled
  /\ pc \in ApplyOnly \cup {"stop", "remove", "reload", "forget", "sync"}
       => KeptLinks \cap RetiredUnits(op) = {}
  /\ pc = "reset" /\ Resumes(op) => mine = {}
  /\ pc = "enable" => mine \subseteq op.want.enable
  /\ pc \in {"reload", "restart", "tryrestart", "commit", "forget", "sync"} => mine = wanted
  /\ pc \in {"restart", "tryrestart", "commit"} =>
       (loaded.links \cap OwnedUnits(op)) \ relinked = wanted

\* The revision an operation starts from was committed with its policy.
PriorCommitted ==
  pc # "idle" /\ op.prior.revision # NoRevision =>
    /\ op.prior.files = DOMAIN op.prior.revision.files
    /\ op.prior.enabled = op.prior.revision.enable

EngineInv ==
  /\ OwnershipInv
  /\ RetiredGone
  /\ DestroyedGone
  /\ WantedInstalled
  /\ LinksRecorded
  /\ LinksFollow
  /\ PriorCommitted
  /\ FootprintRecorded
  /\ CommittedExact

-----------------------------------------------------------------------------
(* Activation *)

\* The manager has read the definitions of p.
Loaded(p) ==
  \A f \in DOMAIN p.files \cap Sources : f \in drifted \/ loaded.tree[f] = p.files[f]

RestartedUnder(p) == \A u \in p.restart : UpToDate(u, p)

RefreshedUnder(p) == \A u \in p.tryRestart : UpToDate(u, p)

\* The apply under way found nothing to activate: its payload already is.
Keeps == pc # "idle" /\ op.kind = "apply" /\ ~Activates(op)

\* The units that a committed payload restarts are those of its record, and the
\* manager knows their definitions.
CommittedLoaded ==
  \A n \in Names : Committed(n) =>
    LET p == record[n].revision IN
    p.restart \cup p.tryRestart \subseteq record[n].units /\ Loaded(p)

\* How far the activation of the wanted payload has come.
ActivationFollows ==
  /\ pc \in {"restart", "tryrestart"} => Activates(op)
  /\ pc \in {"restart", "tryrestart", "commit"} \/ Keeps => Loaded(op.want)
  /\ pc \in {"tryrestart", "commit"} \/ Keeps => RestartedUnder(op.want)
  /\ pc = "commit" \/ Keeps => RefreshedUnder(op.want)

ActivationInv ==
  /\ EngineInv
  /\ CommittedLoaded
  /\ ActivationFollows
  /\ NothingOlderRuns

-----------------------------------------------------------------------------
(* Started units, where units stay with the files that define them *)

StartedByEngine(u) == Running(u) /\ run[u].under # Elsewhere

\* A record lists u with the file f, the file is in place and the manager knows u.
Accounted(u, f) ==
  /\ \E n \in Names : u \in record[n].units /\ f \in record[n].files
  /\ \E p \in Payloads : f \in DOMAIN p.files /\ disk[f] = p.files[f]
  /\ u \in loaded.units

StartedAccounted ==
  \A u \in {v \in Units : StartedByEngine(v)} :
    /\ \E p \in Payloads : u \in p.restart \cup p.tryRestart
    /\ \A f \in Files : Home(u, f) => Accounted(u, f)

\* The operation stops the units it gives up before it removes a file.
RetiredStopped ==
  pc \notin {"idle", "reserve", "query"} =>
    \A u \in {v \in RetiredUnits(op) : StartedByEngine(v)} :
      pc \in {"disable", "stop"} /\ u \in op.present

\* The units of an apply are what some version of the generator makes of its files.
UnitsDiscovered ==
  pc # "idle" /\ op.kind = "apply" =>
    \E version \in Generators : op.units = Discover(op.want, version)

HomesUntouched == \A u \in Units, f \in drifted : ~Home(u, f)

SteadyInv ==
  /\ EngineInv
  /\ StartedAccounted
  /\ RetiredStopped
  /\ UnitsDiscovered
  /\ HomesUntouched
=============================================================================
