------------------------------- MODULE Layout -------------------------------
(***************************************************************************)
(* The managed tree of one host user and what a deployment may ask of it:  *)
(* paths below the configuration directory, systemd units, the units that  *)
(* a tree of files defines, and the payload Terraform hands to the engine. *)
(* Everything here is constant-level: plan.go, quadlet/validator.go and    *)
(* the comparison rules of ownership.go.                                   *)
(***************************************************************************)
EXTENDS FiniteSets

CONSTANTS
  Files,        \* managed paths
  Parents,      \* Parents[f]: the managed paths that are proper ancestors of f
  Contents,     \* file contents, the ones somebody else writes included
  Foreign,      \* a content that no payload carries
  Units,        \* systemd unit names
  NativeFile,   \* NativeFile[u]: the path systemd/user/<u>, for the units that have one in Files
  Generators,   \* versions of Podman's generator: the units it makes of a file with a content
  Triggers,     \* values of the triggers map
  Payloads,     \* payloads Terraform may hand over
  Absent,       \* nothing exists at a path
  Directory,    \* a directory exists at a path
  NoRevision    \* the empty applied_revision

NativeUnits == DOMAIN NativeFile

\* What one path of the tree holds.
Nodes == Contents \cup {Absent, Directory}

Trees == [Files -> Nodes]

PayloadType ==
  [files : UNION {[S -> Contents \ {Foreign}] : S \in SUBSET Files},
   restart : SUBSET Units, tryRestart : SUBSET Units, enable : SUBSET Units,
   trigger : Triggers]

ASSUME PathAssumption ==
  /\ Parents \in [Files -> SUBSET Files]
  /\ \A f \in Files : f \notin Parents[f]
  /\ \A f \in Files : \A g \in Parents[f] : Parents[g] \subseteq Parents[f]

ASSUME UnitAssumption ==
  /\ NativeUnits \subseteq Units
  /\ NativeFile \in [NativeUnits -> Files]
  /\ \A u, v \in NativeUnits : NativeFile[u] = NativeFile[v] => u = v
  /\ Generators \subseteq [Files -> [Contents -> SUBSET Units]]

ASSUME ValueAssumption ==
  /\ Foreign \in Contents
  /\ Absent \notin Contents
  /\ Directory \notin Contents
  /\ Absent # Directory
  /\ Payloads \subseteq PayloadType
  /\ NoRevision \notin Payloads

-----------------------------------------------------------------------------

EqualPaths(f, g) == f = g

\* One of two paths is the other one or a directory above it.
Overlaps(f, g) == f = g \/ f \in Parents[g] \/ g \in Parents[f]

\* Payload.Validate: no path below another one, native files behind enable, and
\* no unit in both restart lists. (A list without repetitions is a set.)
Valid(p) ==
  /\ \A f \in DOMAIN p.files : Parents[f] \cap DOMAIN p.files = {}
  /\ \A u \in p.enable : u \in NativeUnits /\ NativeFile[u] \in DOMAIN p.files
  /\ p.restart \cap p.tryRestart = {}

\* The native units and the generated units of a set of files with contents.
Native(files) == {u \in NativeUnits : NativeFile[u] \in files}

Generated(files, generator) ==
  UNION {generator[f][files[f]] : f \in {g \in DOMAIN files : files[g] \in Contents}}

\* Validator.Discover: the units of the staged tree; it fails when a native file
\* and the generator define one unit.
Discover(p, generator) == Native(DOMAIN p.files) \cup Generated(p.files, generator)

Discoverable(p, generator) ==
  Native(DOMAIN p.files) \cap Generated(p.files, generator) = {}

\* Payload.ValidateOwnership.
OwnsActivated(p, units) == p.restart \cup p.tryRestart \cup p.enable \subseteq units

\* The files that define units, and the units the manager finds in a tree.
Sources ==
  {NativeFile[u] : u \in NativeUnits}
    \cup {f \in Files : \E g \in Generators : \E c \in Contents : g[f][c] # {}}

UnitsOf(tree, generator) ==
  {u \in NativeUnits : tree[NativeFile[u]] \in Contents} \cup Generated(tree, generator)

\* CheckPath: every existing component above a path is a directory.
PathOK(tree, f) == \A a \in Parents[f] : tree[a] \in {Absent, Directory}

\* ReadFile of a managed path gives a content or "does not exist", no other error.
Readable(tree, f) == PathOK(tree, f) /\ tree[f] # Directory

HasChildren(tree, f) == \E g \in Files : f \in Parents[g] /\ tree[g] # Absent

RemovableFile(tree, f) ==
  PathOK(tree, f) /\ tree[f] # Absent /\ (tree[f] = Directory => ~HasChildren(tree, f))

\* Host.Remove: removes a file or an empty directory, accepts a missing path.
Removable(tree, f) ==
  PathOK(tree, f) /\ (tree[f] = Directory => ~HasChildren(tree, f))

Without(tree, f) == [tree EXCEPT ![f] = Absent]

\* Host.InstallFile: makes the directories above the destination and renames the
\* new file over it; a directory is never replaced.
Installable(tree, f) == PathOK(tree, f) /\ tree[f] # Directory

MadeAbove(tree, f) == [g \in Files |-> IF g \in Parents[f] THEN Directory ELSE tree[g]]

With(tree, f, content) == [MadeAbove(tree, f) EXCEPT ![f] = content]

MissingFiles(tree, p) == {f \in DOMAIN p.files : tree[f] = Absent}

\* Engine.inspectFiles: the payload's files whose host copy is missing or differs.
Differing(tree, p) == {f \in DOMAIN p.files : tree[f] # p.files[f]}
=============================================================================
