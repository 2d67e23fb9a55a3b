------------------------------ MODULE MCEngine ------------------------------
(***************************************************************************)
(* Small hosts for TLC: a quadlet file, a native unit file and application *)
(* files one of which lies below another.                                  *)
(***************************************************************************)
EXTENDS Engine, TLC

CONSTANTS quadlet, native, conf, below,     \* paths
          app, web,                         \* units
          v1, v2,                           \* contents
          t1, t2                            \* trigger values

\* conf is "app" and below is "app/settings".
MCParents == [f \in Files |-> IF f = below THEN {conf} \cap Files ELSE {}]

\* app.service pulls web.service along, not the other way round.
MCDependents == [u \in Units |-> IF u = app THEN {web} \cap Units ELSE {}]

MCNativeFile == [u \in {web} |-> native]

\* The generator makes app.service of one content of the quadlet and web.service,
\* the name of the native unit, of the other. A newer one names both app.service.
Makes(one, two) ==
  [f \in Files |-> [c \in Contents |->
     IF f # quadlet THEN {} ELSE IF c = v1 THEN one ELSE IF c = v2 THEN two ELSE {}]]

Older == Makes({app}, {web})
Newer == Makes({app}, {app})

MCOneGenerator == {Older}
MCGenerators == {Older, Newer}

P(files, restart, tryRestart, enable, trigger) ==
  [files |-> files, restart |-> restart, tryRestart |-> tryRestart, enable |-> enable,
   trigger |-> trigger]

OnlyQuadlet == P((quadlet :> v1), {app}, {}, {}, t1)
OtherQuadlet == P((quadlet :> v2), {}, {web}, {}, t1)
OnlyNative == P((native :> v1), {web}, {}, {web}, t1)
NativeConf == P((native :> v1) @@ (conf :> v1), {web}, {}, {web}, t2)
RestartNothing == P((quadlet :> v1) @@ (native :> v1), {}, {app, web}, {web}, t2)
Conf == P((conf :> v1), {}, {}, {}, t1)
Below == P((below :> v1), {}, {}, {}, t1)
BelowNative == P((below :> v1) @@ (native :> v1), {web}, {}, {}, t1)
Nested == P((conf :> v1) @@ (below :> v1), {}, {}, {}, t1)

\* web.service moves between a native file and the quadlet.
FaultPayloads == {OnlyQuadlet, OtherQuadlet, RestartNothing, OnlyNative}

\* Paths below each other across deployments, across the payloads of one
\* deployment, and within a payload (Nested, which Valid refuses); every unit stays
\* with the file that defines it.
SharedPayloads == {OnlyQuadlet, NativeConf, Below, Nested}
NestedRetryPayloads == {Conf, BelowNative}

\* No path below another.
RetryPayloads == {OtherQuadlet, OnlyNative, Conf}

ClaimPayloads == {OtherQuadlet, OnlyNative, RestartNothing}

Symmetric == Permutations(Names) \cup Permutations(Owners)
=============================================================================
