---------------------------- MODULE MCPrefixRead ----------------------------
(* Four keys under a prefix that ends in the largest byte, and one behind    *)
(* them, written and deleted by others while pages of one or two keys are    *)
(* read.  Under the default transform the four have the paths ".x", ".x",    *)
(* ".x." and ".x.x": the first two are the same, the third is cleaned to the *)
(* same, and none of them goes together with the fourth.                     *)
EXTENDS PrefixRead, Transform, TLC

x == 3
prefix == <<x, Top>>
key1 == prefix \o <<Delim, x>>
key2 == prefix \o <<Slash, x>>
key3 == prefix \o <<Slash, x, Slash>>
key4 == prefix \o <<Slash, x, Slash, x>>
behind == <<Top>>          \* the first key behind the prefix

MCKeys == {key1, key2, key3, key4, behind}
MCSingles == {key1, key2}
MCBatches == {{}, {key3}, {key1, key4}, {behind}}
MCRoot == <<Slash>>
MCDeleted == {<<>>, MCRoot, prefix}

\* Everything the write helpers may commit.
MCChanges == UNION {[keys -> Kinds] : keys \in (SUBSET Keys) \ {{}}}

Setting(p, limit, readRevision, trimPrefix) ==
  [prefix |-> p, limit |-> limit, strict |-> FALSE, unflatten |-> TRUE,
   serializable |-> FALSE, readRevision |-> readRevision,
   keyTransform |->
     [k \in Keys |-> SplitPath(DefaultKeyTransform(k, p, trimPrefix))]]

MCSettings ==
  {Setting(prefix, limit, at, TRUE) : limit \in 0..2, at \in {0, 3}}
  \cup {[Setting(prefix, 1, 0, FALSE) EXCEPT !.strict = TRUE, !.serializable = TRUE,
                                           !.unflatten = FALSE],
        Setting(behind, 1, 0, TRUE)}

MCPaged == {Setting(prefix, 1, 0, TRUE)}

MCSegments ==
  UNION {UNION {{s.keyTransform[k][i] : i \in DOMAIN s.keyTransform[k]} : k \in Keys} :
           s \in MCSettings}
MCEmpty == <<>>
=============================================================================
