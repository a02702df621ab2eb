------------------------------ MODULE MCReload -------------------------------
(* Two keys under a prefix and one behind it, read in one Get or in pages of *)
(* one key, and written by others before, between and during the loads.      *)
EXTENDS Reload, TLC

CONSTANTS value, name1, name2

key1 == <<1, 1>>
key2 == <<1, 2>>
behind == <<2>>

MCKeys == {key1, key2, behind}
MCBatches == {{key1, key2}, {behind}}
MCSingles == {key1, key2}
MCDeleted == {}
MCChanges == UNION {[keys -> Kinds] : keys \in (SUBSET Keys) \ {{}}}
MCPrefix == <<1>>
MCRoot == <<2>>
MCSegments == {name1, name2, value}
MCTransform == key1 :> <<name1>> @@ key2 :> <<name2>> @@ behind :> <<value>>

MCSettings ==
  [prefix : {MCPrefix}, keyTransform : {MCTransform}, limit : {0, 1},
   strict : {FALSE}, unflatten : {FALSE}, serializable : {FALSE}, readRevision : {0}]
=============================================================================
