----------------------------- MODULE LiveConfig ------------------------------
(* What an application that reloads its configuration may rely on, without   *)
(* pages, headers, watches or callbacks: the configuration is empty or was   *)
(* loaded from the store during some interval of revisions, each key by      *)
(* itself being as it was at a moment of that interval; and no load shows    *)
(* anything older than what the load before it showed last.                  *)
EXTENDS Integers, Sequences

CONSTANT Watched    \* the keys of the configuration

VARIABLES
  hist,       \* the store's history, changed by others
  config,     \* what was loaded: pairs of a key and the revision that wrote it
  asOf        \* the revision of the last moment of the last load

liveVars == <<config, asOf>>

Has(k, s, r) ==
  /\ s \in 1..r /\ k \in DOMAIN hist[s] /\ hist[s][k] = "put"
  /\ \A t \in (s + 1)..r : k \notin DOMAIN hist[t]

Absent(k, r) == \A s \in 1..r : ~Has(k, s, r)

Init == config = {} /\ asOf = 0

Load ==
  \E start \in 1..Len(hist) : \E end \in start..Len(hist) :
    /\ asOf <= start /\ asOf' = end
    /\ config' \subseteq Watched \X (1..end)
    /\ \A k \in Watched :
         \/ {v \in config' : v[1] = k} = {} /\ \E r \in start..end : Absent(k, r)
         \/ \E r \in start..end : \E s \in 1..r :
              Has(k, s, r) /\ {v \in config' : v[1] = k} = {<<k, s>>}

Spec == Init /\ [][Load]_liveVars
=============================================================================
