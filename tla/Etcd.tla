-------------------------------- MODULE Etcd --------------------------------
(* The etcd store as koanf-etcd sees it: a totally ordered history of        *)
(* transactions, one revision each, of which a prefix may be compacted away. *)
(* etcd is not in the repository; this is the behaviour the code in watch.go *)
(* and read.go relies on (revisions in response headers, ModRevision of      *)
(* events, ErrCompacted).  Other clients of the store are the environment:   *)
(* they commit and compact whenever they like and owe no progress.           *)
EXTENDS Integers, Sequences, FiniteSets

CONSTANTS
  Keys,      \* keys of the store
  Changes,   \* what one transaction may do: functions from keys to "put"/"delete"
  MaxRev     \* bound on the store's revision

Kinds == {"put", "delete"}

ASSUME EtcdAssumption ==
  /\ MaxRev \in Nat \ {0}
  /\ \A c \in Changes : c \in UNION {[ks -> Kinds] : ks \in SUBSET Keys}

VARIABLES
  hist,        \* hist[r] is what the transaction of revision r did
  compactRev   \* revisions below it can no longer be read or watched

etcdVars == <<hist, compactRev>>

\* A fresh etcd is at revision 1 and has no keys.
NoChange == [k \in {} |-> "put"]

Rev == Len(hist)

\* Key k exists in the state of revision r.
PresentAt(k, r) ==
  \E s \in 1..r : /\ k \in DOMAIN hist[s] /\ hist[s][k] = "put"
                  /\ \A t \in (s + 1)..r : k \notin DOMAIN hist[t]

EtcdTypeOK ==
  /\ hist \in Seq(Changes \cup {NoChange})
  /\ Rev \in 1..MaxRev
  /\ compactRev \in 0..Rev

EtcdInit == hist = <<NoChange>> /\ compactRev = 0

\* Another client's transaction; deleting an absent key produces no event, so
\* only deletions of present keys are taken.
Commit ==
  \E c \in Changes :
    /\ Rev < MaxRev
    /\ \A k \in DOMAIN c : c[k] = "delete" => PresentAt(k, Rev)
    /\ hist' = Append(hist, c)
    /\ UNCHANGED compactRev

\* An operator or auto-compaction discards the history below revision r.
Compact ==
  \E r \in (compactRev + 1)..Rev :
    /\ compactRev' = r
    /\ UNCHANGED hist
=============================================================================
