-------------------------------- MODULE Write --------------------------------
(* The write helpers (write/write.go) as clients of the store: Put, PutAll,  *)
(* Delete and DeletePrefix, one RPC each.  An RPC that returns an error may  *)
(* have been carried out or not; either way it has one of the steps below or *)
(* none.  A step that changes no key makes no revision.                      *)
EXTENDS Etcd, KeyRange

CONSTANTS
  Root,        \* the key "/"
  Batches,     \* the sets of keys PutAll is called with
  Singles,     \* the keys Put and Delete are called with
  DeletedPrefixes     \* the prefixes DeletePrefix is called with

ASSUME WriteAssumption ==
  /\ Root \in Seq(0..Top) /\ DeletedPrefixes \subseteq Seq(0..Top)
  /\ Singles \subseteq Keys /\ Batches \subseteq SUBSET Keys
  /\ \A keys \in (SUBSET Keys) \ {{}}, kind \in Kinds :
       [k \in keys |-> kind] \in Changes

Present(r) == {k \in Keys : PresentAt(k, r)}

\* One transaction, if it changes anything.
Txn(keys, kind) ==
  /\ keys # {}
  /\ Rev < MaxRev
  /\ hist' = Append(hist, [k \in keys |-> kind])
  /\ UNCHANGED compactRev

Put == \E k \in Singles : Txn({k}, "put")

\* All keys in one transaction, none if there are none.
PutAll == \E keys \in Batches : Txn(keys, "put")

\* Delete refuses the empty key.
Delete == \E k \in Singles : k # <<>> /\ Txn({k} \cap Present(Rev), "delete")

\* DeletePrefix refuses what would empty the cluster, unless AllowEmptyPrefix.
BugRootUnguarded(prefix, allowEmptyPrefix) == ~allowEmptyPrefix /\ prefix = <<>>
UnsafePrefix(prefix, allowEmptyPrefix) ==
  ~allowEmptyPrefix /\ prefix \in {<<>>, Root}

DeletePrefix(prefix, allowEmptyPrefix) ==
  /\ ~UnsafePrefix(prefix, allowEmptyPrefix)
  /\ Txn({k \in Present(Rev) : InRange(k, prefix, PrefixEnd(prefix))}, "delete")

Writes ==
  \/ Put \/ PutAll \/ Delete
  \/ \E prefix \in DeletedPrefixes, allowEmptyPrefix \in BOOLEAN :
       DeletePrefix(prefix, allowEmptyPrefix)

-----------------------------------------------------------------------------
(* Properties.                                                               *)

\* DeletePrefix asks for a range of keys and readers for a prefix: it removes
\* exactly the keys a read of that prefix would return, in one revision, and none
\* of a neighbour ("removes every key under the given prefix", write.go:49).
DeletesItsPrefix ==
  [][\A prefix \in DeletedPrefixes, allowEmptyPrefix \in BOOLEAN :
       DeletePrefix(prefix, allowEmptyPrefix) =>
         Present(Rev)' = {k \in Present(Rev) : ~IsPrefix(prefix, k)}]_etcdVars
=============================================================================
