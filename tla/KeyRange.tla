------------------------------ MODULE KeyRange ------------------------------
(* The ranges of keys a prefix read asks etcd for (read.go: prefixEnd, and   *)
(* the bounds of the pages).  A key is a sequence of bytes 0..Top.           *)
EXTENDS Integers, Sequences, SequencesExt

CONSTANT Top    \* the largest byte, 0xff

ASSUME KeyRangeAssumption == Top \in Nat \ {0}

\* The order of keys: bytewise, and a proper prefix comes first.
Before(a, b) ==
  \E i \in 1..Len(b) : /\ IsPrefix(SubSeq(b, 1, i - 1), a)
                       /\ Len(a) = i - 1 \/ a[i] < b[i]

\* Definitions named Bug... are mistakes the properties are tested with; nothing
\* uses them.

\* As the end of a range this key means that there is none.
NoEnd == <<0>>

\* etcd's range: from key up to but not including end.
InRange(k, key, end) == ~Before(k, key) /\ (end = NoEnd \/ Before(k, end))

\* The least key above all keys with prefix p: trailing bytes that cannot be
\* raised are cut off, the one before them is raised.
Raised(p, i) == [SubSeq(p, 1, i) EXCEPT ![i] = @ + 1]
BugTailKept(p) ==
  LET raisable == {i \in DOMAIN p : p[i] < Top}
  IN IF raisable = {} THEN NoEnd ELSE [p EXCEPT ![Max(raisable)] = @ + 1]
PrefixEnd(p) ==
  LET raisable == {i \in DOMAIN p : p[i] < Top}
  IN IF raisable = {} THEN NoEnd ELSE Raised(p, Max(raisable))

\* Where the next page starts: the least key above the last one read.
BugSameKey(lastKey) == lastKey
BugNoCarry(lastKey) == Raised(lastKey, Len(lastKey))
BugSkipsLonger(lastKey) == PrefixEnd(lastKey)
Successor(lastKey) == Append(lastKey, 0)
=============================================================================
