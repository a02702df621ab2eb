------------------------------ MODULE Transform ------------------------------
(* From a key in etcd to a koanf path (transform.go): the prefix is trimmed, *)
(* slashes become delimiters, and the delimiter splits the path.  Keys are   *)
(* sequences of bytes; the delimiter is one byte.                            *)
EXTENDS Integers, Sequences, SequencesExt

CONSTANTS Slash, Delim

\* strings.TrimPrefix: only where it is one.
Trim(k, prefix) ==
  IF IsPrefix(prefix, k) THEN SubSeq(k, Len(prefix) + 1, Len(k)) ELSE k

\* The closure of makeDefaultKeyTransform.
DefaultKeyTransform(k, prefix, trimPrefix) ==
  LET trimmed == IF trimPrefix THEN Trim(k, prefix) ELSE k
  IN [i \in DOMAIN trimmed |-> IF trimmed[i] = Slash THEN Delim ELSE trimmed[i]]

\* strings.Split: what is between two delimiters, or a delimiter and an end.
SplitPath(path) ==
  LET cuts == SetToSortSeq({0, Len(path) + 1} \cup {i \in DOMAIN path : path[i] = Delim}, <)
  IN [i \in 1..(Len(cuts) - 1) |-> SubSeq(path, cuts[i] + 1, cuts[i + 1] - 1)]
=============================================================================
