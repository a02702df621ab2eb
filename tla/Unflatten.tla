----------------------------- MODULE Unflatten ------------------------------
(* unflattenMap and splitCleanPath (read.go): the paths of a flat map are    *)
(* taken in the random order of a Go map, and each is placed as a leaf of a  *)
(* nested map unless a leaf and a sub-tree would meet at one path.           *)
(*                                                                           *)
(* A nested map without such a collision is given by its leaves, so cleaned  *)
(* stands for the result; building the maps out of it is the work of         *)
(* koanf/maps and not modelled.                                              *)
EXTENDS Integers, Sequences, FiniteSets, FiniteSetsExt

CONSTANTS
  Segments,
  Empty     \* the empty segment

\* A path is given by its segments: splitting at the delimiter and joining again
\* changes nothing.
Paths == Seq(Segments)

VARIABLES
  todo,       \* paths the loop has not come to yet
  leaves,     \* paths of the leaves placed so far
  subtrees,   \* paths of the sub-trees above them
  cleaned     \* the result so far: cleaned paths to paths

nestVars == <<todo, leaves, subtrees, cleaned>>

\* splitCleanPath: empty segments at both ends are dropped, inner ones stay.
CleanPath(p) ==
  LET solid == {i \in DOMAIN p : p[i] # Empty}
  IN IF solid = {} THEN <<>> ELSE SubSeq(p, Min(solid), Max(solid))

Parents(path) == {SubSeq(path, 1, i) : i \in 1..(Len(path) - 1)}

NestIdle == todo = {} /\ leaves = {} /\ subtrees = {} /\ cleaned = [p \in {} |-> 0]

NestStart(flat) ==
  /\ todo' = flat
  /\ leaves' = {} /\ subtrees' = {} /\ cleaned' = [p \in {} |-> 0]

\* The collision checks.  (Nothing uses the Bug... form: it looks for leaves
\* above the new one and not for a sub-tree in its place.)
BugOneSided(path) == Parents(path) \cap leaves # {}
Collides(path) == path \in subtrees \/ Parents(path) \cap leaves # {}

\* The loop comes to path p and goes on to the next one.
Place(p) ==
  LET path == CleanPath(p)
  IN /\ ~Collides(path)
     /\ todo' = todo \ {p}
     /\ IF path = <<>> THEN UNCHANGED <<leaves, subtrees, cleaned>>
        ELSE /\ leaves' = leaves \cup {path}
             /\ subtrees' = subtrees \cup Parents(path)
             /\ cleaned' = [q \in DOMAIN cleaned \cup {path} |->
                              IF q = path THEN p ELSE cleaned[q]]

-----------------------------------------------------------------------------

\* Two paths cannot both be placed: what is a leaf for one is above the other.
Incompatible(flat) ==
  \E p, q \in flat : CleanPath(p) # <<>> /\ CleanPath(p) \in Parents(CleanPath(q))

\* The nested map has a leaf for each path, with the value of such a path.
Nests(flat) ==
  /\ DOMAIN cleaned = {CleanPath(p) : p \in flat} \ {<<>>}
  /\ \A q \in DOMAIN cleaned : cleaned[q] \in flat /\ CleanPath(cleaned[q]) = q
=============================================================================
