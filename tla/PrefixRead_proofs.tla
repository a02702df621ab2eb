------------------------- MODULE PrefixRead_proofs --------------------------
(* In whatever order unflattenMap takes the paths, its verdict is the same,   *)
(* for any keys and paths.  The argument: the leaves and sub-trees placed so *)
(* far are exactly the paths of the keys taken and what is above them, and   *)
(* the two never meet; so a key that cannot be placed is incompatible with   *)
(* one that was, and if all can be placed no two are.                        *)
EXTENDS PrefixRead, KeyRange_proofs

\* splitCleanPath returns a path.
LEMMA PathType ==
  ASSUME NEW s \in Paths
  PROVE  CleanPath(s) \in Seq(Segments)
<1> DEFINE solid == {i \in DOMAIN s : s[i] # Empty}
<1>1. s \in Seq(Segments)
  BY DEF Paths
<1>2. CASE solid = {}
  BY <1>2 DEF CleanPath
<1>3. CASE solid # {}
  <2>1. solid \subseteq 0..Len(s) /\ solid \subseteq Nat /\ Len(s) \in Nat
    BY <1>1
  <2> HIDE DEF solid
  <2>2. Min(solid) \in solid /\ Max(solid) \in solid
    BY <1>3, <2>1, LeastElement, GreatestElement
  <2>3. Min(solid) \in 1..Len(s) /\ Max(solid) \in 1..Len(s)
    BY <1>1, <2>2 DEF solid
  <2>4. SubSeq(s, Min(solid), Max(solid)) \in Seq(Segments)
    BY <1>1, <2>3, SubSeqProperties
  <2> QED BY <1>3, <2>4 DEF CleanPath, solid
<1> QED BY <1>2, <1>3

\* No path is above itself.
LEMMA ParentsAreShorter ==
  ASSUME NEW path \in Seq(Segments)
  PROVE  path \notin Parents(path) /\ <<>> \notin Parents(path)
<1>0. Len(path) \in Nat
  OBVIOUS
<1>1. ASSUME NEW i \in 1..(Len(path) - 1)
      PROVE  Len(SubSeq(path, 1, i)) = i
  <2>1. \A j \in 1..i : path[j] \in Segments
    OBVIOUS
  <2> QED BY <2>1, SubSeqProperties
<1> QED BY <1>1 DEF Parents

-----------------------------------------------------------------------------
(* The invariant.                                                            *)

\* What has been placed of the keys taken so far.
Placed(taken) ==
  /\ leaves = {CleanPath(k) : k \in taken} \ {<<>>}
  /\ subtrees = UNION {Parents(p) : p \in leaves}
  /\ leaves \cap subtrees = {}
  /\ Nests(taken)

Nesting ==
  /\ settings \in Settings /\ DOMAIN flat \subseteq Paths
  /\ pc \in {"idle", "reading", "read"} => NestIdle
  /\ pc = "nesting" =>
       settings.unflatten /\ todo \subseteq DOMAIN flat /\ Placed(DOMAIN flat \ todo)
  /\ pc = "done" /\ settings.unflatten => Placed(DOMAIN flat)
  /\ pc = "collision" => Incompatible(DOMAIN flat)

\* Before the first key nothing is placed.
LEMMA NothingPlaced ==
  ASSUME leaves = {}, subtrees = {}, cleaned = [p \in {} |-> 0]
  PROVE  Placed({})
BY DEF Placed, Nests

\* A key that is placed joins the rest.
LEMMA OneMore ==
  ASSUME NEW taken, taken \subseteq Paths, Placed(taken), NEW k \in Paths, Place(k)
  PROVE  Placed(taken \cup {k})'
<1> DEFINE path == CleanPath(k)
<1>1. path \in Seq(Segments)
  BY PathType
<1>2. path \notin Parents(path) /\ <<>> \notin Parents(path)
  BY <1>1, ParentsAreShorter
<1>3. {CleanPath(j) : j \in taken \cup {k}} = {CleanPath(j) : j \in taken} \cup {path}
  OBVIOUS
<1>4. path \notin subtrees /\ Parents(path) \cap leaves = {}
  BY DEF Place, Collides
<1> HIDE DEF path
<1>5. CASE path = <<>>
  <2>1. UNCHANGED <<leaves, subtrees, cleaned>>
    BY <1>5 DEF Place, path
  <2> QED BY <1>3, <1>5, <2>1 DEF Placed, Nests
<1>6. CASE path # <<>>
  <2>1. /\ leaves' = leaves \cup {path}
        /\ subtrees' = subtrees \cup Parents(path)
        /\ cleaned' = [p \in DOMAIN cleaned \cup {path} |->
                         IF p = path THEN k ELSE cleaned[p]]
    BY <1>6 DEF Place, path
  <2>2. leaves' = {CleanPath(j) : j \in taken \cup {k}} \ {<<>>}
    BY <1>3, <1>6, <2>1 DEF Placed
  <2>3. subtrees' = UNION {Parents(p) : p \in leaves'}
    BY <2>1 DEF Placed
  <2>4. leaves' \cap subtrees' = {}
    BY <1>2, <1>4, <2>1 DEF Placed
  <2>5. Nests(taken \cup {k})'
    <3>1. DOMAIN cleaned' = {CleanPath(j) : j \in taken \cup {k}} \ {<<>>}
      BY <1>3, <1>6, <2>1 DEF Placed, Nests
    <3>2. ASSUME NEW p \in DOMAIN cleaned'
          PROVE  cleaned'[p] \in taken \cup {k} /\ CleanPath(cleaned'[p]) = p
      BY <2>1, <3>2 DEF Placed, Nests, path
    <3> QED BY <3>1, <3>2 DEF Nests
  <2> QED BY <2>2, <2>3, <2>4, <2>5 DEF Placed
<1> QED BY <1>5, <1>6

\* A key that collides is incompatible with one that was placed.
LEMMA RealCollision ==
  ASSUME NEW taken, Placed(taken), NEW k, Collides(CleanPath(k)), CleanPath(k) # <<>>
  PROVE  Incompatible(taken \cup {k})
<1>1. CASE CleanPath(k) \in subtrees
  <2>1. PICK j \in taken : CleanPath(k) \in Parents(CleanPath(j))
    BY <1>1 DEF Placed
  <2> QED BY <2>1 DEF Incompatible
<1>2. CASE Parents(CleanPath(k)) \cap leaves # {}
  <2>1. PICK j \in taken : CleanPath(j) # <<>> /\ CleanPath(j) \in Parents(CleanPath(k))
    BY <1>2 DEF Placed
  <2> QED BY <2>1 DEF Incompatible
<1> QED BY <1>1, <1>2 DEF Collides

\* Where all are placed, none are incompatible.
LEMMA AllPlaced ==
  ASSUME NEW taken, taken \subseteq Paths, Placed(taken)
  PROVE  ~Incompatible(taken)
<1> SUFFICES ASSUME NEW j \in taken, NEW k \in taken, CleanPath(j) # <<>>,
                    CleanPath(j) \in Parents(CleanPath(k))
             PROVE  FALSE
  BY DEF Incompatible
<1>1. CleanPath(k) # <<>>
  <2>1. Parents(<<>>) = {}
    BY DEF Parents
  <2> QED BY <2>1
<1>2. CleanPath(j) \in leaves /\ CleanPath(k) \in leaves
  BY <1>1 DEF Placed
<1>3. CleanPath(j) \in subtrees
  BY <1>2 DEF Placed
<1> QED BY <1>2, <1>3 DEF Placed

\* A key without a path collides with nothing.
LEMMA NoPathNoCollision ==
  ASSUME NEW taken, taken \subseteq Paths, Placed(taken)
  PROVE  ~Collides(<<>>)
<1>1. Parents(<<>>) = {}
  BY DEF Parents
<1>2. \A p \in leaves : <<>> \notin Parents(p)
  <2>1. \A p \in leaves : p \in Seq(Segments)
    BY PathType DEF Placed
  <2> QED BY <2>1, ParentsAreShorter
<1>3. <<>> \notin subtrees
  BY <1>2 DEF Placed
<1> QED BY <1>1, <1>3 DEF Collides

\* The invariant holds at first and is kept by every step.
LEMMA NestingInit == Init => Nesting
BY DEF Init, Nesting, Nothing

LEMMA NestingStep ==
  ASSUME Nesting, [Next]_vars
  PROVE  Nesting'
<1> USE DEF readVars
<1>a. ASSUME UNCHANGED <<pc, flat, settings, nestVars>>
      PROVE  Nesting'
  BY <1>a DEF Nesting, Placed, Nests, NestIdle, nestVars
<1>1. CASE StoreStep \/ UNCHANGED vars
  BY <1>1, <1>a DEF StoreStep, vars
<1>2. CASE ReadStart
  BY <1>2 DEF ReadStart, Nesting, NestIdle, nestVars
<1>3. CASE GetPage
  <2>1. /\ pc = "reading" /\ pc' \in {"read", "reading"} /\ UNCHANGED nestVars
        /\ \E page \in SUBSET Keys :
             DOMAIN flat' = DOMAIN flat \cup {Path(k) : k \in page}
    <3>1. PICK at : DOMAIN flat' = DOMAIN flat \cup DOMAIN Flattened(Page(from, at), at)
      BY <1>3 DEF GetPage
    <3>2. Page(from, at) \subseteq Keys
      BY DEF Page, Present
    <3>3. DOMAIN Flattened(Page(from, at), at) = {Path(k) : k \in Page(from, at)}
      BY DEF Flattened
    <3> QED BY <1>3, <3>1, <3>2, <3>3 DEF GetPage
  <2>2. \A k \in Keys : Path(k) \in Paths
    BY PrefixReadAssumption DEF Nesting, Path
  <2>3. DOMAIN flat' \subseteq Paths
    BY <2>1, <2>2 DEF Nesting
  <2>4. settings' = settings
    BY <1>3 DEF GetPage
  <2> QED BY <2>1, <2>3, <2>4 DEF Nesting, NestIdle, nestVars
<1>4. CASE GetFails
  BY <1>4 DEF GetFails, Nesting
<1>5. CASE Finish
  <2>1. pc = "read" /\ NestIdle /\ UNCHANGED <<flat, settings>>
    BY <1>5 DEF Finish, Nesting
  <2>2. CASE pc' = "failed"
    BY <2>1, <2>2 DEF Nesting
  <2>3. CASE pc' = "done" /\ (settings.unflatten => DOMAIN flat = {}) /\ UNCHANGED nestVars
    <3>1. Placed({})
      BY <2>1, NothingPlaced DEF NestIdle
    <3>2. Placed({})'
      BY <2>3, <3>1 DEF Placed, Nests, nestVars
    <3> QED BY <2>1, <2>3, <3>2 DEF Nesting
  <2>4. CASE pc' = "nesting" /\ settings.unflatten /\ NestStart(DOMAIN flat)
    <3>1. todo' = DOMAIN flat /\ leaves' = {} /\ subtrees' = {}
          /\ cleaned' = [p \in {} |-> 0]
      BY <2>4 DEF NestStart
    <3>2. Placed({})'
      BY <3>1 DEF Placed, Nests
    <3>3. DOMAIN flat' \ todo' = {}
      BY <2>1, <3>1
    <3> QED BY <2>1, <2>4, <3>1, <3>2, <3>3 DEF Nesting
  <2> QED BY <1>5, <2>2, <2>3, <2>4 DEF Finish
<1>6. CASE PlacePath
  <2>1. PICK k \in todo :
          \/ Place(k) /\ pc' = IF todo' = {} THEN "done" ELSE "nesting"
          \/ Collides(CleanPath(k)) /\ pc' = "collision" /\ UNCHANGED nestVars
    BY <1>6 DEF PlacePath
  <2>0. PICK taken : taken = DOMAIN flat \ todo
    OBVIOUS
  <2>2. /\ pc = "nesting" /\ UNCHANGED <<flat, settings>>
        /\ settings.unflatten /\ todo \subseteq DOMAIN flat /\ Placed(taken)
        /\ DOMAIN flat \subseteq Paths /\ k \in Paths /\ taken \subseteq Paths
    BY <1>6, <2>0, <2>1 DEF PlacePath, Nesting
  <2>3. CASE Place(k) /\ pc' = IF todo' = {} THEN "done" ELSE "nesting"
    <3>1. todo' = todo \ {k}
      BY <2>3 DEF Place
    <3>2. DOMAIN flat' \ todo' = taken \cup {k}
      BY <2>0, <2>1, <2>2, <3>1
    <3>3. Placed(taken \cup {k})'
      BY <2>2, <2>3, OneMore
    <3>4. Placed(DOMAIN flat \ todo)'
      BY <3>2, <3>3 DEF Placed, Nests
    <3>5. todo' = {} => Placed(DOMAIN flat)'
      BY <3>4 DEF Placed, Nests
    <3> QED BY <2>2, <2>3, <3>1, <3>4, <3>5 DEF Nesting
  <2>4. CASE Collides(CleanPath(k)) /\ pc' = "collision"
    <3>1. CleanPath(k) # <<>>
      BY <2>2, <2>4, NoPathNoCollision
    <3>2. Incompatible(taken \cup {k})
      BY <2>2, <2>4, <3>1, RealCollision
    <3>3. Incompatible(DOMAIN flat)
      BY <2>1, <2>2, <3>2, <2>0 DEF Incompatible
    <3> QED BY <2>2, <2>4, <3>3 DEF Nesting, Incompatible
  <2> QED BY <2>1, <2>3, <2>4
<1> QED BY <1>1, <1>2, <1>3, <1>4, <1>5, <1>6 DEF Next, ReadSteps

-----------------------------------------------------------------------------

\* Every step of the read and of the store's other clients keeps the invariant.
THEOREM Invariance == Spec => []Nesting
<1>1. Nesting /\ [Next]_vars => Nesting'
  BY NestingStep
<1> QED BY <1>1, NestingInit, PTL DEF Spec

\* unflattenMap's verdict does not depend on the order of a Go map, and what it
\* returns has lost no path.
THEOREM OrderDoesNotMatter == Spec => []NestingIsRight
<1>1. Nesting => NestingIsRight
  <2> SUFFICES ASSUME Nesting, pc = "done", settings.unflatten
               PROVE  ~Incompatible(DOMAIN flat) /\ Nests(DOMAIN flat)
    BY DEF Nesting, NestingIsRight
  <2>1. DOMAIN flat \subseteq Paths /\ Placed(DOMAIN flat)
    BY DEF Nesting
  <2> QED BY <2>1, AllPlaced DEF Placed
<1> QED BY <1>1, Invariance, PTL
=============================================================================
