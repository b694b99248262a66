-------------------------- MODULE WalkerPoolProofs --------------------------
(***************************************************************************)
(* Proofs about WalkerPool: the count of directories in flight is exact,   *)
(* and the pool implements the safety part of Traversal for every tree.    *)
(*                                                                         *)
(* A token is a directory whose tree nobody has looked into yet: queued,   *)
(* just received, or a child kept for later.  Tokens never lie in each     *)
(* other's trees, so nothing is walked twice, and every directory that has *)
(* to be reported is below a token until it is on its way.                 *)
(***************************************************************************)
EXTENDS WalkerPool, FiniteSetTheorems, TLAPS

(***************************************************************************)
(* The inductive invariant.                                                *)
(***************************************************************************)

Fresh == {"enter", "read"}
Expanded == {"children", "send", "emit"}

\* The tokens of a worker, and all there are.
Owned(w) ==
  IF pc[w] \in Fresh THEN {item[w]}
  ELSE IF pc[w] = "send" THEN pending[w] \cup {sending[w]} ELSE pending[w]
Tokens == work \cup UNION {Owned(w) : w \in Workers}

\* Directories on their way to the scanner or already there.
Sent == results \cup received
Walking == {w \in Workers : pc[w] \in Expanded}

\* What a worker holds fits where it is.
Shape ==
  \A w \in Workers :
    /\ pc[w] \in Working => item[w] \in Dirs
    /\ pc[w] = "send" => sending[w] \in Dirs /\ sending[w] \notin pending[w]
    /\ pc[w] \notin {"children", "send", "done"} => pending[w] = {}

\* A directory the walk went through, and one it may look at.
Passed(d) ==
  /\ Path[d] \cap (Excluded \cup Refused \cup Foreign \cup Sealed \cup Opaque) = {}
  /\ Path[d] \cap Marked \subseteq Huge
Reachable(d) ==
  /\ d \in Dirs \ (Sealed \cup Opaque)
  /\ d \in Roots \/ Passed(Parent[d])

\* Nothing is entered or reported that a walk has to keep away from.
Legal ==
  /\ \A d \in work : Reachable(d)
  /\ \A w \in Workers :
       /\ pc[w] \in Working => Reachable(item[w])
       /\ pc[w] = "read" => item[w] \notin Excluded \cup Refused \cup Foreign
       /\ pc[w] \in Expanded => Passed(item[w])
       /\ pending[w] \subseteq Children(item[w]) \ Excluded
       /\ pc[w] = "send" => sending[w] \in Children(item[w]) \ (Sealed \cup Opaque)
  /\ Sent \subseteq MayReport(Excluded)

\* No token of one owner lies in the tree of another's.
NoOverlap(X, Y) == \A x \in X, y \in Y : x \notin Path[y] /\ y \notin Path[x]
AreApart(W, O) ==
  /\ \A x, y \in W : x \in Path[y] => x = y
  /\ \A w \in Workers : NoOverlap(W, O[w])
  /\ \A w, v \in Workers : w # v => NoOverlap(O[w], O[v])
Apart == AreApart(work, [w \in Workers |-> Owned(w)])

\* Nothing in the tree of a token was reported or is being walked.
Ahead ==
  \A t \in Tokens :
    /\ \A d \in Sent : t \notin Path[d]
    /\ \A w \in Walking : t \notin Path[item[w]]

\* A directory is walked by one worker and sent once.
SentOnce ==
  /\ results \cap received = {}
  /\ \A w \in Walking : item[w] \notin Sent
  /\ \A w, v \in Walking : w # v => item[w] # item[v]

\* As long as the pass goes on, what has to be reported is sent, being walked or ahead.
Accounted(d) ==
  \/ d \in Sent
  \/ Path[d] \cap Tokens # {}
  \/ \E w \in Walking : item[w] = d
Covered == outcome = "open" => \A d \in MustReport(Excluded) : Accounted(d)

\* As long as the pass goes on, workers leave only when nothing is in flight, and no
\* children are given up.
Leaving ==
  outcome = "open" =>
    /\ ~cancel /\ open
    /\ \A w \in Workers : pc[w] = "done" => pending[w] = {}
    /\ (\E w \in Workers : pc[w] = "exited") => in_flight = 0

IInv ==
  /\ TypeOK /\ Shape /\ CountCoversWork
  /\ Legal /\ Apart /\ Ahead /\ SentOnce /\ Covered /\ Leaving

(***************************************************************************)
(* The tree.                                                               *)
(***************************************************************************)

\* The assumptions on the constants, one by one.
LEMMA Constants ==
  /\ Roots \subseteq Dirs /\ Marked \subseteq Dirs /\ Huge \subseteq Dirs
  /\ Refused \subseteq Dirs /\ Foreign \subseteq Dirs /\ Sealed \subseteq Dirs /\ Opaque \subseteq Dirs
  /\ IsFiniteSet(Dirs) /\ IsFiniteSet(Workers)
  /\ \A d \in Dirs \ Roots : Parent[d] \in Dirs
  /\ \A d \in Roots : d \notin Sealed /\ d \notin Opaque
  /\ \A d \in Sealed : d \notin Opaque
BY TreeAssumption, PoolAssumption

\* A child is a directory with a parent.
LEMMA ChildType ==
  ASSUME NEW d, NEW c \in Children(d)
  PROVE  c \in Dirs /\ c \notin Roots /\ Parent[c] = d
BY DEF Children

\* A path is a set of directories that holds its own end.
LEMMA PathType ==
  ASSUME NEW d \in Dirs
  PROVE  Path[d] \subseteq Dirs /\ d \in Path[d]
BY DEF Path

\* A path is within every up-closed set that holds its end,
LEMMA PathLeast ==
  ASSUME NEW d \in Dirs, NEW S \in UpClosed, d \in S
  PROVE  Path[d] \subseteq S
BY DEF Path

\* and is up-closed itself.
LEMMA PathClosed ==
  ASSUME NEW d \in Dirs
  PROVE  Path[d] \in UpClosed
<1>1. ASSUME NEW y \in Path[d], y \notin Roots PROVE Parent[y] \in Path[d]
  <2>1. y \in Dirs /\ Parent[y] \in Dirs
    BY <1>1, PathType, Constants
  <2>2. ASSUME NEW S \in UpClosed, d \in S PROVE Parent[y] \in S
    <3>1. y \in S
      BY <2>2, PathLeast
    <3> QED BY <1>1, <3>1 DEF UpClosed
  <2> QED BY <2>1, <2>2 DEF Path
<1> QED BY <1>1, PathType DEF UpClosed

\* What is above a directory above d is above d.
LEMMA PathTransitive ==
  ASSUME NEW d \in Dirs, NEW y \in Path[d]
  PROVE  y \in Dirs /\ Path[y] \subseteq Path[d]
BY PathType, PathClosed, PathLeast

\* The path of a root is the root.
LEMMA PathRoot ==
  ASSUME NEW d \in Roots
  PROVE  Path[d] = {d}
<1>1. d \in Dirs /\ {d} \in UpClosed
  BY Constants DEF UpClosed
<1> QED BY <1>1, PathType, PathLeast

\* Any other path is that of the parent and one directory more.
LEMMA PathParent ==
  ASSUME NEW d \in Dirs \ Roots
  PROVE  Path[d] = {d} \cup Path[Parent[d]]
<1> DEFINE p == Parent[d]
           S == {d} \cup Path[p]
<1>1. p \in Dirs
  BY Constants
<1>2. p \in Path[p] /\ Path[p] \subseteq Dirs
  BY <1>1, PathType
<1>3. ASSUME NEW y \in S \ Roots PROVE Parent[y] \in S
  BY <1>1, <1>2, <1>3, PathClosed DEF UpClosed
<1>4. S \in UpClosed
  BY <1>2, <1>3 DEF UpClosed
<1>5. Path[d] \subseteq S
  BY <1>4, PathLeast
<1>6. d \in Path[d] /\ p \in Path[d]
  BY PathType, PathClosed DEF UpClosed
<1>7. Path[p] \subseteq Path[d]
  BY <1>6, PathTransitive
<1> QED BY <1>5, <1>6, <1>7

\* The way up from a directory does not come back to it.
LEMMA NoCycle ==
  ASSUME NEW d \in Dirs \ Roots
  PROVE  d \notin Path[Parent[d]]
<1> SUFFICES ASSUME d \in Path[Parent[d]] PROVE FALSE
  OBVIOUS
<1> DEFINE S == {y \in Path[d] : d \in Path[y]}
<1>1. ASSUME NEW y \in S PROVE y \in Dirs \ Roots
  <2>1. y \in Dirs /\ d \in Path[y]
    BY <1>1, PathType
  <2>2. CASE y \in Roots
    BY <2>1, <2>2, PathRoot
  <2> QED BY <2>1, <2>2
<1>2. ASSUME NEW y \in S PROVE Parent[y] \in S
  <2>1. y \in Dirs \ Roots /\ d \in Path[y] /\ y \in Path[d]
    BY <1>1, <1>2
  <2>2. Parent[y] \in Path[d]
    BY <2>1, PathClosed DEF UpClosed
  <2>3. d \in Path[Parent[y]]
    BY <2>1, PathParent
  <2> QED BY <2>2, <2>3
<1>3. S \in UpClosed /\ d \in S
  BY <1>2, PathType DEF UpClosed
<1>4. Path[d] \subseteq S
  BY <1>3, PathLeast
<1>5. Path[d] \cap Roots = {}
  BY <1>1, <1>4
<1> QED BY <1>5, TreeAssumption

\* Two directories that are above each other are the same.
LEMMA PathAntisymmetric ==
  ASSUME NEW x \in Dirs, NEW y \in Dirs, x \in Path[y], y \in Path[x]
  PROVE  x = y
<1> SUFFICES ASSUME x # y PROVE FALSE
  OBVIOUS
<1>1. CASE y \in Roots
  BY <1>1, PathRoot
<1>2. CASE y \notin Roots
  <2>1. x \in Path[Parent[y]] /\ Parent[y] \in Dirs
    BY <1>2, PathParent, Constants
  <2>2. y \in Path[Parent[y]]
    BY <2>1, PathTransitive
  <2> QED BY <1>2, <2>2, NoCycle
<1> QED BY <1>1, <1>2

\* The path of a child.
LEMMA PathChild ==
  ASSUME NEW d \in Dirs, NEW c \in Children(d)
  PROVE  Path[c] = {c} \cup Path[d] /\ c \notin Path[d] /\ d \in Path[c] /\ Above(c) = Path[d]
<1>1. c \in Dirs \ Roots /\ Parent[c] = d
  BY ChildType
<1>2. Path[c] = {c} \cup Path[d] /\ c \notin Path[d]
  BY <1>1, PathParent, NoCycle
<1> QED BY <1>2, PathType DEF Above

\* A child is not above its sibling.
LEMMA Siblings ==
  ASSUME NEW d \in Dirs, NEW c \in Children(d), NEW e \in Children(d), c \in Path[e]
  PROVE  c = e
BY PathChild

\* Below a directory one passes through one of its children.
LEMMA ChildBelow ==
  ASSUME NEW x \in Dirs, NEW d \in Path[x], x # d
  PROVE  \E c \in Children(d) : c \in Path[x]
<1> SUFFICES ASSUME \A c \in Children(d) : c \notin Path[x] PROVE FALSE
  OBVIOUS
<1> DEFINE S == Path[x] \ {d}
<1>1. ASSUME NEW y \in S, y \notin Roots PROVE Parent[y] \in S
  <2>1. y \in Dirs /\ Parent[y] \in Path[x]
    BY <1>1, PathType, PathClosed DEF UpClosed
  <2>2. Parent[y] # d
    BY <1>1, <2>1 DEF Children
  <2> QED BY <2>1, <2>2
<1>2. S \in UpClosed /\ x \in S
  BY <1>1, PathType DEF UpClosed
<1> QED BY <1>2, PathLeast

(***************************************************************************)
(* Tokens that move.                                                       *)
(***************************************************************************)

\* Owners that give up tokens stay apart.
LEMMA ApartShrinks ==
  ASSUME NEW W, NEW O, NEW P, AreApart(W, O), \A w \in Workers : P[w] \subseteq O[w]
  PROVE  AreApart(W, P)
BY DEF AreApart, NoOverlap

\* A worker takes a directory from the queue.
LEMMA ApartReceives ==
  ASSUME NEW W, NEW O, NEW P, AreApart(W, O), NEW w \in Workers, NEW d \in W,
         P[w] = {d}, \A v \in Workers \ {w} : P[v] = O[v]
  PROVE  AreApart(W \ {d}, P)
BY DEF AreApart, NoOverlap

\* A worker replaces a directory by some of its children.
LEMMA ApartDescends ==
  ASSUME NEW W \in SUBSET Dirs, NEW O, NEW P, AreApart(W, O), NEW w \in Workers,
         \A v \in Workers : O[v] \subseteq Dirs,
         NEW d \in O[w], P[w] \subseteq Children(d), \A v \in Workers \ {w} : P[v] = O[v]
  PROVE  AreApart(W, P)
<1>1. ASSUME NEW c \in P[w], NEW y \in Dirs, d \notin Path[y], y \notin Path[d]
      PROVE  c \notin Path[y] /\ y \notin Path[c]
  <2>1. c \in Children(d) /\ d \in Dirs
    OBVIOUS
  <2>2. Path[c] = {c} \cup Path[d] /\ d \in Path[c]
    BY <2>1, PathChild
  <2>3. CASE c \in Path[y]
    BY <1>1, <2>2, <2>3, PathTransitive
  <2>4. CASE y \in Path[c]
    BY <1>1, <2>2, <2>4, PathType
  <2> QED BY <2>3, <2>4
<1>2. ASSUME NEW y \in W PROVE y \in Dirs /\ d \notin Path[y] /\ y \notin Path[d]
  BY DEF AreApart, NoOverlap
<1>3. ASSUME NEW v \in Workers \ {w}, NEW y \in O[v]
      PROVE  y \in Dirs /\ d \notin Path[y] /\ y \notin Path[d]
  BY DEF AreApart, NoOverlap
<1>4. NoOverlap(W, P[w])
  BY <1>1, <1>2 DEF NoOverlap
<1>5. ASSUME NEW v \in Workers \ {w} PROVE NoOverlap(P[v], P[w]) /\ NoOverlap(P[w], P[v])
  BY <1>1, <1>3 DEF NoOverlap
<1>6. ASSUME NEW v \in Workers \ {w} PROVE NoOverlap(W, P[v])
  BY DEF AreApart
<1>7. ASSUME NEW v \in Workers \ {w}, NEW u \in Workers \ {w}, u # v PROVE NoOverlap(P[v], P[u])
  BY <1>7 DEF AreApart
<1> QED BY <1>4, <1>5, <1>6, <1>7 DEF AreApart

\* A worker queues one of its tokens.
LEMMA ApartSends ==
  ASSUME NEW W, NEW O, NEW P, AreApart(W, O), NEW w \in Workers, NEW c \in O[w],
         P[w] = O[w] \ {c}, NoOverlap({c}, P[w]), \A v \in Workers \ {w} : P[v] = O[v]
  PROVE  AreApart(W \cup {c}, P)
<1>1. ASSUME NEW y \in W PROVE c \notin Path[y] /\ y \notin Path[c]
  BY DEF AreApart, NoOverlap
<1>2. \A x, y \in W \cup {c} : x \in Path[y] => x = y
  BY <1>1 DEF AreApart
<1>3. ASSUME NEW v \in Workers PROVE NoOverlap(W \cup {c}, P[v])
  <2>1. CASE v = w
    BY <2>1 DEF AreApart, NoOverlap
  <2>2. CASE v # w
    <3>1. P[v] = O[v] /\ NoOverlap(W, O[v]) /\ NoOverlap(O[w], O[v])
      BY <2>2 DEF AreApart
    <3> QED BY <3>1 DEF NoOverlap
  <2> QED BY <2>1, <2>2
<1>4. ASSUME NEW v \in Workers, NEW u \in Workers, u # v PROVE NoOverlap(P[v], P[u])
  <2>1. P[v] \subseteq O[v] /\ P[u] \subseteq O[u] /\ NoOverlap(O[v], O[u])
    BY <1>4 DEF AreApart
  <2> QED BY <2>1 DEF NoOverlap
<1> QED BY <1>2, <1>3, <1>4 DEF AreApart

(***************************************************************************)
(* A step of one worker.                                                   *)
(***************************************************************************)

Labels == Working \cup {"top", "recv", "exited"}

\* Where the worker went; the others stay where they are and keep what they hold.
Moves(w, l) ==
  /\ pc' \in [Workers -> Labels] /\ pc'[w] = l
  /\ \A v \in Workers \ {w} :
       pc'[v] = pc[v] /\ item'[v] = item[v] /\ pending'[v] = pending[v] /\ sending'[v] = sending[v]

\* A step of one worker leaves the tokens of the others alone.
LEMMA OthersKeep ==
  ASSUME TypeOK, NEW w \in Workers, NEW l, Moves(w, l)
  PROVE  /\ pc'[w] = l
         /\ \A v \in Workers \ {w} : Owned(v)' = Owned(v)
         /\ Walking' = IF l \in Expanded THEN Walking \cup {w} ELSE Walking \ {w}
BY DEF TypeOK, Moves, Owned, Walking

\* The two numbers of workers that CountCoversWork adds up.
Busy == {w \in Workers : pc[w] \in Working}
Sending == {w \in Workers : pc[w] = "send"}

\* The sets that are counted are finite.
LEMMA SizeTypes ==
  ASSUME TypeOK
  PROVE  /\ IsFiniteSet(work) /\ IsFiniteSet(results) /\ IsFiniteSet(Busy) /\ IsFiniteSet(Sending)
         /\ Cardinality(work) \in Nat /\ Cardinality(results) \in Nat
         /\ Cardinality(Busy) \in Nat /\ Cardinality(Sending) \in Nat
<1>1. work \subseteq Dirs /\ results \subseteq Dirs /\ Busy \subseteq Workers /\ Sending \subseteq Workers
  BY DEF TypeOK, Busy, Sending
<1>2. IsFiniteSet(work) /\ IsFiniteSet(results) /\ IsFiniteSet(Busy) /\ IsFiniteSet(Sending)
  BY <1>1, Constants, FS_Subset
<1> QED BY <1>2, FS_CardinalityType

\* How a step of one worker changes their sizes.
LEMMA SizesMove ==
  ASSUME TypeOK, NEW w \in Workers, NEW l, Moves(w, l)
  PROVE  /\ pc[w] \in Working /\ l \in Working => Cardinality(Busy') = Cardinality(Busy)
         /\ pc[w] \notin Working /\ l \notin Working => Cardinality(Busy') = Cardinality(Busy)
         /\ pc[w] \notin Working /\ l \in Working => Cardinality(Busy') = Cardinality(Busy) + 1
         /\ pc[w] \in Working /\ l \notin Working =>
              Cardinality(Busy') = Cardinality(Busy) - 1 /\ Cardinality(Busy) > 0
         /\ pc[w] # "send" /\ l # "send" => Cardinality(Sending') = Cardinality(Sending)
         /\ pc[w] # "send" /\ l = "send" => Cardinality(Sending') = Cardinality(Sending) + 1
         /\ pc[w] = "send" /\ l # "send" => Cardinality(Sending') = Cardinality(Sending) - 1
<1>1. pc \in [Workers -> Working \cup {"top", "recv", "exited"}]
  BY DEF TypeOK
<1>2. \A v \in Workers : pc'[v] = IF v = w THEN l ELSE pc[v]
  BY <1>1 DEF Moves
<1>3. Busy' = IF l \in Working THEN Busy \cup {w} ELSE Busy \ {w}
  BY <1>2 DEF Busy
<1>4. Sending' = IF l = "send" THEN Sending \cup {w} ELSE Sending \ {w}
  BY <1>2 DEF Sending
<1>5. (w \in Busy <=> pc[w] \in Working) /\ (w \in Sending <=> pc[w] = "send")
  BY DEF Busy, Sending
<1>6. ASSUME NEW S, IsFiniteSet(S)
      PROVE  /\ w \in S => S \cup {w} = S /\ Cardinality(S \ {w}) = Cardinality(S) - 1 /\ Cardinality(S) > 0
             /\ w \notin S => S \ {w} = S /\ Cardinality(S \cup {w}) = Cardinality(S) + 1
  <2>1. CASE w \in S
    <3>1. S \cup {w} = S /\ S # {}
      BY <2>1
    <3>2. Cardinality(S \ {w}) = Cardinality(S) - 1
      BY <1>6, <2>1, FS_RemoveElement
    <3>3. Cardinality(S) \in Nat /\ Cardinality(S) # 0
      BY <1>6, <3>1, FS_CardinalityType, FS_EmptySet
    <3> QED BY <2>1, <3>1, <3>2, <3>3
  <2>2. CASE w \notin S
    <3>1. S \ {w} = S
      BY <2>2
    <3> QED BY <1>6, <2>2, <3>1, FS_AddElement
  <2> QED BY <2>1, <2>2
<1>7. IsFiniteSet(Busy) /\ IsFiniteSet(Sending)
  BY SizeTypes
<1> QED BY <1>3, <1>4, <1>5, <1>6, <1>7

(***************************************************************************)
(* What may and what has to be reported.                                   *)
(***************************************************************************)

\* A directory that is excluded, refused or under a marker hides nothing that has to be
\* reported.
LEMMA TurnedAway ==
  ASSUME NEW d \in Dirs \ Opaque,
         d \in Excluded \cup Refused \cup Foreign \/ Path[d] \cap Marked # {},
         NEW x \in MustReport(Excluded)
  PROVE  d \notin Path[x]
<1> SUFFICES ASSUME d \in Path[x] PROVE FALSE
  OBVIOUS
<1>1. /\ x \in Dirs /\ Path[x] \cap Foreign = {} /\ Path[x] \cap Excluded = {}
      /\ \A y \in Path[x] \cap Refused : y = x /\ x \in Opaque
      /\ \A m \in Path[x] \cap Marked : m \in Huge \/ (m = x /\ x \in Opaque)
      /\ Above(x) \cap Huge = {} /\ (x \in Marked => x \in Opaque)
  BY DEF MustReport, MayReport
<1>2. PICK m \in Path[d] : m \in Marked
  BY <1>1
<1>3. m \in Path[x] /\ m \in Dirs
  BY <1>1, <1>2, PathTransitive
<1>4. m = x
  BY <1>1, <1>2, <1>3 DEF Above
<1>5. d = x
  BY <1>1, <1>2, <1>4, PathAntisymmetric
<1> QED BY <1>1, <1>2, <1>4, <1>5

\* Nothing that has to be reported is below a directory that is left out,
LEMMA SealedHidesNothing ==
  ASSUME NEW c \in Sealed \cup (Opaque \cap Foreign), NEW x \in MustReport(Excluded)
  PROVE  c \notin Path[x]
BY Constants DEF MustReport, MayReport, Above

\* or below an opaque one,
LEMMA OpaqueIsLast ==
  ASSUME NEW c \in Opaque, NEW x \in MustReport(Excluded), c \in Path[x]
  PROVE  x = c
BY DEF MustReport, MayReport, Above

\* On the way down to what has to be reported there is a child that is not left out.
LEMMA WayDown ==
  ASSUME NEW d \in Dirs, NEW x \in MustReport(Excluded), d \in Path[x], x # d
  PROVE  d \notin Huge /\ \E c \in Children(d) \ Excluded : c \in Path[x]
<1>1. x \in Dirs /\ Path[x] \cap Excluded = {} /\ Above(x) \cap Huge = {}
  BY DEF MustReport, MayReport
<1>2. PICK c \in Children(d) : c \in Path[x]
  BY <1>1, ChildBelow
<1> QED BY <1>1, <1>2 DEF Above

\* and no root has to be reported.
LEMMA MustIsNoRoot ==
  ASSUME NEW x \in MustReport(Excluded)
  PROVE  x \in Dirs \ Roots
BY DEF MustReport, MayReport

\* A directory that was entered and holds no marker, or hides it in a huge listing.
LEMMA EntersPassed ==
  ASSUME NEW d, Reachable(d), d \notin Excluded \cup Refused \cup Foreign, d \notin Marked \ Huge
  PROVE  Passed(d)
<1>1. d \in Dirs /\ d \notin Sealed \cup Opaque
  BY DEF Reachable
<1>2. CASE d \in Roots
  BY <1>1, <1>2, PathRoot DEF Passed
<1>3. CASE d \notin Roots
  <2>1. Passed(Parent[d]) /\ Path[d] = {d} \cup Path[Parent[d]]
    BY <1>1, <1>3, PathParent DEF Reachable
  <2> QED BY <1>1, <2>1 DEF Passed
<1> QED BY <1>2, <1>3

\* A directory the walk went through may be reported,
LEMMA PassedMayReport ==
  ASSUME NEW d \in Dirs \ Roots, Passed(d)
  PROVE  d \in MayReport(Excluded)
BY PathType DEF Passed, MayReport, Above

\* an opaque child of it too,
LEMMA OpaqueMayReport ==
  ASSUME NEW d \in Dirs, Passed(d), NEW c \in Children(d) \ Excluded, c \in Opaque \ Foreign
  PROVE  c \in MayReport(Excluded)
<1>1. Path[c] = {c} \cup Path[d] /\ Above(c) = Path[d] /\ c \in Dirs \ Roots
  BY PathChild, ChildType
<1>2. c \notin Sealed
  BY Constants
<1> QED BY <1>1, <1>2 DEF Passed, MayReport

\* and its other children may be looked at.
LEMMA ChildReachable ==
  ASSUME NEW d \in Dirs, Passed(d), NEW c \in Children(d) \ (Sealed \cup Opaque)
  PROVE  Reachable(c)
BY ChildType DEF Reachable

(***************************************************************************)
(* Steps that move nothing but a worker.                                   *)
(***************************************************************************)

\* Tokens are directories.
LEMMA OwnedType ==
  ASSUME TypeOK, Shape
  PROVE  \A w \in Workers : Owned(w) \subseteq Dirs
BY DEF TypeOK, Shape, Owned, Fresh, Working

\* Tokens and walked directories that only become fewer, with nothing new sent.
LEMMA AheadKept ==
  ASSUME Ahead, SentOnce, Tokens' \subseteq Tokens,
         Sent' \subseteq Sent, (results \cap received = {})',
         \A v \in Walking' : v \in Walking /\ item'[v] = item[v]
  PROVE  Ahead' /\ SentOnce'
<1>1. Ahead'
  BY DEF Ahead
<1>2. SentOnce'
  BY DEF SentOnce
<1> QED BY <1>1, <1>2

\* Tokens stay apart when no worker gets more of them.
LEMMA ApartKept ==
  ASSUME Apart, work' = work, \A v \in Workers : Owned(v)' \subseteq Owned(v)
  PROVE  Apart' /\ Tokens' \subseteq Tokens
<1> DEFINE O == [w \in Workers |-> Owned(w)]
           P == [w \in Workers |-> Owned(w)']
<1>1. AreApart(work, O) /\ \A v \in Workers : P[v] \subseteq O[v]
  BY DEF Apart
<1>2. Tokens' \subseteq Tokens
  BY DEF Tokens
<1> HIDE DEF O, P
<1>3. AreApart(work, P)
  BY <1>1, ApartShrinks
<1> QED BY <1>2, <1>3 DEF Apart, P, AreApart, NoOverlap

\* A step that leaves the others alone keeps their shape,
LEMMA ShapeMoves ==
  ASSUME Shape, NEW w \in Workers, NEW l, Moves(w, l),
         l \in Working => item'[w] \in Dirs,
         l = "send" => sending'[w] \in Dirs /\ sending'[w] \notin pending'[w],
         l \notin {"children", "send", "done"} => pending'[w] = {}
  PROVE  Shape'
BY DEF Shape, Moves

\* and what they may look at.
LEMMA LegalMoves ==
  ASSUME Legal, NEW w \in Workers, NEW l, Moves(w, l),
         \A d \in work' : Reachable(d),
         l \in Working => Reachable(item'[w]),
         l = "read" => item'[w] \notin Excluded \cup Refused \cup Foreign,
         l \in Expanded => Passed(item'[w]),
         pending'[w] \subseteq Children(item'[w]) \ Excluded,
         l = "send" => sending'[w] \in Children(item'[w]) \ (Sealed \cup Opaque),
         Sent' \subseteq MayReport(Excluded)
  PROVE  Legal'
<1>1. ASSUME NEW v \in Workers
      PROVE  /\ pc'[v] \in Working => Reachable(item'[v])
             /\ pc'[v] = "read" => item'[v] \notin Excluded \cup Refused \cup Foreign
             /\ pc'[v] \in Expanded => Passed(item'[v])
             /\ pending'[v] \subseteq Children(item'[v]) \ Excluded
             /\ pc'[v] = "send" => sending'[v] \in Children(item'[v]) \ (Sealed \cup Opaque)
  <2>1. CASE v = w
    BY <2>1 DEF Moves
  <2>2. CASE v # w
    BY <2>2 DEF Legal, Moves
  <2> QED BY <2>1, <2>2
<1> QED BY <1>1 DEF Legal, Reachable, Passed

\* A busy worker keeps the count above zero.
LEMMA BusyCounts ==
  ASSUME TypeOK, CountCoversWork, NEW w \in Workers, pc[w] \in Working
  PROVE  in_flight # 0
<1>1. in_flight = Cardinality(work) + Cardinality(Busy) + Cardinality(Sending)
  BY DEF CountCoversWork, Busy, Sending
<1>2. Busy # {}
  BY DEF Busy
<1>3. Cardinality(Busy) # 0
  BY <1>2, SizeTypes, FS_EmptySet
<1> QED BY <1>1, <1>3, SizeTypes

\* While a worker is busy nobody has left.
LEMMA LeavingMoves ==
  ASSUME TypeOK, CountCoversWork, Leaving, NEW w \in Workers, NEW l, Moves(w, l),
         l = "exited" /\ outcome = "open" => in_flight = 0,
         l = "done" /\ outcome = "open" => pending'[w] = {},
         in_flight' = in_flight \/ pc[w] \in Working,
         UNCHANGED <<outcome, cancel, open>>
  PROVE  Leaving'
<1> SUFFICES ASSUME outcome = "open"
             PROVE  /\ ~cancel' /\ open'
                    /\ \A v \in Workers : pc'[v] = "done" => pending'[v] = {}
                    /\ (\E v \in Workers : pc'[v] = "exited") => in_flight' = 0
  BY DEF Leaving
<1>0. \A v \in Workers : pc'[v] = "done" => pending'[v] = {}
  BY DEF Leaving, Moves
<1>1. ~cancel' /\ open'
  BY Zenon DEF Leaving
<1>2. ASSUME NEW v \in Workers, pc'[v] = "exited" PROVE in_flight = 0
  BY <1>2 DEF Leaving, Moves
<1>3. pc[w] \in Working => in_flight # 0
  BY BusyCounts
<1> QED BY <1>0, <1>1, <1>2, <1>3

\* It is enough to look at the tokens that left the queue, and at what worker w held.
LEMMA CoveredMoves ==
  ASSUME TypeOK, Covered, NEW w \in Workers, NEW l, Moves(w, l), outcome' = outcome,
         Sent \subseteq Sent',
         outcome = "open" =>
           \A x \in MustReport(Excluded) :
             /\ \A t \in (work \ work') \cup Owned(w) : t \in Path[x] => Accounted(x)'
             /\ w \in Walking /\ item[w] = x => Accounted(x)'
  PROVE  Covered'
<1> SUFFICES ASSUME outcome = "open", NEW x \in MustReport(Excluded) PROVE Accounted(x)'
  BY DEF Covered
<1>1. \A v \in Workers \ {w} : Owned(v)' = Owned(v) /\ item'[v] = item[v]
  BY OthersKeep DEF Moves
<1>2. Walking \ {w} \subseteq Walking'
  BY OthersKeep
<1>3. CASE x \in Sent
  BY <1>3 DEF Accounted
<1>4. CASE Path[x] \cap Tokens # {}
  <2>1. PICK t \in Path[x] : t \in Tokens
    BY <1>4
  <2>2. CASE t \in work \cap work'
    BY <2>1, <2>2 DEF Accounted, Tokens
  <2>3. CASE \E v \in Workers \ {w} : t \in Owned(v)
    <3>1. t \in Tokens'
      BY <1>1, <2>3 DEF Tokens
    <3> QED BY <2>1, <3>1 DEF Accounted
  <2>4. CASE t \in (work \ work') \cup Owned(w)
    BY <2>1, <2>4
  <2> QED BY <2>1, <2>2, <2>3, <2>4 DEF Tokens
<1>5. CASE \E v \in Walking : item[v] = x
  <2>1. PICK v \in Walking : item[v] = x
    BY <1>5
  <2>2. CASE v = w
    BY <2>1, <2>2
  <2>3. CASE v # w
    BY <1>1, <1>2, <2>1, <2>3 DEF Accounted, Walking
  <2> QED BY <2>2, <2>3
<1> QED BY <1>3, <1>4, <1>5 DEF Covered, Accounted

\* The count follows the queue and the workers.
LEMMA CountMoves ==
  ASSUME TypeOK, CountCoversWork,
         in_flight' - in_flight = (Cardinality(work') - Cardinality(work))
                                  + (Cardinality(Busy') - Cardinality(Busy))
                                  + (Cardinality(Sending') - Cardinality(Sending)),
         in_flight' \in Int, Cardinality(work') \in Int,
         Cardinality(Busy') \in Int, Cardinality(Sending') \in Int
  PROVE  CountCoversWork'
<1>1. in_flight = Cardinality(work) + Cardinality(Busy) + Cardinality(Sending)
  BY DEF CountCoversWork, Busy, Sending
<1>2. in_flight' = Cardinality(work') + Cardinality(Busy') + Cardinality(Sending')
  BY <1>1, SizeTypes DEF TypeOK
<1> QED BY <1>2 DEF CountCoversWork, Busy, Sending

\* A step that moves worker w to l and changes nothing else, except that a marker may
\* become known.
Quiet(w, l) ==
  /\ l \in Labels /\ pc' = [pc EXCEPT ![w] = l] /\ markers' \subseteq Marked
  /\ UNCHANGED <<work, in_flight, results, cancel, item, pending, sending, scanner_vars>>
  /\ pc[w] # "send" /\ l \notin {"send", "enter"}
  /\ pc[w] \in Working <=> l \in Working
  /\ l \notin {"children", "done"} => pending[w] = {}
  /\ l = "read" => pc[w] = "enter" /\ item[w] \notin Excluded \cup Refused \cup Foreign
  /\ l \in Expanded => pc[w] \in Expanded
  /\ outcome = "open" =>
       /\ l = "exited" => in_flight = 0
       /\ l = "done" => pending[w] = {}
       /\ pc[w] \in Fresh /\ l \notin Fresh => \A x \in MustReport(Excluded) : item[w] \notin Path[x]
       /\ pc[w] \in Expanded /\ l \notin Expanded => item[w] \notin MustReport(Excluded)

\* A step that changes only where a worker is keeps the invariant.
LEMMA QuietHolds ==
  ASSUME IInv, NEW w \in Workers, NEW l, Quiet(w, l)
  PROVE  IInv'
<1> USE DEF scanner_vars
<1>0. TypeOK /\ Shape /\ Legal /\ Apart /\ Ahead /\ SentOnce /\ Covered /\ Leaving /\ CountCoversWork
  BY DEF IInv
<1>1. Moves(w, l)
  BY <1>0 DEF Quiet, Moves, TypeOK, Labels
<1>2. pc'[w] = l /\ \A v \in Workers \ {w} : pc'[v] = pc[v] /\ Owned(v)' = Owned(v)
  BY <1>0, <1>1, OthersKeep DEF Moves
<1>3. Walking' = IF l \in Expanded THEN Walking \cup {w} ELSE Walking \ {w}
  BY <1>0, <1>1, OthersKeep
<1>4. /\ work' = work /\ in_flight' = in_flight /\ results' = results /\ item' = item
      /\ pending' = pending /\ sending' = sending /\ received' = received /\ outcome' = outcome
  BY DEF Quiet
<1>5. cancel' = cancel /\ open' = open
  BY DEF Quiet
<1>6. TypeOK'
  <2>1. cancel' \in BOOLEAN /\ open' \in BOOLEAN
    BY <1>0, <1>5, Zenon DEF TypeOK
  <2> QED BY <1>0, <1>1, <1>4, <2>1 DEF TypeOK, Quiet, Moves, Labels
<1>7. Shape'
  BY <1>0, <1>1, <1>4, ShapeMoves DEF Shape, Quiet
<1>8. CountCoversWork'
  <2>1. Cardinality(Busy') = Cardinality(Busy) /\ Cardinality(Sending') = Cardinality(Sending)
    BY <1>0, <1>1, SizesMove DEF Quiet
  <2> QED BY <1>0, <1>4, <2>1, SizeTypes, CountMoves DEF TypeOK
<1>9. Legal'
  BY <1>0, <1>1, <1>4, LegalMoves DEF Legal, Quiet, Sent
<1>10. Owned(w)' \subseteq Owned(w) /\ (l \in Fresh \/ pc[w] \notin Fresh => Owned(w)' = Owned(w))
  <2>1. CASE l \in Fresh
    BY <1>2, <1>4, <2>1 DEF Quiet, Owned, Fresh
  <2>2. CASE l \notin Fresh
    BY <1>0, <1>2, <1>4, <2>2 DEF Quiet, Owned, Fresh, Shape
  <2> QED BY <2>1, <2>2
<1>11. Apart' /\ Ahead' /\ SentOnce'
  <2>1. Apart' /\ Tokens' \subseteq Tokens
    BY <1>0, <1>2, <1>4, <1>10, ApartKept
  <2>2. Sent' \subseteq Sent /\ (results \cap received = {})'
    BY <1>0, <1>4 DEF Sent, SentOnce
  <2>3. \A v \in Walking' : v \in Walking /\ item'[v] = item[v]
    BY <1>3, <1>4 DEF Quiet, Walking
  <2> QED BY <1>0, <2>1, <2>2, <2>3, AheadKept
<1>12. Covered'
  <2> SUFFICES ASSUME outcome = "open", NEW x \in MustReport(Excluded)
               PROVE  /\ \A t \in Owned(w) : t \in Path[x] => Accounted(x)'
                      /\ w \in Walking /\ item[w] = x => Accounted(x)'
    BY <1>0, <1>1, <1>4, CoveredMoves DEF Sent
  <2>1. ASSUME NEW t \in Owned(w), t \in Path[x] PROVE Accounted(x)'
    <3>1. CASE l \in Fresh \/ pc[w] \notin Fresh
      BY <1>10, <2>1, <3>1 DEF Tokens, Accounted
    <3>2. CASE l \notin Fresh /\ pc[w] \in Fresh
      BY <2>1, <3>2 DEF Quiet, Owned
    <3> QED BY <3>1, <3>2
  <2>2. ASSUME w \in Walking, item[w] = x PROVE Accounted(x)'
    BY <1>3, <1>4, <2>2 DEF Quiet, Walking, Accounted
  <2> QED BY <2>1, <2>2
<1>13. Leaving'
  BY <1>0, <1>1, <1>4, <1>5, LeavingMoves DEF Quiet
<1> QED BY <1>6, <1>7, <1>8, <1>9, <1>11, <1>12, <1>13 DEF IInv

\* The loop of a worker around its directories, and entering one.
LEMMA QuietSteps ==
  ASSUME IInv, NEW w \in Workers,
         LoopTop(w) \/ ReceiveTimeout(w) \/ Enter(w)
  PROVE  IInv'
<1>0. TypeOK /\ Shape /\ Legal /\ Leaving
  BY DEF IInv
<1>1. CASE LoopTop(w)
  <2> DEFINE l == IF cancel THEN "exited" ELSE "recv"
  <2>1. l \in Labels /\ l \notin Working /\ l \notin Expanded /\ pc[w] = "top" /\ l \in {"exited", "recv"}
    BY <1>1 DEF LoopTop, Labels, Working, Expanded
  <2>2. pc' = [pc EXCEPT ![w] = l]
    BY <1>1 DEF LoopTop, Goto
  <2>3. outcome = "open" => l # "exited"
    BY <1>0 DEF Leaving
  <2> HIDE DEF l
  <2>4. Quiet(w, l)
    BY <1>0, <1>1, <2>1, <2>2, <2>3
       DEF LoopTop, Quiet, TypeOK, Shape, Fresh, Expanded, Working, scanner_vars
  <2> QED BY <2>4, QuietHolds
<1>2. CASE ReceiveTimeout(w)
  <2> DEFINE l == IF cancel \/ in_flight = 0 THEN "exited" ELSE "top"
  <2>1. l \in Labels /\ l \notin Working /\ l \notin Expanded /\ pc[w] = "recv" /\ l \in {"exited", "top"}
    BY <1>2 DEF ReceiveTimeout, Labels, Working, Expanded
  <2>2. pc' = [pc EXCEPT ![w] = l]
    BY <1>2 DEF ReceiveTimeout, Goto
  <2>3. outcome = "open" /\ l = "exited" => in_flight = 0
    BY <1>0 DEF Leaving
  <2> HIDE DEF l
  <2>4. Quiet(w, l)
    BY <1>0, <1>2, <2>1, <2>2, <2>3
       DEF ReceiveTimeout, Quiet, TypeOK, Shape, Fresh, Expanded, Working, scanner_vars
  <2> QED BY <2>4, QuietHolds
<1>3. CASE Enter(w)
  <2> DEFINE d == item[w]
             away == d \in Excluded \cup Refused \cup Foreign \/ Path[d] \cap markers # {}
             l == IF away THEN "done" ELSE "read"
  <2>1. l \in Labels /\ l \in Working /\ l \notin Expanded /\ pc[w] = "enter" /\ l \in {"done", "read"}
    BY <1>3 DEF Enter, Labels, Working, Expanded
  <2>2. pc' = [pc EXCEPT ![w] = l]
    BY <1>3 DEF Enter, Goto
  <2>3. d \in Dirs \ Opaque
    BY <1>0, <2>1 DEF Legal, Reachable, Working
  <2>4. ASSUME away, NEW x \in MustReport(Excluded) PROVE d \notin Path[x]
    <3>1. d \in Excluded \cup Refused \cup Foreign \/ Path[d] \cap Marked # {}
      BY <1>0, <2>4 DEF TypeOK
    <3> QED BY <2>3, <3>1, TurnedAway
  <2>5. l = "read" => d \notin Excluded \cup Refused \cup Foreign
    OBVIOUS
  <2>6. l \notin Fresh => away
    BY DEF Fresh
  <2> HIDE DEF l, away
  <2>7. pending[w] = {}
    BY <1>0, <2>1 DEF Shape
  <2>8. Quiet(w, l)
    BY <1>0, <1>3, <2>1, <2>2, <2>4, <2>5, <2>6, <2>7
       DEF Enter, Quiet, TypeOK, Expanded, Working, scanner_vars
  <2> QED BY <2>8, QuietHolds
<1> QED BY <1>1, <1>2, <1>3

\* A worker takes a directory from the queue.
LEMMA ReceiveHolds ==
  ASSUME IInv, NEW w \in Workers, Receive(w)
  PROVE  IInv'
<1> USE DEF scanner_vars
<1>0. TypeOK /\ Shape /\ Legal /\ Apart /\ Ahead /\ SentOnce /\ Covered /\ Leaving /\ CountCoversWork
  BY DEF IInv
<1>1. PICK d \in work : work' = work \ {d} /\ item' = [item EXCEPT ![w] = d]
  BY DEF Receive
<1>2. /\ pc[w] = "recv" /\ pc' = [pc EXCEPT ![w] = "enter"]
      /\ in_flight' = in_flight /\ results' = results /\ markers' = markers /\ cancel' = cancel
      /\ pending' = pending /\ sending' = sending
      /\ received' = received /\ outcome' = outcome /\ open' = open
  BY DEF Receive, Goto
<1>3. d \in Dirs /\ item'[w] = d /\ pending[w] = {}
  BY <1>0, <1>1, <1>2 DEF TypeOK, Shape
<1>4. Moves(w, "enter")
  BY <1>0, <1>1, <1>2 DEF Moves, TypeOK, Labels, Working
<1>5. /\ pc'[w] = "enter" /\ Walking' = Walking \ {w}
      /\ \A v \in Workers \ {w} : Owned(v)' = Owned(v) /\ item'[v] = item[v]
  BY <1>0, <1>4, OthersKeep DEF Expanded, Moves
<1>6. Owned(w)' = {d} /\ Owned(w) = {}
  BY <1>2, <1>3, <1>5 DEF Owned, Fresh
<1>7. TypeOK'
  <2>1. cancel' \in BOOLEAN /\ open' \in BOOLEAN
    BY <1>0, <1>2, Zenon DEF TypeOK
  <2>2. item' \in [Workers -> Dirs \cup {None}] /\ work' \subseteq Dirs
    BY <1>0, <1>1 DEF TypeOK
  <2> QED BY <1>0, <1>2, <1>4, <2>1, <2>2 DEF TypeOK, Moves, Labels
<1>8. Shape'
  BY <1>0, <1>2, <1>3, <1>4, ShapeMoves
<1>9. CountCoversWork'
  <2>1. Cardinality(work') = Cardinality(work) - 1
    BY <1>0, <1>1, SizeTypes, FS_RemoveElement
  <2>2. Cardinality(Busy') = Cardinality(Busy) + 1 /\ Cardinality(Sending') = Cardinality(Sending)
    BY <1>0, <1>2, <1>4, SizesMove DEF Working
  <2> QED BY <1>0, <1>2, <2>1, <2>2, SizeTypes, CountMoves DEF TypeOK
<1>10. Legal'
  <2>1. Reachable(d) /\ \A e \in work' : Reachable(e)
    BY <1>0, <1>1 DEF Legal
  <2>2. Sent' \subseteq MayReport(Excluded)
    BY <1>0, <1>2 DEF Legal, Sent
  <2> QED BY <1>0, <1>2, <1>3, <1>4, <2>1, <2>2, LegalMoves DEF Expanded
<1>11. Apart'
  <2> DEFINE O == [v \in Workers |-> Owned(v)]
             P == [v \in Workers |-> Owned(v)']
  <2>1. AreApart(work, O) /\ P[w] = {d} /\ \A v \in Workers \ {w} : P[v] = O[v]
    BY <1>0, <1>5, <1>6 DEF Apart
  <2> HIDE DEF O, P
  <2>2. AreApart(work \ {d}, P)
    BY <2>1, ApartReceives
  <2> QED BY <1>1, <2>2 DEF Apart, P, AreApart, NoOverlap
<1>12. Tokens' = Tokens
  <2>1. ASSUME NEW t PROVE t \in Tokens' <=> t \in Tokens
    <3>1. t \in Tokens <=> t \in work \/ \E v \in Workers \ {w} : t \in Owned(v)
      BY <1>6 DEF Tokens
    <3>2. t \in Tokens' <=> t \in work' \/ t = d \/ \E v \in Workers \ {w} : t \in Owned(v)
      BY <1>5, <1>6 DEF Tokens
    <3> QED BY <1>1, <3>1, <3>2
  <2> QED BY <2>1
<1>13. Ahead' /\ SentOnce'
  <2>1. Sent' \subseteq Sent /\ (results \cap received = {})'
    BY <1>0, <1>2 DEF Sent, SentOnce
  <2> QED BY <1>0, <1>5, <1>12, <2>1, AheadKept DEF Walking
<1>14. Covered'
  <2>1. ASSUME NEW x, NEW t \in (work \ work') \cup Owned(w), t \in Path[x] PROVE Accounted(x)'
    BY <1>1, <1>6, <2>1 DEF Accounted, Tokens
  <2>2. w \notin Walking
    BY <1>2 DEF Walking, Expanded
  <2>3. Sent \subseteq Sent'
    BY <1>2 DEF Sent
  <2> QED BY <1>0, <1>2, <1>4, <2>1, <2>2, <2>3, CoveredMoves
<1>15. Leaving'
  BY <1>0, <1>2, <1>4, LeavingMoves
<1> QED BY <1>7, <1>8, <1>9, <1>10, <1>11, <1>13, <1>14, <1>15 DEF IInv

\* The worker keeps children of its directory for later.
LEMMA ExpandHolds ==
  ASSUME IInv, NEW w \in Workers, NEW some,
         pc[w] = "read", pc' = [pc EXCEPT ![w] = "children"],
         pending' = [pending EXCEPT ![w] = some],
         some \subseteq Children(item[w]) \ Excluded,
         item[w] \notin Huge => some = Children(item[w]) \ Excluded,
         item[w] \notin Marked \ Huge,
         UNCHANGED <<work, in_flight, results, markers, cancel, item, sending, scanner_vars>>
  PROVE  IInv'
<1> USE DEF scanner_vars
<1> DEFINE d == item[w]
<1>0. TypeOK /\ Shape /\ Legal /\ Apart /\ Ahead /\ SentOnce /\ Covered /\ Leaving /\ CountCoversWork
  BY DEF IInv
<1>1. d \in Dirs /\ Reachable(d) /\ d \notin Excluded \cup Refused \cup Foreign
  BY <1>0 DEF Shape, Legal, Working
<1>2. Passed(d)
  BY <1>1, EntersPassed
<1>3. some \subseteq Dirs /\ pending'[w] = some
  BY <1>0, ChildType DEF TypeOK
<1>4. Moves(w, "children")
  BY <1>0 DEF Moves, TypeOK, Labels, Working
<1>5. /\ pc'[w] = "children" /\ Walking' = Walking \cup {w}
      /\ \A v \in Workers \ {w} : Owned(v)' = Owned(v)
  BY <1>0, <1>4, OthersKeep DEF Expanded
<1>6. Owned(w)' = some /\ Owned(w) = {d}
  BY <1>3, <1>5 DEF Owned, Fresh
<1>7. TypeOK'
  <2>1. cancel' \in BOOLEAN /\ open' \in BOOLEAN
    BY <1>0, Zenon DEF TypeOK
  <2>2. pending' \in [Workers -> SUBSET Dirs]
    BY <1>0, <1>3 DEF TypeOK
  <2> QED BY <1>0, <1>4, <2>1, <2>2 DEF TypeOK, Moves, Labels
<1>8. Shape'
  BY <1>0, <1>1, <1>4, ShapeMoves
<1>9. CountCoversWork'
  <2>1. Cardinality(Busy') = Cardinality(Busy) /\ Cardinality(Sending') = Cardinality(Sending)
    BY <1>0, <1>4, SizesMove DEF Working
  <2> QED BY <1>0, <2>1, SizeTypes, CountMoves DEF TypeOK
<1>10. Legal'
  <2>1. (\A e \in work' : Reachable(e)) /\ Sent' \subseteq MayReport(Excluded)
    BY <1>0 DEF Legal, Sent
  <2> QED BY <1>0, <1>1, <1>2, <1>3, <1>4, <2>1, LegalMoves
<1>11. Apart'
  <2> DEFINE O == [v \in Workers |-> Owned(v)]
             P == [v \in Workers |-> Owned(v)']
  <2>1. /\ AreApart(work, O) /\ d \in O[w] /\ P[w] \subseteq Children(d)
        /\ \A v \in Workers \ {w} : P[v] = O[v]
    BY <1>0, <1>5, <1>6 DEF Apart
  <2>2. work \in SUBSET Dirs /\ \A v \in Workers : O[v] \subseteq Dirs
    BY <1>0, OwnedType DEF TypeOK
  <2> HIDE DEF O, P, d
  <2>3. AreApart(work, P)
    BY <2>1, <2>2, ApartDescends
  <2> QED BY <2>3 DEF Apart, P, AreApart, NoOverlap
<1>12. d \in Tokens
  BY <1>6 DEF Tokens
<1>13. ASSUME NEW t \in Tokens', t \notin some PROVE t \in Tokens /\ t \notin Path[d]
  <2>1. t \in work \/ \E v \in Workers \ {w} : t \in Owned(v)
    BY <1>5, <1>6, <1>13 DEF Tokens
  <2> QED BY <1>0, <1>6, <2>1 DEF Tokens, Apart, AreApart, NoOverlap
<1>14. ASSUME NEW t \in some, NEW y \in Dirs, d \notin Path[y] PROVE t \notin Path[y]
  <2>1. d \in Path[t]
    BY <1>1, PathChild
  <2> QED BY <1>14, <2>1, PathTransitive
<1>15. Ahead'
  <2>1. ASSUME NEW t \in Tokens', NEW y \in Sent PROVE t \notin Path[y]
    <3>1. y \in Dirs /\ d \notin Path[y]
      BY <1>0, <1>12 DEF Ahead, TypeOK, Sent
    <3> QED BY <1>0, <1>13, <1>14, <3>1 DEF Ahead
  <2>2. ASSUME NEW t \in Tokens', NEW v \in Walking PROVE t \notin Path[item[v]]
    <3>1. item[v] \in Dirs /\ d \notin Path[item[v]]
      BY <1>0, <1>12 DEF Ahead, Shape, Walking, Working, Expanded
    <3> QED BY <1>0, <1>13, <1>14, <3>1 DEF Ahead
  <2>3. ASSUME NEW t \in Tokens' PROVE t \notin Path[d]
    <3>1. t \in some => t \notin Path[d]
      BY <1>1, PathChild
    <3> QED BY <1>13, <3>1
  <2> QED BY <1>5, <2>1, <2>2, <2>3 DEF Ahead, Sent
<1>16. SentOnce'
  <2>1. d \in Path[d]
    BY <1>1, PathType
  <2>2. d \notin Sent /\ \A v \in Walking : item[v] # d
    BY <1>0, <1>12, <2>1 DEF Ahead
  <2> QED BY <1>0, <1>5, <2>2 DEF SentOnce, Sent
<1>17. Covered'
  <2>1. ASSUME NEW x \in MustReport(Excluded), d \in Path[x] PROVE Accounted(x)'
    <3>1. CASE x = d
      BY <1>5, <3>1 DEF Accounted
    <3>2. CASE x # d
      <4>1. d \notin Huge /\ \E c \in Children(d) \ Excluded : c \in Path[x]
        BY <1>1, <2>1, <3>2, WayDown
      <4>2. PICK c \in some : c \in Path[x]
        BY <4>1
      <4>3. c \in Tokens'
        BY <1>6 DEF Tokens
      <4> QED BY <4>2, <4>3 DEF Accounted
    <3> QED BY <3>1, <3>2
  <2>2. w \notin Walking /\ Sent \subseteq Sent'
    BY DEF Walking, Expanded, Sent
  <2> QED BY <1>0, <1>4, <1>6, <2>1, <2>2, CoveredMoves
<1>18. Leaving'
  BY <1>0, <1>4, LeavingMoves
<1> QED BY <1>7, <1>8, <1>9, <1>10, <1>11, <1>15, <1>16, <1>17, <1>18 DEF IInv

\* A worker lists its directory and gets the children as tokens.
LEMMA ReadHolds ==
  ASSUME IInv, NEW w \in Workers, ReadEntries(w)
  PROVE  IInv'
<1> DEFINE d == item[w]
<1>0. TypeOK /\ Shape /\ Legal /\ Leaving
  BY DEF IInv
<1>1. /\ pc[w] = "read" /\ pending[w] = {} /\ d \in Dirs \ Opaque
      /\ UNCHANGED <<work, in_flight, results, cancel, item, sending, scanner_vars>>
  BY <1>0 DEF ReadEntries, Shape, Legal, Reachable, Working
<1>2. CASE /\ cancel \/ d \in Marked
           /\ pc' = [pc EXCEPT ![w] = "done"] /\ UNCHANGED pending
           /\ markers' \in {markers, markers \cup {d}} /\ (d \notin Marked => markers' = markers)
  <2>1. markers' \subseteq Marked
    BY <1>0, <1>2 DEF TypeOK
  <2>2. ASSUME outcome = "open", NEW x \in MustReport(Excluded) PROVE d \notin Path[x]
    <3>1. d \in Marked /\ d \in Path[d]
      BY <1>0, <1>1, <1>2, <2>2, PathType DEF Leaving
    <3> QED BY <1>1, <3>1, TurnedAway
  <2>3. Quiet(w, "done")
    BY <1>1, <1>2, <2>1, <2>2 DEF Quiet, Labels, Working, Expanded, Fresh
  <2> QED BY <2>3, QuietHolds
<1>3. CASE /\ ~cancel /\ d \notin Marked \ Huge
           /\ \E some \in IF d \in Huge THEN SUBSET (Children(d) \ Excluded) ELSE {Children(d) \ Excluded} :
                pending' = [pending EXCEPT ![w] = some]
           /\ pc' = [pc EXCEPT ![w] = "children"] /\ UNCHANGED markers
  <2>1. PICK some \in IF d \in Huge THEN SUBSET (Children(d) \ Excluded) ELSE {Children(d) \ Excluded} :
          pending' = [pending EXCEPT ![w] = some]
    BY <1>3
  <2>2. some \subseteq Children(d) \ Excluded /\ (d \notin Huge => some = Children(d) \ Excluded)
    BY <2>1
  <2> QED BY <1>1, <1>3, <2>1, <2>2, ExpandHolds
<1> QED BY <1>2, <1>3 DEF ReadEntries, Goto

\* A result goes into the channel only when there is room.
LEMMA RoomForResult ==
  ASSUME TypeOK, NEW c \in Dirs, results' = results \cup {c}, Cardinality(results) < ResultCap
  PROVE  results' \subseteq Dirs /\ Cardinality(results') <= ResultCap
<1>1. Cardinality(results \cup {c}) \in {Cardinality(results), Cardinality(results) + 1}
  BY SizeTypes, FS_AddElement
<1>2. Cardinality(results) \in Nat /\ ResultCap \in Nat
  BY SizeTypes, PoolAssumption
<1>3. Cardinality(results') <= ResultCap
  BY <1>1, <1>2
<1> QED BY <1>3 DEF TypeOK

\* A child that is passed over, or given up with the rest of the pass.
LEMMA PassOverHolds ==
  ASSUME IInv, NEW w \in Workers, NEW c \in pending[w], NEW l \in {"children", "done"},
         pc[w] = "children", pc' \in [Workers -> Labels], pc'[w] = l,
         \A v \in Workers \ {w} : pc'[v] = pc[v],
         pending' = [pending EXCEPT ![w] = @ \ {c}],
         outcome = "open" =>
           l = "children" /\ \A x \in MustReport(Excluded) : c \notin Path[x],
         UNCHANGED <<work, in_flight, results, markers, cancel, item, sending, scanner_vars>>
  PROVE  IInv'
<1> USE DEF scanner_vars
<1>0. TypeOK /\ Shape /\ Legal /\ Apart /\ Ahead /\ SentOnce /\ Covered /\ Leaving /\ CountCoversWork
  BY DEF IInv
<1>1. pending'[w] = pending[w] \ {c} /\ \A v \in Workers \ {w} : pending'[v] = pending[v]
  BY <1>0 DEF TypeOK
<1>2. item[w] \in Dirs /\ Reachable(item[w]) /\ Passed(item[w])
  BY <1>0 DEF Shape, Legal, Working, Expanded
<1>3. Moves(w, l)
  BY <1>1 DEF Moves
<1>4. /\ Walking' \subseteq Walking /\ (l = "children" => w \in Walking')
      /\ \A v \in Workers \ {w} : Owned(v)' = Owned(v)
  BY <1>0, <1>3, OthersKeep DEF Expanded, Walking
<1>5. Owned(w)' = Owned(w) \ {c} /\ Owned(w) = pending[w]
  BY <1>1 DEF Owned, Fresh
<1>6. TypeOK'
  <2>1. cancel' \in BOOLEAN /\ open' \in BOOLEAN
    BY <1>0, Zenon DEF TypeOK
  <2>2. pending' \in [Workers -> SUBSET Dirs]
    BY <1>0 DEF TypeOK
  <2> QED BY <1>0, <2>1, <2>2 DEF TypeOK, Labels
<1>7. Shape'
  BY <1>0, <1>2, <1>3, ShapeMoves
<1>8. CountCoversWork'
  <2>1. Cardinality(Busy') = Cardinality(Busy) /\ Cardinality(Sending') = Cardinality(Sending)
    BY <1>0, <1>3, SizesMove DEF Working
  <2> QED BY <1>0, <2>1, SizeTypes, CountMoves DEF TypeOK
<1>9. Legal'
  <2>1. (\A e \in work' : Reachable(e)) /\ Sent' \subseteq MayReport(Excluded)
    BY <1>0 DEF Legal, Sent
  <2>2. pending'[w] \subseteq Children(item[w]) \ Excluded
    BY <1>0, <1>1 DEF Legal
  <2> QED BY <1>0, <1>2, <1>3, <2>1, <2>2, LegalMoves
<1>10. Apart' /\ Tokens' \subseteq Tokens
  BY <1>0, <1>4, <1>5, ApartKept
<1>11. Ahead' /\ SentOnce'
  <2>1. Sent' \subseteq Sent /\ (results \cap received = {})'
    BY <1>0 DEF Sent, SentOnce
  <2> QED BY <1>0, <1>4, <1>10, <2>1, AheadKept
<1>12. Covered'
  <2>1. ASSUME outcome = "open", NEW x \in MustReport(Excluded), NEW t \in Owned(w), t \in Path[x]
        PROVE  Accounted(x)'
    BY <1>5, <2>1 DEF Accounted, Tokens
  <2>2. ASSUME outcome = "open", NEW x, item[w] = x PROVE Accounted(x)'
    BY <1>4, <2>2 DEF Accounted
  <2>3. Sent \subseteq Sent'
    BY DEF Sent
  <2> QED BY <1>0, <1>3, <2>1, <2>2, <2>3, CoveredMoves
<1>13. Leaving'
  BY <1>0, <1>3, LeavingMoves
<1> QED BY <1>6, <1>7, <1>8, <1>9, <1>10, <1>11, <1>12, <1>13 DEF IInv

\* An opaque child that is reported without being walked.
LEMMA OpaqueHolds ==
  ASSUME IInv, NEW w \in Workers, NEW c \in pending[w], c \in Opaque \ Foreign,
         pc[w] = "children", pc' = [pc EXCEPT ![w] = "children"],
         pending' = [pending EXCEPT ![w] = @ \ {c}],
         results' = results \cup {c}, Cardinality(results) < ResultCap,
         UNCHANGED <<work, in_flight, markers, cancel, item, sending, scanner_vars>>
  PROVE  IInv'
<1> USE DEF scanner_vars
<1>0. TypeOK /\ Shape /\ Legal /\ Apart /\ Ahead /\ SentOnce /\ Covered /\ Leaving /\ CountCoversWork
  BY DEF IInv
<1>1. pending'[w] = pending[w] \ {c} /\ \A v \in Workers \ {w} : pending'[v] = pending[v]
  BY <1>0 DEF TypeOK
<1>2. /\ item[w] \in Dirs /\ Reachable(item[w]) /\ Passed(item[w])
      /\ pending[w] \subseteq Children(item[w]) \ Excluded
  BY <1>0 DEF Shape, Legal, Working, Expanded
<1>3. c \in Dirs /\ c \in Path[c] /\ c \in MayReport(Excluded)
  BY <1>2, ChildType, PathType, OpaqueMayReport
<1>4. Moves(w, "children")
  BY <1>0, <1>1 DEF Moves, TypeOK, Labels, Working
<1>5. /\ Walking' = Walking /\ w \in Walking
      /\ \A v \in Workers \ {w} : Owned(v)' = Owned(v)
  BY <1>0, <1>4, OthersKeep DEF Expanded, Walking
<1>6. Owned(w)' = Owned(w) \ {c} /\ Owned(w) = pending[w] /\ c \in Tokens
  <2>1. pc'[w] = "children"
    BY <1>4 DEF Moves
  <2> QED BY <1>1, <2>1 DEF Owned, Fresh, Tokens
<1>7. Sent' = Sent \cup {c}
  BY DEF Sent
<1>8. TypeOK'
  <2>1. cancel' \in BOOLEAN /\ open' \in BOOLEAN
    BY <1>0, Zenon DEF TypeOK
  <2>2. pending' \in [Workers -> SUBSET Dirs]
    BY <1>0 DEF TypeOK
  <2>3. results' \subseteq Dirs /\ Cardinality(results') <= ResultCap
    BY <1>0, <1>3, RoomForResult
  <2> QED BY <1>0, <1>4, <2>1, <2>2, <2>3 DEF TypeOK, Moves, Labels
<1>9. Shape'
  BY <1>0, <1>2, <1>4, ShapeMoves
<1>10. CountCoversWork'
  <2>1. Cardinality(Busy') = Cardinality(Busy) /\ Cardinality(Sending') = Cardinality(Sending)
    BY <1>0, <1>4, SizesMove DEF Working
  <2> QED BY <1>0, <2>1, SizeTypes, CountMoves DEF TypeOK
<1>11. Legal'
  <2>1. (\A e \in work' : Reachable(e)) /\ Sent' \subseteq MayReport(Excluded)
    BY <1>0, <1>3, <1>7 DEF Legal
  <2> QED BY <1>0, <1>1, <1>2, <1>4, <2>1, LegalMoves
<1>12. Apart' /\ Tokens' \subseteq Tokens
  BY <1>0, <1>5, <1>6, ApartKept
<1>13. ASSUME NEW t \in Tokens' PROVE t \notin Path[c]
  <2>1. CASE t \in work \/ \E v \in Workers \ {w} : t \in Owned(v)
    BY <1>0, <1>6, <2>1 DEF Apart, AreApart, NoOverlap
  <2>2. CASE t \in Owned(w)'
    BY <1>2, <1>6, <2>2, Siblings
  <2> QED BY <1>5, <1>13, <2>1, <2>2 DEF Tokens
<1>14. Ahead'
  BY <1>0, <1>5, <1>7, <1>12, <1>13 DEF Ahead
<1>15. SentOnce'
  <2>1. c \notin Sent /\ \A v \in Walking : item[v] # c
    BY <1>0, <1>3, <1>6 DEF Ahead
  <2> QED BY <1>0, <1>5, <1>7, <2>1 DEF SentOnce, Sent
<1>16. Covered'
  <2>1. ASSUME NEW x \in MustReport(Excluded), NEW t \in Owned(w), t \in Path[x]
        PROVE  Accounted(x)'
    <3>1. CASE t = c
      BY <1>7, <2>1, <3>1, OpaqueIsLast DEF Accounted
    <3>2. CASE t # c
      BY <1>6, <2>1, <3>2 DEF Accounted, Tokens
    <3> QED BY <3>1, <3>2
  <2>2. ASSUME NEW x, item[w] = x PROVE Accounted(x)'
    BY <1>5, <2>2 DEF Accounted
  <2> QED BY <1>0, <1>4, <1>7, <2>1, <2>2, CoveredMoves
<1>17. Leaving'
  BY <1>0, <1>4, LeavingMoves
<1> QED BY <1>8, <1>9, <1>10, <1>11, <1>12, <1>14, <1>15, <1>16, <1>17 DEF IInv

\* A child that is counted.
LEMMA CountHolds ==
  ASSUME IInv, NEW w \in Workers, NEW c \in pending[w], c \notin Sealed \cup Opaque,
         pc[w] = "children", CountChild(w, c),
         pending' = [pending EXCEPT ![w] = @ \ {c}],
         UNCHANGED <<markers, cancel, item, scanner_vars>>
  PROVE  IInv'
<1> USE DEF scanner_vars
<1>0. TypeOK /\ Shape /\ Legal /\ Apart /\ Ahead /\ SentOnce /\ Covered /\ Leaving /\ CountCoversWork
  BY DEF IInv
<1>1. /\ in_flight' = in_flight + 1 /\ sending' = [sending EXCEPT ![w] = c]
      /\ pc' = [pc EXCEPT ![w] = "send"] /\ work' = work /\ results' = results
  BY DEF CountChild, Goto
<1>2. /\ pending'[w] = pending[w] \ {c} /\ sending'[w] = c
      /\ \A v \in Workers \ {w} : pending'[v] = pending[v] /\ sending'[v] = sending[v]
  BY <1>0, <1>1 DEF TypeOK
<1>3. /\ item[w] \in Dirs /\ Reachable(item[w]) /\ Passed(item[w])
      /\ pending[w] \subseteq Children(item[w]) \ Excluded /\ c \in Dirs
  BY <1>0, ChildType DEF Shape, Legal, Working, Expanded
<1>4. Moves(w, "send")
  BY <1>0, <1>1, <1>2 DEF Moves, TypeOK, Labels, Working
<1>5. /\ Walking' = Walking /\ w \in Walking /\ pc'[w] = "send"
      /\ \A v \in Workers \ {w} : Owned(v)' = Owned(v)
  BY <1>0, <1>4, OthersKeep DEF Expanded, Walking
<1>6. Owned(w)' = Owned(w)
  BY <1>2, <1>5 DEF Owned, Fresh
<1>7. TypeOK'
  <2>1. cancel' \in BOOLEAN /\ open' \in BOOLEAN
    BY <1>0, Zenon DEF TypeOK
  <2>2. pending' \in [Workers -> SUBSET Dirs] /\ sending' \in [Workers -> Dirs \cup {None}]
    BY <1>0, <1>1, <1>3 DEF TypeOK
  <2> QED BY <1>0, <1>1, <1>4, <2>1, <2>2 DEF TypeOK, Moves, Labels
<1>8. Shape'
  BY <1>0, <1>2, <1>3, <1>4, ShapeMoves
<1>9. CountCoversWork'
  <2>1. Cardinality(Busy') = Cardinality(Busy) /\ Cardinality(Sending') = Cardinality(Sending) + 1
    BY <1>0, <1>4, SizesMove DEF Working
  <2> QED BY <1>0, <1>1, <2>1, SizeTypes, CountMoves DEF TypeOK
<1>10. Legal'
  <2>1. (\A e \in work' : Reachable(e)) /\ Sent' \subseteq MayReport(Excluded)
    BY <1>0, <1>1 DEF Legal, Sent
  <2> QED BY <1>0, <1>2, <1>3, <1>4, <2>1, LegalMoves
<1>11. Apart' /\ Tokens' \subseteq Tokens
  BY <1>0, <1>1, <1>5, <1>6, ApartKept
<1>12. Ahead' /\ SentOnce'
  <2>1. Sent' \subseteq Sent /\ (results \cap received = {})'
    BY <1>0, <1>1 DEF Sent, SentOnce
  <2> QED BY <1>0, <1>5, <1>11, <2>1, AheadKept
<1>13. Covered'
  <2>1. ASSUME NEW x, NEW t \in Owned(w), t \in Path[x] PROVE Accounted(x)'
    BY <1>6, <2>1 DEF Accounted, Tokens
  <2>2. ASSUME NEW x, item[w] = x PROVE Accounted(x)'
    BY <1>5, <2>2 DEF Accounted
  <2>3. Sent \subseteq Sent'
    BY <1>1 DEF Sent
  <2> QED BY <1>0, <1>1, <1>4, <2>1, <2>2, <2>3, CoveredMoves
<1>14. Leaving'
  BY <1>0, <1>4, LeavingMoves DEF Working
<1> QED BY <1>7, <1>8, <1>9, <1>10, <1>11, <1>12, <1>13, <1>14 DEF IInv

\* A worker decides what becomes of a child.
LEMMA DispatchHolds ==
  ASSUME IInv, NEW w \in Workers, DispatchChild(w)
  PROVE  IInv'
<1>0. TypeOK /\ Shape /\ Legal /\ Leaving
  BY DEF IInv
<1>1. pc[w] = "children" /\ UNCHANGED <<markers, cancel, item, scanner_vars>>
  BY DEF DispatchChild
<1>2. pc \in [Workers -> Labels] /\ markers \subseteq Marked
  BY <1>0 DEF TypeOK, Labels
<1>3. CASE /\ cancel /\ pending[w] # {} /\ Goto(w, "done")
           /\ UNCHANGED <<work, in_flight, results, pending, sending>>
  <2>1. outcome # "open"
    BY <1>0, <1>3 DEF Leaving
  <2>2. Quiet(w, "done")
    BY <1>1, <1>2, <1>3, <2>1 DEF Quiet, Goto, Labels, Working, Expanded
  <2> QED BY <2>2, QuietHolds
<1>4. CASE /\ pending[w] = {} /\ Goto(w, "emit")
           /\ UNCHANGED <<work, in_flight, results, pending, sending>>
  <2>1. Quiet(w, "emit")
    BY <1>1, <1>2, <1>4 DEF Quiet, Goto, Labels, Working, Expanded, Fresh
  <2> QED BY <2>1, QuietHolds
<1>5. ASSUME NEW c \in pending[w], pending' = [pending EXCEPT ![w] = @ \ {c}],
             c \in Sealed \cup (Opaque \cap Foreign),
             UNCHANGED <<work, in_flight, results, pc, sending>>
      PROVE  IInv'
  <2>1. \A x \in MustReport(Excluded) : c \notin Path[x]
    BY <1>5, SealedHidesNothing
  <2> QED BY <1>1, <1>2, <1>5, <2>1, PassOverHolds
<1>6. ASSUME NEW c \in pending[w], pending' = [pending EXCEPT ![w] = @ \ {c}],
             c \in Opaque \ Foreign, Deliver(w, c, "children", "done"),
             UNCHANGED <<work, in_flight, sending>>
      PROVE  IInv'
  <2>1. CASE /\ open /\ Cardinality(results) < ResultCap
             /\ results' = results \cup {c} /\ Goto(w, "children")
    BY <1>1, <1>6, <2>1, OpaqueHolds DEF Goto
  <2>2. CASE /\ ~open \/ (cancel /\ Cardinality(results) >= ResultCap)
             /\ Goto(w, "done") /\ UNCHANGED results
    <3>1. outcome # "open"
      BY <1>0, <2>2 DEF Leaving
    <3>2. /\ pc' \in [Workers -> Labels] /\ pc'[w] = "done"
          /\ \A v \in Workers \ {w} : pc'[v] = pc[v]
      BY <1>2, <2>2 DEF Goto, Labels, Working
    <3> QED BY <1>1, <1>6, <2>2, <3>1, <3>2, PassOverHolds
  <2> QED BY <1>6, <2>1, <2>2 DEF Deliver
<1>7. ASSUME NEW c \in pending[w], pending' = [pending EXCEPT ![w] = @ \ {c}],
             c \notin Sealed \cup Opaque, CountChild(w, c)
      PROVE  IInv'
  BY <1>1, <1>7, CountHolds
<1> QED BY <1>3, <1>4, <1>5, <1>6, <1>7 DEF DispatchChild

\* A child goes from the worker to the queue.
LEMMA SendHolds ==
  ASSUME IInv, NEW w \in Workers, SendChild(w)
  PROVE  IInv'
<1> USE DEF scanner_vars
<1> DEFINE c == sending[w]
<1>0. TypeOK /\ Shape /\ Legal /\ Apart /\ Ahead /\ SentOnce /\ Covered /\ Leaving /\ CountCoversWork
  BY DEF IInv
<1>1. /\ pc[w] = "send" /\ work' = work \cup {c} /\ sending' = [sending EXCEPT ![w] = None]
      /\ pc' = [pc EXCEPT ![w] = "children"]
      /\ in_flight' = in_flight /\ results' = results /\ markers' = markers /\ cancel' = cancel
      /\ item' = item /\ pending' = pending
      /\ received' = received /\ outcome' = outcome /\ open' = open
  BY DEF SendChild, Goto
<1>2. \A v \in Workers \ {w} : sending'[v] = sending[v]
  BY <1>0, <1>1 DEF TypeOK
<1>3. /\ item[w] \in Dirs /\ Reachable(item[w]) /\ Passed(item[w])
      /\ pending[w] \subseteq Children(item[w]) \ Excluded
      /\ c \in Dirs /\ c \notin pending[w] /\ c \in Children(item[w]) \ (Sealed \cup Opaque)
  BY <1>0, <1>1 DEF Shape, Legal, Working, Expanded
<1>4. Moves(w, "children")
  BY <1>0, <1>1, <1>2 DEF Moves, TypeOK, Labels, Working
<1>5. /\ Walking' = Walking /\ w \in Walking /\ pc'[w] = "children"
      /\ \A v \in Workers \ {w} : Owned(v)' = Owned(v)
  BY <1>0, <1>1, <1>4, OthersKeep DEF Expanded, Walking
<1>6. Owned(w) = pending[w] \cup {c} /\ Owned(w)' = pending[w] /\ Owned(w)' = Owned(w) \ {c}
  BY <1>1, <1>3, <1>5 DEF Owned, Fresh
<1>7. c \notin work
  BY <1>0, <1>3, <1>6, PathType DEF Apart, AreApart, NoOverlap
<1>8. TypeOK'
  <2>1. cancel' \in BOOLEAN /\ open' \in BOOLEAN
    BY <1>0, <1>1, Zenon DEF TypeOK
  <2>2. sending' \in [Workers -> Dirs \cup {None}] /\ work' \subseteq Dirs
    BY <1>0, <1>1, <1>3 DEF TypeOK
  <2> QED BY <1>0, <1>1, <1>4, <2>1, <2>2 DEF TypeOK, Moves, Labels
<1>9. Shape'
  BY <1>0, <1>1, <1>3, <1>4, ShapeMoves
<1>10. CountCoversWork'
  <2>1. Cardinality(Busy') = Cardinality(Busy) /\ Cardinality(Sending') = Cardinality(Sending) - 1
    BY <1>0, <1>1, <1>4, SizesMove DEF Working
  <2>2. Cardinality(work') = Cardinality(work) + 1
    BY <1>0, <1>1, <1>7, SizeTypes, FS_AddElement
  <2> QED BY <1>0, <1>1, <2>1, <2>2, SizeTypes, CountMoves DEF TypeOK
<1>11. Legal'
  <2>1. Reachable(c)
    BY <1>3, ChildReachable
  <2>2. (\A e \in work' : Reachable(e)) /\ Sent' \subseteq MayReport(Excluded)
    BY <1>0, <1>1, <2>1 DEF Legal, Sent
  <2> QED BY <1>0, <1>1, <1>3, <1>4, <2>2, LegalMoves
<1>12. Apart'
  <2> DEFINE O == [v \in Workers |-> Owned(v)]
             P == [v \in Workers |-> Owned(v)']
  <2>1. /\ AreApart(work, O) /\ c \in O[w] /\ P[w] = O[w] \ {c}
        /\ \A v \in Workers \ {w} : P[v] = O[v]
    BY <1>0, <1>5, <1>6 DEF Apart
  <2>2. NoOverlap({c}, P[w])
    <3>1. ASSUME NEW e \in P[w] PROVE c \notin Path[e] /\ e \notin Path[c]
      <4>1. e \in Children(item[w]) /\ e # c
        BY <1>3, <1>6, <3>1
      <4> QED BY <1>3, <4>1, Siblings
    <3> QED BY <3>1 DEF NoOverlap
  <2> HIDE DEF O, P, c
  <2>3. AreApart(work \cup {c}, P)
    BY <2>1, <2>2, ApartSends
  <2> QED BY <1>1, <2>3 DEF Apart, P, AreApart, NoOverlap
<1>13. Tokens' \subseteq Tokens
  BY <1>1, <1>5, <1>6 DEF Tokens
<1>14. Ahead' /\ SentOnce'
  <2>1. Sent' \subseteq Sent /\ (results \cap received = {})'
    BY <1>0, <1>1 DEF Sent, SentOnce
  <2> QED BY <1>0, <1>1, <1>5, <1>13, <2>1, AheadKept
<1>15. Covered'
  <2>1. ASSUME NEW x, NEW t \in Owned(w), t \in Path[x] PROVE Accounted(x)'
    BY <1>1, <1>6, <2>1 DEF Accounted, Tokens
  <2>2. ASSUME NEW x, item[w] = x PROVE Accounted(x)'
    BY <1>1, <1>5, <2>2 DEF Accounted
  <2>3. Sent \subseteq Sent'
    BY <1>1 DEF Sent
  <2> QED BY <1>0, <1>1, <1>4, <2>1, <2>2, <2>3, CoveredMoves
<1>16. Leaving'
  BY <1>0, <1>1, <1>4, LeavingMoves
<1> QED BY <1>8, <1>9, <1>10, <1>11, <1>12, <1>14, <1>15, <1>16 DEF IInv

\* The directory itself is sent after its children.
LEMMA EmitHolds ==
  ASSUME IInv, NEW w \in Workers, EmitSelf(w)
  PROVE  IInv'
<1> USE DEF scanner_vars
<1> DEFINE d == item[w]
<1>0. TypeOK /\ Shape /\ Legal /\ Apart /\ Ahead /\ SentOnce /\ Covered /\ Leaving /\ CountCoversWork
  BY DEF IInv
<1>1. /\ pc[w] = "emit" /\ pc' = [pc EXCEPT ![w] = "done"]
      /\ work' = work /\ in_flight' = in_flight /\ markers' = markers /\ cancel' = cancel
      /\ item' = item /\ pending' = pending /\ sending' = sending
      /\ received' = received /\ outcome' = outcome /\ open' = open
  BY DEF EmitSelf, Deliver, Goto
<1>2. d \in Dirs /\ Reachable(d) /\ Passed(d) /\ pending[w] = {} /\ markers \subseteq Marked
  BY <1>0, <1>1 DEF Shape, Legal, Working, Expanded, TypeOK
<1>3. CASE results' = results /\ (outcome = "open" => d \in Roots)
  <2>1. outcome = "open" => d \notin MustReport(Excluded)
    BY <1>3, MustIsNoRoot
  <2>2. Quiet(w, "done")
    BY <1>1, <1>2, <1>3, <2>1 DEF Quiet, Labels, Working, Expanded, Fresh
  <2> QED BY <2>2, QuietHolds
<1>4. CASE d \notin Roots /\ results' = results \cup {d} /\ Cardinality(results) < ResultCap
  <2>1. Moves(w, "done")
    BY <1>0, <1>1 DEF Moves, TypeOK, Labels, Working
  <2>2. /\ Walking' = Walking \ {w} /\ w \in Walking /\ pc'[w] = "done"
        /\ \A v \in Workers \ {w} : Owned(v)' = Owned(v)
    BY <1>0, <1>1, <2>1, OthersKeep DEF Expanded, Walking
  <2>3. Owned(w)' = {} /\ Owned(w) = {}
    BY <1>1, <1>2, <2>2 DEF Owned, Fresh
  <2>4. Sent' = Sent \cup {d}
    BY <1>1, <1>4 DEF Sent
  <2>5. TypeOK'
    <3>1. cancel' \in BOOLEAN /\ open' \in BOOLEAN
      BY <1>0, <1>1, Zenon DEF TypeOK
    <3>2. results' \subseteq Dirs /\ Cardinality(results') <= ResultCap
      BY <1>0, <1>2, <1>4, RoomForResult
    <3> QED BY <1>0, <1>1, <2>1, <3>1, <3>2 DEF TypeOK, Moves, Labels
  <2>6. Shape'
    BY <1>0, <1>1, <1>2, <2>1, ShapeMoves
  <2>7. CountCoversWork'
    <3>1. Cardinality(Busy') = Cardinality(Busy) /\ Cardinality(Sending') = Cardinality(Sending)
      BY <1>0, <1>1, <2>1, SizesMove DEF Working
    <3> QED BY <1>0, <1>1, <3>1, SizeTypes, CountMoves DEF TypeOK
  <2>8. Legal'
    <3>1. d \in MayReport(Excluded)
      BY <1>2, <1>4, PassedMayReport
    <3>2. (\A e \in work' : Reachable(e)) /\ Sent' \subseteq MayReport(Excluded)
      BY <1>0, <1>1, <2>4, <3>1 DEF Legal
    <3> QED BY <1>0, <1>1, <1>2, <2>1, <3>2, LegalMoves DEF Expanded
  <2>9. Apart' /\ Tokens' \subseteq Tokens
    BY <1>0, <1>1, <2>2, <2>3, ApartKept
  <2>10. Ahead'
    <3>1. ASSUME NEW t \in Tokens' PROVE t \notin Path[d]
      BY <1>0, <2>2, <2>9 DEF Ahead
    <3> QED BY <1>0, <1>1, <2>2, <2>4, <2>9, <3>1 DEF Ahead
  <2>11. SentOnce'
    BY <1>0, <1>1, <1>4, <2>2, <2>4 DEF SentOnce, Sent
  <2>12. Covered'
    <3>1. ASSUME NEW x, x = d PROVE Accounted(x)'
      BY <2>4, <3>1 DEF Accounted
    <3>2. Sent \subseteq Sent'
      BY <2>4
    <3> QED BY <1>0, <1>1, <2>1, <2>3, <3>1, <3>2, CoveredMoves
  <2>13. Leaving'
    BY <1>0, <1>1, <1>2, <2>1, LeavingMoves
  <2> QED BY <2>5, <2>6, <2>7, <2>8, <2>9, <2>10, <2>11, <2>12, <2>13 DEF IInv
<1>5. ~open \/ cancel => outcome # "open"
  BY <1>0 DEF Leaving
<1> QED BY <1>3, <1>4, <1>5 DEF EmitSelf, Deliver

\* A worker is done with a directory and counts it off.
LEMMA DoneHolds ==
  ASSUME IInv, NEW w \in Workers, Done(w)
  PROVE  IInv'
<1> USE DEF scanner_vars
<1>0. TypeOK /\ Shape /\ Legal /\ Apart /\ Ahead /\ SentOnce /\ Covered /\ Leaving /\ CountCoversWork
  BY DEF IInv
<1>1. /\ pc[w] = "done" /\ pc' = [pc EXCEPT ![w] = "top"]
      /\ in_flight' = in_flight - 1
      /\ item' = [item EXCEPT ![w] = None] /\ pending' = [pending EXCEPT ![w] = {}]
      /\ work' = work /\ results' = results /\ markers' = markers /\ cancel' = cancel
      /\ sending' = sending /\ received' = received /\ outcome' = outcome /\ open' = open
  BY DEF Done, Goto
<1>2. /\ pending'[w] = {}
      /\ \A v \in Workers \ {w} : item'[v] = item[v] /\ pending'[v] = pending[v]
  BY <1>0, <1>1 DEF TypeOK
<1>3. Moves(w, "top")
  BY <1>0, <1>1, <1>2 DEF Moves, TypeOK, Labels
<1>4. /\ Walking' = Walking \ {w} /\ pc'[w] = "top"
      /\ \A v \in Workers \ {w} : Owned(v)' = Owned(v)
  BY <1>0, <1>3, OthersKeep DEF Expanded
<1>5. Owned(w)' = {}
  BY <1>2, <1>4 DEF Owned, Fresh
<1>6. /\ Cardinality(Busy') = Cardinality(Busy) - 1 /\ Cardinality(Busy) > 0
      /\ Cardinality(Sending') = Cardinality(Sending)
  BY <1>0, <1>1, <1>3, SizesMove DEF Working
<1>7. in_flight' \in Nat
  <2>1. in_flight = Cardinality(work) + Cardinality(Busy) + Cardinality(Sending)
    BY <1>0 DEF CountCoversWork, Busy, Sending
  <2> QED BY <1>0, <1>1, <1>6, <2>1, SizeTypes
<1>8. TypeOK'
  <2>1. cancel' \in BOOLEAN /\ open' \in BOOLEAN
    BY <1>0, <1>1, Zenon DEF TypeOK
  <2>2. item' \in [Workers -> Dirs \cup {None}] /\ pending' \in [Workers -> SUBSET Dirs]
    BY <1>0, <1>1 DEF TypeOK
  <2> QED BY <1>0, <1>1, <1>3, <1>7, <2>1, <2>2 DEF TypeOK, Moves, Labels
<1>9. Shape'
  BY <1>0, <1>2, <1>3, ShapeMoves DEF Working
<1>10. CountCoversWork'
  BY <1>0, <1>1, <1>6, <1>7, SizeTypes, CountMoves DEF TypeOK
<1>11. Legal'
  <2>1. (\A e \in work' : Reachable(e)) /\ Sent' \subseteq MayReport(Excluded)
    BY <1>0, <1>1 DEF Legal, Sent
  <2> QED BY <1>0, <1>2, <1>3, <2>1, LegalMoves DEF Working, Expanded
<1>12. Apart' /\ Tokens' \subseteq Tokens
  BY <1>0, <1>1, <1>4, <1>5, ApartKept
<1>13. Ahead' /\ SentOnce'
  <2>1. Sent' \subseteq Sent /\ (results \cap received = {})'
    BY <1>0, <1>1 DEF Sent, SentOnce
  <2>2. \A v \in Walking' : v \in Walking /\ item'[v] = item[v]
    BY <1>2, <1>4 DEF Walking
  <2> QED BY <1>0, <1>12, <2>1, <2>2, AheadKept
<1>14. Covered'
  <2>1. outcome = "open" => Owned(w) = {}
    BY <1>0, <1>1 DEF Leaving, Owned, Fresh
  <2> QED BY <1>0, <1>1, <1>3, <2>1, CoveredMoves DEF Sent, Walking, Expanded
<1>15. Leaving'
  BY <1>0, <1>1, <1>3, LeavingMoves DEF Working
<1> QED BY <1>8, <1>9, <1>10, <1>11, <1>12, <1>13, <1>14, <1>15 DEF IInv

(***************************************************************************)
(* Steps of the scanner.                                                   *)
(***************************************************************************)

\* What the scanner does touches no worker and no token.
LEMMA ScannerHolds ==
  ASSUME IInv, ScannerReceive \/ Complete \/ BreakOff \/ DropReceiver
  PROVE  IInv'
<1> USE DEF worker_vars, scanner_vars
<1>0. TypeOK /\ Shape /\ Legal /\ Apart /\ Ahead /\ SentOnce /\ Covered /\ Leaving /\ CountCoversWork
  BY DEF IInv
<1>1. /\ work' = work /\ in_flight' = in_flight /\ markers' = markers
      /\ pc' = pc /\ item' = item /\ pending' = pending /\ sending' = sending
  BY DEF ScannerReceive, Complete, BreakOff, DropReceiver
<1>2. /\ Sent' \subseteq Sent /\ (results \cap received = {})' /\ results' \subseteq results
      /\ received' \subseteq Dirs
  <2>1. results \subseteq Dirs /\ received \subseteq Dirs /\ results \cap received = {}
    BY <1>0 DEF TypeOK, SentOnce
  <2> QED BY <2>1 DEF ScannerReceive, Complete, BreakOff, DropReceiver, Sent
<1>3. /\ \A v \in Workers : Owned(v)' = Owned(v)
      /\ Walking' = Walking /\ Tokens' = Tokens
  BY <1>1 DEF Owned, Walking, Tokens
<1>4. TypeOK'
  <2>1. cancel' \in BOOLEAN
    BY <1>0, Zenon DEF TypeOK, ScannerReceive, Complete, BreakOff, DropReceiver
  <2>2. open' \in BOOLEAN
    BY <1>0, Zenon DEF TypeOK, ScannerReceive, Complete, BreakOff, DropReceiver
  <2>3. outcome' \in {"open", "complete", "cut"}
    BY <1>0 DEF TypeOK, ScannerReceive, Complete, BreakOff, DropReceiver
  <2>4. results' \subseteq Dirs /\ Cardinality(results') <= ResultCap
    <3>1. Cardinality(results') <= Cardinality(results) /\ IsFiniteSet(results')
      BY <1>0, <1>2, SizeTypes, FS_Subset
    <3>2. Cardinality(results') \in Nat /\ Cardinality(results) \in Nat
      BY <1>0, <3>1, SizeTypes, FS_CardinalityType
    <3> QED BY <1>0, <1>2, <3>1, <3>2, PoolAssumption DEF TypeOK
  <2> QED BY <1>0, <1>1, <1>2, <2>1, <2>2, <2>3, <2>4 DEF TypeOK
<1>5. Shape' /\ CountCoversWork'
  BY <1>0, <1>1 DEF Shape, CountCoversWork
<1>6. Legal'
  <2>1. Sent' \subseteq MayReport(Excluded)
    BY <1>0, <1>2 DEF Legal
  <2> QED BY <1>0, <1>1, <2>1 DEF Legal, Reachable, Passed
<1>7. Apart'
  BY <1>0, <1>1, <1>3, ApartKept
<1>8. Ahead' /\ SentOnce'
  BY <1>0, <1>1, <1>2, <1>3, AheadKept
<1>9. Covered'
  <2> SUFFICES ASSUME outcome' = "open" PROVE Covered'
    BY DEF Covered
  <2>1. ScannerReceive
    BY DEF Complete, BreakOff, DropReceiver
  <2>2. Sent' = Sent /\ outcome = "open"
    BY <2>1 DEF ScannerReceive, Sent
  <2> QED BY <1>0, <1>1, <1>3, <2>2 DEF Covered, Accounted
<1>10. Leaving'
  <2> SUFFICES ASSUME outcome' = "open" PROVE Leaving'
    BY DEF Leaving
  <2>1. ScannerReceive
    BY DEF Complete, BreakOff, DropReceiver
  <2>2. outcome = "open" /\ cancel' = cancel /\ open' = open
    BY <2>1 DEF ScannerReceive
  <2> QED BY <1>0, <1>1, <2>2 DEF Leaving
<1> QED BY <1>4, <1>5, <1>6, <1>7, <1>8, <1>9, <1>10 DEF IInv

(***************************************************************************)
(* Theorems.                                                               *)
(***************************************************************************)

\* The first state: the roots are the tokens.
LEMMA InitHolds == Init => IInv
<1> SUFFICES ASSUME Init PROVE IInv
  OBVIOUS
<1>1. /\ work = Roots /\ in_flight = Cardinality(Roots) /\ results = {} /\ markers = {}
      /\ pc = [w \in Workers |-> "top"] /\ item = [w \in Workers |-> None]
      /\ pending = [w \in Workers |-> {}] /\ sending = [w \in Workers |-> None]
      /\ received = {} /\ outcome = "open"
  BY DEF Init
<1>2. cancel = FALSE /\ open = TRUE
  BY DEF Init
<1>3. IsFiniteSet(Roots) /\ Cardinality(Roots) \in Nat
  BY Constants, FS_Subset, FS_CardinalityType
<1>4. TypeOK
  <2>1. cancel \in BOOLEAN /\ open \in BOOLEAN
    BY <1>2, Zenon
  <2>2. Cardinality(results) <= ResultCap
    BY <1>1, FS_EmptySet, PoolAssumption
  <2> QED BY <1>1, <1>3, <2>1, <2>2, Constants DEF TypeOK
<1>5. Shape
  BY <1>1 DEF Shape, Working
<1>6. Sent = {} /\ Walking = {} /\ Tokens = Roots /\ \A w \in Workers : Owned(w) = {}
  BY <1>1 DEF Sent, Walking, Expanded, Tokens, Owned, Fresh
<1>7. CountCoversWork
  <2>1. Busy = {} /\ Sending = {}
    BY <1>1 DEF Busy, Sending, Working
  <2>2. in_flight = Cardinality(work) + Cardinality(Busy) + Cardinality(Sending)
    BY <1>1, <1>3, <2>1, FS_EmptySet
  <2> QED BY <2>2 DEF CountCoversWork, Busy, Sending
<1>8. Legal
  <2>1. ASSUME NEW d \in work PROVE Reachable(d)
    BY <1>1, Constants DEF Reachable
  <2> QED BY <1>1, <1>6, <2>1 DEF Legal, Working, Expanded
<1>9. Apart
  <2>1. ASSUME NEW x \in Roots, NEW y \in Roots, x \in Path[y] PROVE x = y
    BY <2>1, PathRoot
  <2> QED BY <1>1, <1>6, <2>1 DEF Apart, AreApart, NoOverlap
<1>10. Ahead /\ SentOnce
  BY <1>1, <1>6 DEF Ahead, SentOnce
<1>11. Covered
  <2>1. ASSUME NEW x \in MustReport(Excluded) PROVE Path[x] \cap Tokens # {}
    BY <1>6, TreeAssumption, MustIsNoRoot
  <2> QED BY <2>1 DEF Covered, Accounted
<1>12. Leaving
  BY <1>1, <1>2 DEF Leaving
<1> QED BY <1>4, <1>5, <1>7, <1>8, <1>9, <1>10, <1>11, <1>12 DEF IInv

\* Every step keeps the invariant.
LEMMA StepHolds ==
  ASSUME IInv, [Next]_vars
  PROVE  IInv'
<1>1. ASSUME NEW w \in Workers, WorkerStep(w) PROVE IInv'
  BY <1>1, QuietSteps, ReceiveHolds, ReadHolds, DispatchHolds, SendHolds, EmitHolds, DoneHolds
     DEF WorkerStep
<1>2. CASE UNCHANGED vars
  BY <1>2 DEF IInv, vars, worker_vars, scanner_vars, TypeOK, Shape, CountCoversWork, Legal,
     Reachable, Passed, Sent, Apart, AreApart, NoOverlap, Owned, Ahead, Tokens, Walking, SentOnce,
     Covered, Accounted, Leaving
<1> QED BY <1>1, <1>2, ScannerHolds DEF Next

\* The invariant holds for every tree, every number of workers and every capacity of the
\* result channel.
THEOREM Inductive == Spec => []IInv
<1>1. IInv /\ [Next]_vars => IInv'
  BY StepHolds
<1> QED BY <1>1, InitHolds, PTL DEF Spec

\* The count of directories in flight is exact, so that a worker that finds it at zero
\* leaves nothing behind.
THEOREM CountIsExact == Spec => []CountCoversWork
<1>1. IInv => CountCoversWork
  BY DEF IInv
<1> QED BY <1>1, Inductive, PTL

\* A pass that ends by itself has received everything it has to.
LEMMA CompleteIsComplete ==
  ASSUME IInv, Complete
  PROVE  MustReport(Excluded) \subseteq received
<1>0. TypeOK /\ Shape /\ Covered /\ Leaving /\ CountCoversWork
  BY DEF IInv
<1>1. outcome = "open" /\ results = {} /\ \A w \in Workers : pc[w] = "exited"
  BY DEF Complete
<1>2. in_flight = 0
  BY <1>0, <1>1, PoolAssumption DEF Leaving
<1>3. work = {}
  <2>1. in_flight = Cardinality(work) + Cardinality(Busy) + Cardinality(Sending)
    BY <1>0 DEF CountCoversWork, Busy, Sending
  <2>2. Cardinality(work) = 0
    BY <1>0, <1>2, <2>1, SizeTypes
  <2> QED BY <1>0, <2>2, SizeTypes, FS_EmptySet
<1>4. Walking = {} /\ \A w \in Workers : Owned(w) = {}
  BY <1>0, <1>1 DEF Walking, Expanded, Owned, Fresh, Shape
<1>5. Tokens = {} /\ Sent = received
  BY <1>1, <1>3, <1>4 DEF Tokens, Sent
<1> QED BY <1>0, <1>1, <1>4, <1>5 DEF Covered, Accounted

\* The two modules speak of the same tree.
LEMMA SameTree ==
  /\ Walks!MayReport(Excluded) = MayReport(Excluded)
  /\ Walks!MustReport(Excluded) = MustReport(Excluded)
BY DEF Walks!MayReport, MayReport, Walks!MustReport, MustReport, Walks!Above, Above,
   Walks!Path, Path, Walks!UpClosed, UpClosed

\* The pool implements the safety part of Traversal for every tree and every number of
\* workers: nothing is reported that a pass may not see, nothing twice, nothing after the
\* end, and a natural end comes after everything the pass has to see.
THEOREM PoolWalks == Spec => Walks!Init /\ [][Walks!Next]_<<received, outcome>>
<1>1. Init => Walks!Init
  BY DEF Init, Walks!Init
<1>2. ASSUME IInv, [Next]_vars PROVE [Walks!Next]_<<received, outcome>>
  <2>1. CASE ScannerReceive
    <3>1. PICK d \in results : received' = received \cup {d}
      BY <2>1 DEF ScannerReceive
    <3>2. outcome = "open" /\ outcome' = outcome
      BY <2>1 DEF ScannerReceive
    <3>3. d \in MayReport(Excluded) \ received
      BY <1>2 DEF IInv, Legal, SentOnce, Sent
    <3>4. Walks!Report
      BY <3>1, <3>2, <3>3, SameTree DEF Walks!Report
    <3> QED BY <3>4 DEF Walks!Next
  <2>2. CASE Complete
    <3>1. outcome = "open" /\ outcome' = "complete" /\ received' = received
      BY <2>2 DEF Complete
    <3>2. MustReport(Excluded) \subseteq received
      BY <1>2, <2>2, CompleteIsComplete
    <3>3. Walks!Finish
      BY <3>1, <3>2, SameTree DEF Walks!Finish
    <3> QED BY <3>3 DEF Walks!Next
  <2>3. CASE BreakOff
    BY <2>3 DEF BreakOff, Walks!Finish, Walks!Next
  <2>4. CASE UNCHANGED <<received, outcome>>
    BY <2>4
  <2>5. CASE \E w \in Workers : WorkerStep(w)
    BY <2>4, <2>5 DEF WorkerStep, LoopTop, Receive, ReceiveTimeout, Done, Enter, ReadEntries,
       DispatchChild, SendChild, EmitSelf, scanner_vars
  <2>6. CASE DropReceiver \/ UNCHANGED vars
    BY <2>4, <2>6 DEF DropReceiver, vars, scanner_vars
  <2> QED BY <1>2, <2>1, <2>2, <2>3, <2>5, <2>6 DEF Next
<1>3. IInv /\ [Next]_vars => [Walks!Next]_<<received, outcome>>
  BY <1>2
<1> QED BY <1>1, <1>3, Inductive, PTL DEF Spec
=============================================================================
