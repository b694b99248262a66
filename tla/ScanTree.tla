------------------------------ MODULE ScanTree ------------------------------
(***************************************************************************)
(* The directories below the roots of one scan, and what stands in the way *)
(* of walking them (scanner/walker.rs).  Roots are not nested; the depth   *)
(* limit is the height of the tree.                                        *)
(***************************************************************************)
EXTENDS Integers, FiniteSets

CONSTANTS
  Dirs,        \* directories in reach
  Roots,       \* root_paths
  Parent,      \* of every directory that is no root
  Marked,      \* directories that hold a .sbh-protect marker
  Huge,        \* directories with more than MAX_ENTRIES_PER_DIR entries
  Refused,     \* directories that cannot be read or are configured as protected
  Foreign,     \* directories that are on another device or give no metadata
  Sealed,      \* opaque trees that are neither walked nor reported
  Opaque       \* opaque trees that are reported without being walked

Children(d) == {c \in Dirs \ Roots : Parent[c] = d}

\* A directory and everything above it, up to its root: the least set that holds it and
\* the parent of each of its members.
UpClosed == {S \in SUBSET Dirs : \A d \in S \ Roots : Parent[d] \in S}
Path == [d \in Dirs |-> {x \in Dirs : \A S \in UpClosed : d \in S => x \in S}]

ASSUME TreeAssumption ==
  /\ IsFiniteSet(Dirs) /\ Roots \subseteq Dirs
  /\ Parent \in [Dirs \ Roots -> Dirs]
  /\ \A d \in Dirs : Path[d] \cap Roots # {}
  /\ UNION {Marked, Huge, Refused, Foreign, Sealed, Opaque} \subseteq Dirs
  /\ (Sealed \cup Opaque) \cap Roots = {} /\ Sealed \cap Opaque = {}

Above(d) == Path[d] \ {d}

\* Directories a walk that leaves out excluded may report, and those it has to: a huge
\* directory is listed in part, so its marker and its children can be missed.  An opaque tree
\* is reported from above: nobody looks at its marker, at its configured protection, or into it.
MayReport(excluded) ==
  {d \in Dirs \ (Roots \cup Sealed) :
     /\ Path[d] \cap (Foreign \cup excluded) = {}
     /\ \A x \in Path[d] \cap Refused : x = d /\ d \in Opaque
     /\ Above(d) \cap (Sealed \cup Opaque) = {}
     /\ \A m \in Path[d] \cap Marked : m \in Huge \/ (m = d /\ d \in Opaque)}
MustReport(excluded) ==
  {d \in MayReport(excluded) :
     /\ Above(d) \cap Huge = {}
     /\ d \in Marked => d \in Opaque}

=============================================================================
