---------------------------- MODULE LayerProofs ----------------------------
(***************************************************************************)
(* Proofs about a sandbox's writable layer, for every tree of paths.  The  *)
(* directories above a path are a least closed set, so what holds of them  *)
(* is proved by naming a closed set that contains them: no induction over  *)
(* the tree is needed.  RestoreExact is inductive together with the shape  *)
(* of the base, which no operation changes; DiffExact follows from the two *)
(* in every state.                                                         *)
(***************************************************************************)
EXTENDS Layer, TLAPS

-----------------------------------------------------------------------------
(* The tree *)

\* The directories above a path are paths; the root is not among them.
LEMMA AbovePaths == ASSUME NEW p \in Paths PROVE Above[p] \subseteq Paths /\ Root \notin Above[p]
BY ParentAssumption DEF Above

\* A path's directory is above it, or it is the root.
LEMMA AboveParent == ASSUME NEW p \in Paths PROVE Parent[p] \in Above[p] \cup {Root}
BY ParentAssumption DEF Above

\* Whatever is closed upwards and has a path's directory has all that is above it.
LEMMA AboveLeast ==
    ASSUME NEW p \in Paths, NEW S \in SUBSET Paths,
           \A q \in S : Parent[q] \in S \cup {Root}, Parent[p] \in S \cup {Root}
    PROVE  Above[p] \subseteq S
BY DEF Above, Upward

\* What is above a path is closed upwards.
LEMMA AboveClosed ==
    ASSUME NEW p \in Paths, NEW q \in Above[p]
    PROVE  Parent[q] \in Above[p] \cup {Root}
<1>1. q \in Paths
  BY AbovePaths
<1>2. SUFFICES ASSUME Parent[q] # Root PROVE Parent[q] \in Above[p]
  OBVIOUS
<1>3. Parent[q] \in Paths
  BY <1>1, <1>2, ParentAssumption
<1>4. SUFFICES ASSUME NEW S \in SUBSET Paths, Upward(S), Parent[p] \in S \cup {Root}
               PROVE  Parent[q] \in S
  BY <1>3 DEF Above
<1>5. q \in S
  BY <1>4 DEF Above
<1> QED
  BY <1>2, <1>4, <1>5 DEF Upward

\* To be above is transitive.
LEMMA AboveAbove ==
    ASSUME NEW p \in Paths, NEW q \in Above[p]
    PROVE  Above[q] \subseteq Above[p]
<1>1. q \in Paths /\ Above[p] \in SUBSET Paths
  BY AbovePaths
<1>2. \A r \in Above[p] : Parent[r] \in Above[p] \cup {Root}
  BY AboveClosed
<1> QED
  BY <1>1, <1>2, AboveLeast

\* What is above a path is its directory and what is above that.
LEMMA AboveStep ==
    ASSUME NEW p \in Paths, NEW q \in Above[p]
    PROVE  Parent[p] \in Paths /\ (q = Parent[p] \/ q \in Above[Parent[p]])
<1>1. Parent[p] # Root
  <2> SUFFICES ASSUME Parent[p] = Root PROVE FALSE
    OBVIOUS
  <2>1. {} \in SUBSET Paths /\ \A r \in {} : Parent[r] \in {} \cup {Root}
    OBVIOUS
  <2>2. Above[p] \subseteq {}
    BY <2>1, AboveLeast
  <2> QED
    BY <2>2
<1>2. Parent[p] \in Paths
  BY <1>1, ParentAssumption
<1> DEFINE S == {Parent[p]} \cup Above[Parent[p]]
<1>3. S \in SUBSET Paths
  BY <1>2, AbovePaths
<1>4. \A r \in S : Parent[r] \in S \cup {Root}
  BY <1>2, AboveParent, AboveClosed
<1>5. Above[p] \subseteq S
  <2> HIDE DEF S
  <2>1. Parent[p] \in S
    BY DEF S
  <2> QED
    BY <1>3, <1>4, <2>1, AboveLeast
<1> QED
  BY <1>2, <1>5

\* A directory above a path is entered by one of its children on the way down.
LEMMA AboveChild ==
    ASSUME NEW q \in Paths, NEW p \in Above[q]
    PROVE  \E c \in {q} \cup Above[q] : Parent[c] = p
<1> DEFINE S == {r \in Above[q] : \E c \in {q} \cup Above[q] : Parent[c] = r}
<1>1. S \in SUBSET Paths
  BY AbovePaths
<1>2. \A r \in S : Parent[r] \in S \cup {Root}
  BY AboveClosed
<1>3. Parent[q] \in S \cup {Root}
  BY AboveParent
<1>4. Above[q] \subseteq S
  <2> HIDE DEF S
  <2> QED
    BY <1>1, <1>2, <1>3, AboveLeast
<1> QED
  BY <1>4

\* Of two directories above a path, one is above the other.
LEMMA AboveLinear ==
    ASSUME NEW q \in Paths, NEW p \in Above[q], NEW t \in Above[q]
    PROVE  t = p \/ t \in Above[p] \/ p \in Above[t]
<1> DEFINE S == {r \in Above[q] : r = p \/ r \in Above[p] \/ p \in Above[r]}
<1>1. S \in SUBSET Paths /\ p \in Paths
  BY AbovePaths
<1>2. \A r \in S : Parent[r] \in S \cup {Root}
  <2> TAKE r \in S
  <2> SUFFICES ASSUME Parent[r] # Root PROVE Parent[r] \in S
    OBVIOUS
  <2>1. r \in Paths /\ Parent[r] \in Above[q]
    BY <1>1, AboveClosed
  <2>2. CASE r = p
    BY <1>1, <2>1, <2>2, AboveParent
  <2>3. CASE r \in Above[p]
    BY <1>1, <2>1, <2>3, AboveClosed
  <2>4. CASE p \in Above[r]
    BY <2>1, <2>4, AboveStep
  <2> QED
    BY <2>2, <2>3, <2>4
<1>3. Parent[q] \in S \cup {Root}
  BY AboveParent, AboveStep
<1>4. Above[q] \subseteq S
  <2> HIDE DEF S
  <2> QED
    BY <1>1, <1>2, <1>3, AboveLeast
<1> QED
  BY <1>4

-----------------------------------------------------------------------------
(* The invariant *)

\* The base is a tree: everything in it is in a directory.
BaseTree == \A p \in Paths : base[p] # "none" => \A q \in Above[p] : base[q] = "dir"

Layered == TypeOK /\ BaseTree /\ RestoreExact

\* An entry of the layer has directories of the layer above it.
LEMMA EntriesInDirs ==
    ASSUME Layered, NEW p \in Paths, upper[p] # "absent", NEW q \in Above[p]
    PROVE  IsDir(upper[q])
<1> DEFINE S == {r \in Paths : IsDir(upper[r])}
<1>1. S \in SUBSET Paths
  OBVIOUS
<1>2. \A r \in Paths : upper[r] # "absent" => Parent[r] \in S \cup {Root}
  BY ParentAssumption DEF Layered, RestoreExact
<1>3. \A r \in S : Parent[r] \in S \cup {Root}
  BY <1>2 DEF IsDir
<1>4. Parent[p] \in S \cup {Root}
  BY <1>2
<1>5. Above[p] \subseteq S
  <2> HIDE DEF S
  <2> QED
    BY <1>1, <1>3, <1>4, AboveLeast
<1> QED
  BY <1>5

\* The base is seen at a directory that is above one where it is seen.
LEMMA SeenAbove ==
    ASSUME NEW p \in Paths, LowerSeen(p), NEW q \in Above[p]
    PROVE  LowerSeen(q) /\ upper[q] \in {"absent", "dir"} /\ base[q] = "dir"
BY AboveAbove DEF LowerSeen

\* What the sandbox sees is in directories that it sees.
LEMMA SeenInDirs ==
    ASSUME Layered, NEW p \in Paths, view[p] # "none", NEW q \in Above[p]
    PROVE  view[q] = "dir"
<1>1. q \in Paths /\ view[p] = Merged(p) /\ view[q] = Merged(q)
  BY AbovePaths DEF Layered, RestoreExact
<1>2. CASE upper[p] # "absent"
  <2>1. IsDir(upper[q])
    BY <1>2, EntriesInDirs
  <2> QED
    BY <1>1, <2>1 DEF Merged, IsDir
<1>3. CASE upper[p] = "absent"
  <2>1. LowerSeen(p)
    BY <1>1, <1>3 DEF Merged, IsDir
  <2>2. LowerSeen(q) /\ upper[q] \in {"absent", "dir"} /\ base[q] = "dir"
    BY <2>1, SeenAbove
  <2> QED
    BY <1>1, <2>2 DEF Merged, IsDir
<1> QED
  BY <1>2, <1>3

\* A directory seen without an entry of its own is one of the base's, in sight.
LEMMA LowerDir ==
    ASSUME Layered, NEW p \in Paths, view[p] = "dir", upper[p] = "absent"
    PROVE  LowerSeen(p) /\ base[p] = "dir"
BY DEF Layered, RestoreExact, Merged, IsDir

-----------------------------------------------------------------------------
(* One operation at p leaves the rest of the tree as it was *)

\* What an operation at p does to the entries that are neither p nor below it.
CopyUpAt(p) ==
    /\ base' = base
    /\ \A q \in Paths : q # p /\ p \notin Above[q] => upper'[q] = CopiedUp(p)[q]

\* After a copy-up for p, the directories above p are directories of the layer.
LEMMA CopyUpDirs ==
    ASSUME Layered, NEW p \in Paths, \A q \in Above[p] : view[q] = "dir", CopyUpAt(p),
           NEW q \in Above[p]
    PROVE  /\ q \in Paths /\ q # p /\ p \notin Above[q]
           /\ IsDir(upper'[q])
           /\ upper'[q] = IF upper[q] = "absent" THEN "dir" ELSE upper[q]
<1>1. q \in Paths /\ q # p
  BY AbovePaths, TreeAssumption
<1>2. p \notin Above[q]
  BY AboveAbove, TreeAssumption
<1>3. upper'[q] = IF upper[q] = "absent" THEN "dir" ELSE upper[q]
  BY <1>1, <1>2 DEF CopyUpAt, CopiedUp
<1>4. view[q] = Merged(q) /\ view[q] = "dir"
  BY <1>1 DEF Layered, RestoreExact
<1>5. upper[q] = "absent" \/ IsDir(upper[q])
  BY <1>4 DEF Merged, IsDir
<1> QED
  BY <1>1, <1>2, <1>3, <1>5 DEF IsDir

\* A copy-up for p changes nowhere but below p whether the base is seen.
LEMMA CopyUpSeen ==
    ASSUME Layered, NEW p \in Paths, \A q \in Above[p] : view[q] = "dir", CopyUpAt(p),
           NEW q \in Paths, p \notin Above[q]
    PROVE  LowerSeen(q)' <=> LowerSeen(q)
<1>1. ASSUME NEW r \in Above[q]
      PROVE  upper'[r] \in {"absent", "dir"} <=> upper[r] \in {"absent", "dir"}
  <2>1. r \in Paths /\ r # p
    BY AbovePaths
  <2>2. p \notin Above[r]
    BY AboveAbove
  <2>3. upper'[r] = CopiedUp(p)[r]
    BY <2>1, <2>2 DEF CopyUpAt
  <2> QED
    BY <2>1, <2>3 DEF CopiedUp
<1>2. base' = base
  BY DEF CopyUpAt
<1> QED
  BY <1>1, <1>2 DEF LowerSeen

\* The rest of the tree, after an operation at p: the same files are seen, and
\* every entry is in a directory of the layer.
LEMMA CopyUpRest ==
    ASSUME Layered, NEW p \in Paths, \A q \in Above[p] : view[q] = "dir", CopyUpAt(p),
           NEW q \in Paths, q # p, p \notin Above[q]
    PROVE  /\ Merged(q)' = view[q]
           /\ upper'[q] # "absent" /\ Parent[q] # Root => IsDir(upper'[Parent[q]])
<1>1. view[q] = Merged(q)
  BY DEF Layered, RestoreExact
<1>2. LowerSeen(q)' <=> LowerSeen(q)
  BY CopyUpSeen
<1>3. upper'[q] = CopiedUp(p)[q] /\ base'[q] = base[q]
  BY DEF CopyUpAt
<1>4. CASE q \in Above[p]
  <2>1. IsDir(upper'[q]) /\ view[q] = "dir"
    BY <1>4, CopyUpDirs
  <2>2. Merged(q)' = "dir"
    BY <2>1 DEF Merged, IsDir
  <2>3. Parent[q] # Root => IsDir(upper'[Parent[q]])
    BY <1>4, AboveClosed, CopyUpDirs
  <2> QED
    BY <2>1, <2>2, <2>3
<1>5. CASE q \notin Above[p]
  <2>1. upper'[q] = upper[q]
    BY <1>3, <1>5 DEF CopiedUp
  <2>2. Merged(q)' = Merged(q)
    BY <1>2, <1>3, <2>1 DEF Merged, IsDir
  <2>3. ASSUME upper'[q] # "absent", Parent[q] # Root
        PROVE  IsDir(upper'[Parent[q]])
    <3>1. IsDir(upper[Parent[q]])
      BY <2>1, <2>3 DEF Layered, RestoreExact
    <3>2. Parent[q] \in Above[q]
      BY <2>3, AboveParent
    <3>3. Parent[q] \in Paths /\ Parent[q] # p /\ p \notin Above[Parent[q]]
      BY <3>2, AbovePaths, AboveAbove
    <3>4. upper'[Parent[q]] = CopiedUp(p)[Parent[q]]
      BY <3>3 DEF CopyUpAt
    <3> QED
      BY <3>1, <3>3, <3>4 DEF CopiedUp, IsDir
  <2> QED
    BY <1>1, <2>2, <2>3
<1> QED
  BY <1>4, <1>5

\* What is below a path that is not a seen directory has no entry and is not seen.
LEMMA NothingBelow ==
    ASSUME Layered, NEW p \in Paths, view[p] # "dir", NEW q \in Paths, p \in Above[q]
    PROVE  /\ upper[q] = "absent" /\ view[q] = "none"
           /\ q # p /\ q \notin Above[p]
<1>1. view[q] = "none"
  BY SeenInDirs
<1>2. view[p] = Merged(p)
  BY DEF Layered, RestoreExact
<1>3. ~ IsDir(upper[p])
  BY <1>2 DEF Merged, IsDir
<1>4. upper[q] = "absent"
  BY <1>3, EntriesInDirs
<1> QED
  BY <1>1, <1>4, AboveAbove, TreeAssumption

\* The directories above p are seen if its own is.
LEMMA DirsAbove ==
    ASSUME Layered, NEW p \in Paths, ViewDir(Parent[p]), NEW q \in Above[p]
    PROVE  view[q] = "dir"
<1>1. Parent[p] \in Paths /\ (q = Parent[p] \/ q \in Above[Parent[p]])
  BY AboveStep
<1>2. view[Parent[p]] = "dir"
  BY <1>1 DEF ViewDir
<1> QED
  BY <1>1, <1>2, SeenInDirs

\* p itself, after an operation there that gives it an entry.
LEMMA CopyUpHere ==
    ASSUME Layered, NEW p \in Paths, \A q \in Above[p] : view[q] = "dir", CopyUpAt(p),
           Parent[p] # Root
    PROVE  IsDir(upper'[Parent[p]])
BY AboveParent, CopyUpDirs

-----------------------------------------------------------------------------
(* The operations *)

\* A file is written: p's old entries are out of sight, for there were none below.
LEMMA WriteFileExact ==
    ASSUME Layered, NEW p \in Paths, WriteFile(p)
    PROVE  Layered'
<1> USE DEF Layered
<1>1. TypeOK'
  BY DEF TypeOK, WriteFile, CopiedUp
<1>2. BaseTree'
  BY DEF BaseTree, WriteFile
<1>3. \A q \in Above[p] : view[q] = "dir"
  BY DirsAbove DEF WriteFile
<1>4. /\ upper' = [CopiedUp(p) EXCEPT ![p] = "file"] /\ upper'[p] = "file"
      /\ view' = [view EXCEPT ![p] = "new"] /\ view'[p] = "new"
      /\ view[p] # "dir"
  BY DEF WriteFile, TypeOK, CopiedUp
<1>5. CopyUpAt(p)
  BY DEF CopyUpAt, WriteFile, CopiedUp
<1>6. ASSUME NEW q \in Paths
      PROVE  /\ view'[q] = Merged(q)'
             /\ upper'[q] # "absent" /\ Parent[q] # Root => IsDir(upper'[Parent[q]])
  <2>1. CASE q = p
    <3>1. Merged(q)' = "new"
      BY <1>4, <2>1 DEF Merged, IsDir
    <3> QED
      BY <1>3, <1>4, <1>5, <2>1, <3>1, CopyUpHere
  <2>2. CASE q # p /\ p \notin Above[q]
    <3>1. view'[q] = view[q]
      BY <1>4, <2>2 DEF TypeOK
    <3> QED
      BY <1>3, <1>5, <2>2, <3>1, CopyUpRest
  <2>3. CASE p \in Above[q]
    <3>1. upper[q] = "absent" /\ view[q] = "none" /\ q # p /\ q \notin Above[p]
      BY <1>4, <2>3, NothingBelow
    <3>2. upper'[q] = "absent" /\ view'[q] = "none"
      BY <1>4, <3>1 DEF TypeOK, CopiedUp
    <3>3. ~ LowerSeen(q)'
      BY <1>4, <2>3 DEF LowerSeen
    <3> QED
      BY <3>2, <3>3 DEF Merged, IsDir
  <2> QED
    BY <2>1, <2>2, <2>3
<1>7. RestoreExact'
  BY <1>6 DEF RestoreExact
<1> QED
  BY <1>1, <1>2, <1>7

\* A directory is made: opaque, or where the base is out of sight anyway, so
\* that it starts empty.
LEMMA MakeDirExact ==
    ASSUME Layered, NEW p \in Paths, MakeDir(p)
    PROVE  Layered'
<1> USE DEF Layered
<1>1. TypeOK'
  BY DEF TypeOK, MakeDir, CopiedUp
<1>2. BaseTree'
  BY DEF BaseTree, MakeDir
<1>3. \A q \in Above[p] : view[q] = "dir"
  BY DirsAbove DEF MakeDir
<1> DEFINE E == IF upper[p] = "whiteout" \/ LowerSeen(p) THEN "opaque" ELSE "dir"
<1>4. /\ upper' = [CopiedUp(p) EXCEPT ![p] = E] /\ upper'[p] = E
      /\ view' = [view EXCEPT ![p] = "dir"] /\ view'[p] = "dir"
      /\ view[p] # "dir"
  BY DEF MakeDir, TypeOK, CopiedUp
<1>5. CopyUpAt(p)
  BY DEF CopyUpAt, MakeDir, CopiedUp
<1>6. IsDir(upper'[p]) /\ (upper'[p] = "opaque" \/ ~ LowerSeen(p))
  BY <1>4 DEF IsDir
<1>7. ASSUME NEW q \in Paths
      PROVE  /\ view'[q] = Merged(q)'
             /\ upper'[q] # "absent" /\ Parent[q] # Root => IsDir(upper'[Parent[q]])
  <2>1. CASE q = p
    <3>1. Merged(q)' = "dir"
      BY <1>6, <2>1 DEF Merged, IsDir
    <3> QED
      BY <1>3, <1>4, <1>5, <2>1, <3>1, CopyUpHere
  <2>2. CASE q # p /\ p \notin Above[q]
    <3>1. view'[q] = view[q]
      BY <1>4, <2>2 DEF TypeOK
    <3> QED
      BY <1>3, <1>5, <2>2, <3>1, CopyUpRest
  <2>3. CASE p \in Above[q]
    <3>1. upper[q] = "absent" /\ view[q] = "none" /\ q # p /\ q \notin Above[p]
      BY <1>4, <2>3, NothingBelow
    <3>2. upper'[q] = "absent" /\ view'[q] = "none"
      BY <1>4, <3>1 DEF TypeOK, CopiedUp
    <3>3. ~ LowerSeen(q)'
      <4>1. CASE upper'[p] = "opaque"
        BY <2>3, <4>1 DEF LowerSeen
      <4>2. CASE ~ LowerSeen(p)
        <5>1. ~ LowerSeen(p)'
          BY <1>3, <1>5, <4>2, TreeAssumption, CopyUpSeen
        <5> QED
          BY <2>3, <5>1, AboveAbove DEF LowerSeen
      <4> QED
        BY <1>6, <4>1, <4>2
    <3> QED
      BY <3>2, <3>3 DEF Merged, IsDir
  <2> QED
    BY <2>1, <2>2, <2>3
<1>8. RestoreExact'
  BY <1>7 DEF RestoreExact
<1> QED
  BY <1>1, <1>2, <1>8

\* A file or an empty directory is removed: a whiteout is left exactly where the
\* base would show through.
LEMMA RemoveExact ==
    ASSUME Layered, NEW p \in Paths, Remove(p)
    PROVE  Layered'
<1> USE DEF Layered
<1>1. TypeOK'
  BY DEF TypeOK, Remove, CopiedUp
<1>2. BaseTree'
  BY DEF BaseTree, Remove
<1>3. \A q \in Above[p] : view[q] = "dir"
  BY SeenInDirs DEF Remove
<1>4. /\ upper'[p] = IF LowerSeen(p) /\ base[p] # "none" THEN "whiteout" ELSE "absent"
      /\ \A q \in Paths : p \in Above[q] /\ q # p => upper'[q] = "absent"
      /\ view' = [view EXCEPT ![p] = "none"] /\ view'[p] = "none"
      /\ base' = base
  BY DEF Remove, TypeOK, Below
<1>5. CopyUpAt(p)
  BY DEF CopyUpAt, Remove, Below
<1>6. LowerSeen(p)' <=> LowerSeen(p)
  BY <1>3, <1>5, TreeAssumption, CopyUpSeen
<1>7. ASSUME NEW q \in Paths
      PROVE  /\ view'[q] = Merged(q)'
             /\ upper'[q] # "absent" /\ Parent[q] # Root => IsDir(upper'[Parent[q]])
  <2>1. CASE q = p
    <3>1. Merged(q)' = "none"
      BY <1>4, <1>6, <2>1 DEF Merged, IsDir
    <3> QED
      BY <1>3, <1>4, <1>5, <2>1, <3>1, CopyUpHere
  <2>2. CASE q # p /\ p \notin Above[q]
    <3>1. view'[q] = view[q]
      BY <1>4, <2>2 DEF TypeOK
    <3> QED
      BY <1>3, <1>5, <2>2, <3>1, CopyUpRest
  <2>3. CASE p \in Above[q]
    <3>1. q # p
      BY <2>3, TreeAssumption
    <3>2. PICK c \in {q} \cup Above[q] : Parent[c] = p
      BY <2>3, AboveChild
    <3>3. c \in Paths
      BY <3>2, AbovePaths
    <3>4. view[c] = "none"
      BY <3>2, <3>3 DEF Remove, Children
    <3>5. view[q] = "none"
      BY <3>2, <3>4, SeenInDirs
    <3>6. upper'[q] = "absent" /\ view'[q] = "none"
      BY <1>4, <2>3, <3>1, <3>5 DEF TypeOK
    <3>7. ~ LowerSeen(q)'
      <4>1. CASE LowerSeen(p)
        BY <1>4, <2>3, <4>1 DEF LowerSeen
      <4>2. CASE ~ LowerSeen(p)
        BY <1>6, <2>3, <4>2, AboveAbove DEF LowerSeen
      <4> QED
        BY <4>1, <4>2
    <3> QED
      BY <3>6, <3>7 DEF Merged, IsDir
  <2> QED
    BY <2>1, <2>2, <2>3
<1>8. RestoreExact'
  BY <1>7 DEF RestoreExact
<1> QED
  BY <1>1, <1>2, <1>8

\* A directory is copied up: a merged entry over a seen directory changes nothing.
LEMMA TouchDirExact ==
    ASSUME Layered, NEW p \in Paths, TouchDir(p)
    PROVE  Layered'
<1> USE DEF Layered
<1>1. TypeOK'
  BY DEF TypeOK, TouchDir, CopiedUp
<1>2. BaseTree'
  BY DEF BaseTree, TouchDir
<1>3. \A q \in Above[p] : view[q] = "dir"
  BY SeenInDirs DEF TouchDir
<1>4. /\ upper' = [CopiedUp(p) EXCEPT ![p] = "dir"] /\ upper'[p] = "dir"
      /\ view[p] = "dir" /\ upper[p] = "absent" /\ view' = view /\ base' = base
  BY DEF TouchDir, TypeOK, CopiedUp
<1>5. CopyUpAt(p)
  BY DEF CopyUpAt, TouchDir, CopiedUp
<1>6. ASSUME NEW q \in Paths
      PROVE  /\ view'[q] = Merged(q)'
             /\ upper'[q] # "absent" /\ Parent[q] # Root => IsDir(upper'[Parent[q]])
  <2>1. CASE q = p
    <3>1. Merged(q)' = "dir"
      BY <1>4, <2>1 DEF Merged, IsDir
    <3> QED
      BY <1>3, <1>4, <1>5, <2>1, <3>1, CopyUpHere
  <2>2. CASE q # p /\ p \notin Above[q]
    BY <1>3, <1>4, <1>5, <2>2, CopyUpRest
  <2>3. CASE p \in Above[q]
    <3>1. upper[q] = "absent" /\ q # p /\ q \notin Above[p]
      BY <1>4, <2>3, EntriesInDirs, AboveAbove, TreeAssumption DEF IsDir
    <3>2. upper'[q] = "absent"
      BY <1>4, <3>1 DEF TypeOK, CopiedUp
    <3>3. \A r \in Above[q] : r \in Paths
      BY AbovePaths
    <3>4. LowerSeen(q)' <=> LowerSeen(q)
      BY <1>4, <3>3 DEF LowerSeen, CopiedUp
    <3>5. view[q] = Merged(q)
      BY DEF RestoreExact
    <3> QED
      BY <1>4, <3>1, <3>2, <3>4, <3>5 DEF Merged, IsDir
  <2> QED
    BY <2>1, <2>2, <2>3
<1>7. RestoreExact'
  BY <1>6 DEF RestoreExact
<1> QED
  BY <1>1, <1>2, <1>7

\* copy_tree: a copy of a layer is that layer, whiteouts and opacity included.
LEMMA CopyEntryExact ==
    ASSUME NEW e \in {"absent", "whiteout", "file", "dir", "opaque"}
    PROVE  CopyEntry(e) = e
BY DEF CopyEntry, CopyXattrs

\* A sandbox that is snapshotted and restored has the same layer.
LEMMA SnapshotExact ==
    ASSUME Layered, SnapshotRestore
    PROVE  upper' = upper /\ Layered'
<1>1. upper' = upper
  BY CopyEntryExact DEF Layered, TypeOK, SnapshotRestore
<1>2. base' = base /\ view' = view
  BY DEF SnapshotRestore
<1> QED
  BY <1>1, <1>2 DEF Layered, TypeOK, BaseTree, RestoreExact, Merged, LowerSeen

\* The invariant holds at first and is kept.
LEMMA LayeredAlways == Spec => []Layered
<1>1. Init => Layered
  <2> SUFFICES ASSUME Init PROVE Layered
    OBVIOUS
  <2>1. TypeOK /\ BaseTree
    BY DEF Init, TypeOK, BaseTree
  <2>2. ASSUME NEW p \in Paths PROVE view[p] = Merged(p) /\ upper[p] = "absent"
    <3>1. \A q \in Above[p] : q \in Paths
      BY AbovePaths
    <3>2. base[p] # "none" => LowerSeen(p)
      BY <3>1 DEF Init, LowerSeen
    <3> QED
      BY <2>1, <3>2 DEF Init, Merged, IsDir, TypeOK
  <2> QED
    BY <2>1, <2>2 DEF Layered, RestoreExact
<1>2. Layered /\ [Next]_vars => Layered'
  <2> SUFFICES ASSUME Layered, [Next]_vars PROVE Layered'
    OBVIOUS
  <2>1. CASE \E p \in Paths : WriteFile(p) \/ MakeDir(p) \/ Remove(p) \/ TouchDir(p)
    BY <2>1, WriteFileExact, MakeDirExact, RemoveExact, TouchDirExact
  <2>2. CASE SnapshotRestore
    BY <2>2, SnapshotExact
  <2>3. CASE UNCHANGED vars
    BY <2>3 DEF vars, Layered, TypeOK, BaseTree, RestoreExact, Merged, LowerSeen
  <2> QED
    BY <2>1, <2>2, <2>3 DEF Next
<1> QED
  BY <1>1, <1>2, PTL DEF Spec

-----------------------------------------------------------------------------
(* diff_upper, against the layer: which path is reported with which kind *)

\* The paths under p that push_deleted reports, p itself included.
Under(p, q) == q = p \/ (p \in Above[q] /\ base[q] # "none")

\* The three ways in which the walk comes to report q as deleted.
ByWhiteout(q) ==
    \E p \in Paths : upper[p] = "whiteout" /\ base[p] # "none" /\ Under(p, q)

ByOpaque(q) ==
    \E c \in Paths : /\ Parent[c] \in Paths
                     /\ upper[Parent[c]] = "opaque" /\ base[Parent[c]] = "dir"
                     /\ base[c] # "none" /\ upper[c] = "absent" /\ Under(c, q)

ByReplaced(q) ==
    \E c \in Paths : /\ Parent[c] \in Paths /\ upper[Parent[c]] # "absent"
                     /\ upper[Parent[c]] # "whiteout" /\ base[Parent[c]] # "none"
                     /\ ~ (IsDir(upper[Parent[c]]) /\ base[Parent[c]] = "dir")
                     /\ base[c] # "none" /\ Under(c, q)

\* push_deleted reports deletions, of what is under p.
LEMMA PushDeletedIs ==
    ASSUME NEW p \in Paths, NEW q \in Paths
    PROVE  /\ <<q, "Deleted">> \in PushDeleted(p) <=> Under(p, q)
           /\ <<q, "Added">> \notin PushDeleted(p)
           /\ <<q, "Modified">> \notin PushDeleted(p)
           /\ \A x \in PushDeleted(p) : \E r \in Paths : x = <<r, "Deleted">>
BY DEF PushDeleted, Under, Below

\* One entry of the layer, case by case.
LEMMA WalkEntryIs ==
    ASSUME Layered, NEW p \in Paths, upper[p] # "absent"
    PROVE  /\ upper[p] = "whiteout" =>
                WalkEntry(p) = IF base[p] = "none" THEN {} ELSE PushDeleted(p)
           /\ IsDir(upper[p]) /\ base[p] = "dir" =>
                WalkEntry(p) = IF upper[p] = "opaque" THEN ReportShadowed(p) ELSE {}
           /\ upper[p] # "whiteout" /\ base[p] = "none" => WalkEntry(p) = {<<p, "Added">>}
           /\ (upper[p] # "whiteout" /\ base[p] # "none" /\
               ~ (IsDir(upper[p]) /\ base[p] = "dir")) =>
                WalkEntry(p) = {<<p, "Modified">>} \cup
                  UNION {PushDeleted(q) : q \in {r \in Children(p) : base[r] # "none"}}
<1>1. ASSUME upper[p] = "whiteout"
      PROVE  WalkEntry(p) = IF base[p] = "none" THEN {} ELSE PushDeleted(p)
  <2>1. upper[p] = "whiteout" /\ ~ IsDir(upper[p])
    BY <1>1 DEF IsDir
  <2>2. CASE base[p] = "none"
    BY <2>1, <2>2 DEF WalkEntry
  <2>3. CASE base[p] # "none"
    BY <2>1, <2>3 DEF WalkEntry
  <2> QED
    BY <2>2, <2>3
<1>2. ASSUME IsDir(upper[p]), base[p] = "dir"
      PROVE  WalkEntry(p) = IF upper[p] = "opaque" THEN ReportShadowed(p) ELSE {}
  BY <1>2 DEF WalkEntry, IsDir
<1>3. ASSUME upper[p] # "whiteout", base[p] = "none"
      PROVE  WalkEntry(p) = {<<p, "Added">>}
  BY <1>3 DEF WalkEntry, IsDir
<1>4. ASSUME upper[p] # "whiteout", base[p] # "none", ~ (IsDir(upper[p]) /\ base[p] = "dir")
      PROVE  WalkEntry(p) = {<<p, "Modified">>} \cup
               UNION {PushDeleted(q) : q \in {r \in Children(p) : base[r] # "none"}}
  BY <1>4 DEF WalkEntry
<1> QED
  BY <1>1, <1>2, <1>3, <1>4

\* report_shadowed reports deletions, of what is under the hidden children.
LEMMA ReportShadowedIs ==
    ASSUME NEW p \in Paths, NEW x
    PROVE  x \in ReportShadowed(p) <=>
             \E c \in Paths : /\ Parent[c] = p /\ base[c] # "none" /\ upper[c] = "absent"
                              /\ x \in PushDeleted(c)
BY DEF ReportShadowed, Children

\* An addition: an entry that is no whiteout, where the base has nothing.
LEMMA DiffAdded ==
    ASSUME Layered, NEW q \in Paths
    PROVE  <<q, "Added">> \in Diff <=>
             upper[q] # "absent" /\ upper[q] # "whiteout" /\ base[q] = "none"
<1>1. ASSUME <<q, "Added">> \in Diff
      PROVE  upper[q] # "absent" /\ upper[q] # "whiteout" /\ base[q] = "none"
  <2>1. PICK p \in Paths : upper[p] # "absent" /\ <<q, "Added">> \in WalkEntry(p)
    BY <1>1 DEF Diff
  <2>2. \A c \in Paths : <<q, "Added">> \notin PushDeleted(c)
    BY PushDeletedIs
  <2>3. upper[p] # "whiteout"
    BY <2>1, <2>2, WalkEntryIs
  <2>4. ~ (IsDir(upper[p]) /\ base[p] = "dir")
    BY <2>1, <2>2, WalkEntryIs, ReportShadowedIs
  <2>5. base[p] = "none"
    <3> SUFFICES ASSUME base[p] # "none" PROVE FALSE
      OBVIOUS
    <3>1. <<q, "Added">> \in {<<p, "Modified">>} \cup
            UNION {PushDeleted(c) : c \in {r \in Children(p) : base[r] # "none"}}
      BY <2>1, <2>3, <2>4, WalkEntryIs
    <3> QED
      BY <2>2, <3>1 DEF Children
  <2>6. <<q, "Added">> \in {<<p, "Added">>}
    BY <2>1, <2>3, <2>5, WalkEntryIs
  <2> QED
    BY <2>1, <2>3, <2>5, <2>6
<1>2. ASSUME upper[q] # "absent", upper[q] # "whiteout", base[q] = "none"
      PROVE  <<q, "Added">> \in Diff
  BY <1>2, WalkEntryIs DEF Diff
<1> QED
  BY <1>1, <1>2

\* A modification: an entry that is no whiteout, over something of the base's
\* that it is not merged with.
LEMMA DiffModified ==
    ASSUME Layered, NEW q \in Paths
    PROVE  <<q, "Modified">> \in Diff <=>
             /\ upper[q] # "absent" /\ upper[q] # "whiteout" /\ base[q] # "none"
             /\ ~ (IsDir(upper[q]) /\ base[q] = "dir")
<1>1. ASSUME <<q, "Modified">> \in Diff
      PROVE  /\ upper[q] # "absent" /\ upper[q] # "whiteout" /\ base[q] # "none"
             /\ ~ (IsDir(upper[q]) /\ base[q] = "dir")
  <2>1. PICK p \in Paths : upper[p] # "absent" /\ <<q, "Modified">> \in WalkEntry(p)
    BY <1>1 DEF Diff
  <2>2. \A c \in Paths : <<q, "Modified">> \notin PushDeleted(c)
    BY PushDeletedIs
  <2>3. upper[p] # "whiteout"
    BY <2>1, <2>2, WalkEntryIs
  <2>4. ~ (IsDir(upper[p]) /\ base[p] = "dir")
    BY <2>1, <2>2, WalkEntryIs, ReportShadowedIs
  <2>5. base[p] # "none"
    BY <2>1, <2>3, WalkEntryIs
  <2>6. <<q, "Modified">> \in {<<p, "Modified">>} \cup
            UNION {PushDeleted(c) : c \in {r \in Children(p) : base[r] # "none"}}
    BY <2>1, <2>3, <2>4, <2>5, WalkEntryIs
  <2>7. q = p
    BY <2>2, <2>6 DEF Children
  <2> QED
    BY <2>1, <2>3, <2>4, <2>5, <2>7
<1>2. ASSUME upper[q] # "absent", upper[q] # "whiteout", base[q] # "none",
             ~ (IsDir(upper[q]) /\ base[q] = "dir")
      PROVE  <<q, "Modified">> \in Diff
  BY <1>2, WalkEntryIs DEF Diff
<1> QED
  BY <1>1, <1>2

\* A deletion: below a whiteout, hidden by an opaque directory, or in a base
\* directory that something else has replaced.
LEMMA DiffDeleted ==
    ASSUME Layered, NEW q \in Paths
    PROVE  <<q, "Deleted">> \in Diff <=> ByWhiteout(q) \/ ByOpaque(q) \/ ByReplaced(q)
<1>1. ASSUME <<q, "Deleted">> \in Diff
      PROVE  ByWhiteout(q) \/ ByOpaque(q) \/ ByReplaced(q)
  <2>1. PICK p \in Paths : upper[p] # "absent" /\ <<q, "Deleted">> \in WalkEntry(p)
    BY <1>1 DEF Diff
  <2>2. CASE upper[p] = "whiteout"
    BY <2>1, <2>2, WalkEntryIs, PushDeletedIs DEF ByWhiteout
  <2>3. CASE IsDir(upper[p]) /\ base[p] = "dir"
    <3>1. upper[p] = "opaque" /\ <<q, "Deleted">> \in ReportShadowed(p)
      BY <2>1, <2>3, WalkEntryIs
    <3>2. PICK c \in Paths : /\ Parent[c] = p /\ base[c] # "none" /\ upper[c] = "absent"
                             /\ <<q, "Deleted">> \in PushDeleted(c)
      BY <3>1, ReportShadowedIs
    <3>3. Under(c, q)
      BY <3>2, PushDeletedIs
    <3> QED
      BY <2>3, <3>1, <3>2, <3>3 DEF ByOpaque
  <2>4. CASE upper[p] # "whiteout" /\ ~ (IsDir(upper[p]) /\ base[p] = "dir")
    <3>1. base[p] # "none"
      BY <2>1, <2>4, WalkEntryIs
    <3>2. <<q, "Deleted">> \in {<<p, "Modified">>} \cup
            UNION {PushDeleted(c) : c \in {r \in Children(p) : base[r] # "none"}}
      BY <2>1, <2>4, <3>1, WalkEntryIs
    <3>3. PICK c \in Paths : /\ Parent[c] = p /\ base[c] # "none"
                             /\ <<q, "Deleted">> \in PushDeleted(c)
      BY <3>2 DEF Children
    <3>4. Under(c, q)
      BY <3>3, PushDeletedIs
    <3> QED
      BY <2>1, <2>4, <3>1, <3>3, <3>4 DEF ByReplaced
  <2> QED
    BY <2>2, <2>3, <2>4
<1>2. ASSUME ByWhiteout(q) PROVE <<q, "Deleted">> \in Diff
  <2>1. PICK p \in Paths : upper[p] = "whiteout" /\ base[p] # "none" /\ Under(p, q)
    BY <1>2 DEF ByWhiteout
  <2>2. WalkEntry(p) = PushDeleted(p)
    BY <2>1, WalkEntryIs
  <2>3. <<q, "Deleted">> \in WalkEntry(p)
    BY <2>1, <2>2, PushDeletedIs
  <2> QED
    BY <2>1, <2>3 DEF Diff
<1>3. ASSUME ByOpaque(q) PROVE <<q, "Deleted">> \in Diff
  <2>1. PICK c \in Paths : /\ Parent[c] \in Paths
                           /\ upper[Parent[c]] = "opaque" /\ base[Parent[c]] = "dir"
                           /\ base[c] # "none" /\ upper[c] = "absent" /\ Under(c, q)
    BY <1>3 DEF ByOpaque
  <2>2. <<q, "Deleted">> \in ReportShadowed(Parent[c])
    BY <2>1, PushDeletedIs, ReportShadowedIs
  <2>3. <<q, "Deleted">> \in WalkEntry(Parent[c])
    BY <2>1, <2>2, WalkEntryIs DEF IsDir
  <2> QED
    BY <2>1, <2>3 DEF Diff
<1>4. ASSUME ByReplaced(q) PROVE <<q, "Deleted">> \in Diff
  <2>1. PICK c \in Paths : /\ Parent[c] \in Paths /\ upper[Parent[c]] # "absent"
                           /\ upper[Parent[c]] # "whiteout" /\ base[Parent[c]] # "none"
                           /\ ~ (IsDir(upper[Parent[c]]) /\ base[Parent[c]] = "dir")
                           /\ base[c] # "none" /\ Under(c, q)
    BY <1>4 DEF ByReplaced
  <2>2. <<q, "Deleted">> \in PushDeleted(c) /\ c \in Children(Parent[c])
    BY <2>1, PushDeletedIs DEF Children
  <2>3. <<q, "Deleted">> \in WalkEntry(Parent[c])
    BY <2>1, <2>2, WalkEntryIs
  <2> QED
    BY <2>1, <2>3 DEF Diff
<1> QED
  BY <1>1, <1>2, <1>3, <1>4

\* The diff says nothing else.
LEMMA DiffKinds ==
    ASSUME Layered, NEW x \in Diff
    PROVE  \E q \in Paths : x \in {<<q, "Added">>, <<q, "Modified">>, <<q, "Deleted">>}
<1>1. PICK p \in Paths : upper[p] # "absent" /\ x \in WalkEntry(p)
  BY DEF Diff
<1>2. \A c \in Paths : x \in PushDeleted(c) => \E r \in Paths : x = <<r, "Deleted">>
  BY DEF PushDeleted, Below
<1>3. CASE \E c \in Paths : x \in PushDeleted(c)
  BY <1>2, <1>3
<1>4. CASE \A c \in Paths : x \notin PushDeleted(c)
  <2>1. x \notin ReportShadowed(p)
    BY <1>4, ReportShadowedIs
  <2>2. x \in {<<p, "Added">>, <<p, "Modified">>}
    BY <1>1, <1>4, <2>1, WalkEntryIs DEF Children
  <2> QED
    BY <2>2
<1> QED
  BY <1>3, <1>4

-----------------------------------------------------------------------------
(* The diff against the two trees *)

\* A way to q leads through a missing entry in a directory taken for merged.
Lost(q) == \E r \in {q} \cup Above[q] : upper[r] = "absent" /\ TakenForMerged(Parent[r])

\* Below an entry that is no directory nothing is seen, and nothing is lost.
LEMMA Blocked ==
    ASSUME Layered, NEW p \in Paths, upper[p] \in {"whiteout", "file"},
           NEW q \in Paths, p \in Above[q]
    PROVE  view[q] = "none" /\ ~ Lost(q)
<1>1. view[q] = "none"
  <2>1. view[p] # "dir"
    BY DEF Layered, RestoreExact, Merged, IsDir
  <2> QED
    BY <2>1, NothingBelow
<1>2. ASSUME NEW r \in {q} \cup Above[q], upper[r] = "absent", TakenForMerged(Parent[r])
      PROVE  FALSE
  <2>1. r \in Paths /\ upper[Parent[r]] = "dir"
    BY <1>2, AbovePaths DEF TakenForMerged
  <2>2. r = q \/ r = p \/ r \in Above[p] \/ p \in Above[r]
    BY <1>2, AboveLinear
  <2>3. r \notin Above[p]
    BY <1>2, EntriesInDirs DEF IsDir
  <2>4. p \in Above[r]
    BY <1>2, <2>2, <2>3
  <2>5. Parent[r] \in Paths /\ (p = Parent[r] \/ p \in Above[Parent[r]])
    BY <2>1, <2>4, AboveStep
  <2>6. p \in Above[Parent[r]]
    BY <2>1, <2>5
  <2>7. IsDir(upper[p])
    BY <2>1, <2>5, <2>6, EntriesInDirs
  <2> QED
    BY <2>7 DEF IsDir
<1> QED
  BY <1>1, <1>2 DEF Lost

\* What the walk reports as deleted was in the base and is gone.
LEMMA DeletedSound ==
    ASSUME Layered, NEW q \in Paths, ByWhiteout(q) \/ ByOpaque(q) \/ ByReplaced(q)
    PROVE  base[q] # "none" /\ view[q] = "none" /\ ~ Lost(q)
<1>1. CASE ByWhiteout(q)
  <2>1. PICK p \in Paths : upper[p] = "whiteout" /\ base[p] # "none" /\ Under(p, q)
    BY <1>1 DEF ByWhiteout
  <2>2. CASE q = p
    <3>1. view[q] = "none"
      BY <2>1, <2>2 DEF Layered, RestoreExact, Merged, IsDir
    <3>2. \A r \in {q} \cup Above[q] : upper[r] # "absent"
      BY <2>1, <2>2, EntriesInDirs DEF IsDir
    <3> QED
      BY <2>1, <2>2, <3>1, <3>2 DEF Lost
  <2>3. CASE p \in Above[q] /\ base[q] # "none"
    BY <2>1, <2>3, Blocked
  <2> QED
    BY <2>1, <2>2, <2>3 DEF Under
<1>2. CASE ByReplaced(q)
  <2>1. PICK c \in Paths : /\ Parent[c] \in Paths /\ upper[Parent[c]] # "absent"
                           /\ upper[Parent[c]] # "whiteout" /\ base[Parent[c]] # "none"
                           /\ ~ (IsDir(upper[Parent[c]]) /\ base[Parent[c]] = "dir")
                           /\ base[c] # "none" /\ Under(c, q)
    BY <1>2 DEF ByReplaced
  <2>2. Parent[c] \in Above[c]
    BY <2>1, AboveParent, ParentAssumption
  <2>3. base[Parent[c]] = "dir"
    BY <2>1, <2>2 DEF Layered, BaseTree
  <2>4. upper[Parent[c]] = "file"
    BY <2>1, <2>3 DEF Layered, TypeOK, IsDir
  <2>5. Parent[c] \in Above[q] /\ base[q] # "none"
    BY <2>1, <2>2, AboveAbove DEF Under
  <2> QED
    BY <2>1, <2>4, <2>5, Blocked
<1>3. CASE ByOpaque(q)
  <2>1. PICK c \in Paths : /\ Parent[c] \in Paths
                           /\ upper[Parent[c]] = "opaque" /\ base[Parent[c]] = "dir"
                           /\ base[c] # "none" /\ upper[c] = "absent" /\ Under(c, q)
    BY <1>3 DEF ByOpaque
  <2>2. Parent[c] \in Above[c] /\ c \in {q} \cup Above[q] /\ base[q] # "none"
    BY <2>1, AboveParent, ParentAssumption DEF Under
  <2>3. Parent[c] \in Above[q]
    BY <2>2, AboveAbove
  <2>4. upper[q] = "absent"
    BY <2>1, <2>2, EntriesInDirs DEF IsDir
  <2>5. ~ LowerSeen(q)
    BY <2>1, <2>3 DEF LowerSeen
  <2>6. view[q] = "none"
    BY <2>4, <2>5 DEF Layered, RestoreExact, Merged, IsDir
  <2>7. ASSUME NEW r \in {q} \cup Above[q], upper[r] = "absent", TakenForMerged(Parent[r])
        PROVE  FALSE
    <3>1. r \in Paths /\ upper[Parent[r]] = "dir"
      BY <2>7, AbovePaths DEF TakenForMerged
    <3>2. r = c \/ r \in Above[c] \/ c \in Above[r]
      BY <2>2, <2>7, AboveLinear
    <3>3. r # c
      BY <2>1, <3>1
    <3>4. r \notin Above[c]
      <4> SUFFICES ASSUME r \in Above[c] PROVE FALSE
        OBVIOUS
      <4>1. r = Parent[c] \/ r \in Above[Parent[c]]
        BY AboveStep
      <4> QED
        BY <2>1, <2>7, <4>1, EntriesInDirs DEF IsDir
    <3>5. Parent[r] \in Paths /\ (c = Parent[r] \/ c \in Above[Parent[r]])
      BY <3>1, <3>2, <3>3, <3>4, AboveStep
    <3>6. c \in Above[Parent[r]]
      BY <2>1, <3>1, <3>5
    <3> QED
      BY <2>1, <3>1, <3>5, <3>6, EntriesInDirs DEF IsDir
  <2> QED
    BY <2>2, <2>6, <2>7 DEF Lost
<1> QED
  BY <1>1, <1>2, <1>3

\* What was in the base and is gone is reported, but for what is lost.
LEMMA DeletedComplete ==
    ASSUME Layered, NEW q \in Paths, base[q] # "none", view[q] = "none", ~ Lost(q)
    PROVE  ByWhiteout(q) \/ ByOpaque(q) \/ ByReplaced(q)
<1>1. upper[q] = "whiteout" \/ (upper[q] = "absent" /\ ~ LowerSeen(q))
  BY DEF Layered, TypeOK, RestoreExact, Merged, IsDir
<1>2. CASE upper[q] = "whiteout"
  BY <1>2 DEF ByWhiteout, Under
<1>3. CASE upper[q] = "absent" /\ ~ LowerSeen(q)
  <2>1. \A t \in Above[q] : t \in Paths /\ base[t] = "dir"
    BY AbovePaths DEF Layered, BaseTree
  <2>2. PICK t \in Above[q] : upper[t] \notin {"absent", "dir"}
    BY <1>3, <2>1 DEF LowerSeen
  \* The lowest directory above q that has an entry, and the way down from there.
  <2>3. PICK r \in {q} \cup Above[q] :
               upper[r] = "absent" /\ Parent[r] # Root /\ upper[Parent[r]] # "absent"
    <3> SUFFICES ASSUME \A r \in {q} \cup Above[q] :
                          upper[r] = "absent" /\ Parent[r] # Root => upper[Parent[r]] = "absent"
                 PROVE  FALSE
      OBVIOUS
    <3> DEFINE S == {s \in Above[q] : upper[s] = "absent"}
    <3>1. S \in SUBSET Paths
      BY AbovePaths
    <3>2. \A s \in S : Parent[s] \in S \cup {Root}
      BY AboveClosed
    <3>3. Parent[q] \in S \cup {Root}
      BY <1>3, AboveParent
    <3>4. Above[q] \subseteq S
      <4> HIDE DEF S
      <4> QED
        BY <3>1, <3>2, <3>3, AboveLeast
    <3> QED
      BY <2>2, <3>4
  <2>4. r \in Paths /\ base[r] # "none" /\ Under(r, q)
    BY <2>1, <2>3 DEF Under
  <2>5. Parent[r] \in Above[q]
    BY <2>3, AboveParent, AboveClosed
  <2>6. Parent[r] \in Paths /\ base[Parent[r]] = "dir"
    BY <2>1, <2>5
  <2>7. CASE upper[Parent[r]] = "whiteout"
    BY <2>5, <2>6, <2>7 DEF ByWhiteout, Under
  <2>8. CASE upper[Parent[r]] = "file"
    BY <2>4, <2>6, <2>8 DEF ByReplaced, IsDir
  <2>9. CASE upper[Parent[r]] = "opaque"
    BY <2>3, <2>4, <2>6, <2>9 DEF ByOpaque
  <2>10. CASE upper[Parent[r]] = "dir"
    <3>1. t \in Above[r]
      <4>1. r = q \/ t = r \/ t \in Above[r] \/ r \in Above[t]
        BY <2>2, <2>3, AboveLinear
      <4>2. t # r /\ r \notin Above[t]
        BY <2>1, <2>2, <2>3, EntriesInDirs DEF IsDir
      <4> QED
        BY <2>2, <4>1, <4>2
    <3>2. t \in Above[Parent[r]]
      BY <2>2, <2>4, <2>10, <3>1, AboveStep
    <3>3. IsDir(upper[t])
      BY <2>6, <2>10, <3>2, EntriesInDirs
    <3>4. upper[t] = "opaque"
      BY <2>2, <3>3 DEF IsDir
    <3>5. TakenForMerged(Parent[r])
      BY <2>3, <2>6, <2>10, <3>2, <3>4 DEF TakenForMerged
    <3> QED
      BY <2>3, <3>5 DEF Lost
  <2> QED
    BY <2>3, <2>6, <2>7, <2>8, <2>9, <2>10 DEF Layered, TypeOK
<1> QED
  BY <1>1, <1>2, <1>3

\* The trees differ by an addition exactly where the walk reports one, and by a
\* modification likewise.
LEMMA SeenChanges ==
    ASSUME Layered, NEW q \in Paths
    PROVE  /\ (base[q] = "none" /\ view[q] # "none") <=>
                (upper[q] # "absent" /\ upper[q] # "whiteout" /\ base[q] = "none")
           /\ (\/ base[q] = "file" /\ view[q] \in {"new", "dir"}
               \/ base[q] = "dir" /\ view[q] \in {"old", "new"}) <=>
                (/\ upper[q] # "absent" /\ upper[q] # "whiteout" /\ base[q] # "none"
                 /\ ~ (IsDir(upper[q]) /\ base[q] = "dir"))
<1>1. view[q] = Merged(q)
  BY DEF Layered, RestoreExact
<1>2. /\ base[q] \in {"none", "file", "dir"}
      /\ upper[q] \in {"absent", "whiteout", "file", "dir", "opaque"}
  BY DEF Layered, TypeOK
<1> QED
  BY <1>1, <1>2 DEF Merged, IsDir

\* Which pairs are changes that are not overlooked.
LEMMA ChangesAre ==
    ASSUME NEW q \in Paths
    PROVE  /\ <<q, "Added">> \in Changes \ Overlooked <=>
                base[q] = "none" /\ view[q] # "none"
           /\ <<q, "Modified">> \in Changes \ Overlooked <=>
                (\/ base[q] = "file" /\ view[q] \in {"new", "dir"}
                 \/ base[q] = "dir" /\ view[q] \in {"old", "new"})
           /\ <<q, "Deleted">> \in Changes \ Overlooked <=>
                base[q] # "none" /\ view[q] = "none" /\ ~ Lost(q)
BY DEF Changes, Overlooked, Lost

\* Changes have one of the three kinds.
LEMMA ChangeKinds ==
    ASSUME NEW x \in Changes
    PROVE  \E q \in Paths : x \in {<<q, "Added">>, <<q, "Modified">>, <<q, "Deleted">>}
BY DEF Changes

\* DiffExact follows from the invariant.
LEMMA LayeredDiff == ASSUME Layered PROVE DiffExact
<1>1. ASSUME NEW q \in Paths
      PROVE  /\ <<q, "Added">> \in Diff <=> <<q, "Added">> \in Changes \ Overlooked
             /\ <<q, "Modified">> \in Diff <=> <<q, "Modified">> \in Changes \ Overlooked
             /\ <<q, "Deleted">> \in Diff <=> <<q, "Deleted">> \in Changes \ Overlooked
  <2>1. <<q, "Added">> \in Diff <=> <<q, "Added">> \in Changes \ Overlooked
    BY DiffAdded, ChangesAre, SeenChanges
  <2>2. <<q, "Modified">> \in Diff <=> <<q, "Modified">> \in Changes \ Overlooked
    BY DiffModified, ChangesAre, SeenChanges
  <2>3. <<q, "Deleted">> \in Diff <=> <<q, "Deleted">> \in Changes \ Overlooked
    BY DiffDeleted, ChangesAre, DeletedSound, DeletedComplete
  <2> QED
    BY <2>1, <2>2, <2>3
<1>2. ASSUME NEW x PROVE x \in Diff <=> x \in Changes \ Overlooked
  <2>1. CASE \E q \in Paths : x \in {<<q, "Added">>, <<q, "Modified">>, <<q, "Deleted">>}
    BY <1>1, <2>1
  <2>2. CASE ~ \E q \in Paths : x \in {<<q, "Added">>, <<q, "Modified">>, <<q, "Deleted">>}
    BY <2>2, DiffKinds, ChangeKinds
  <2> QED
    BY <2>1, <2>2
<1> QED
  BY <1>2 DEF DiffExact

-----------------------------------------------------------------------------
(* The theorems *)

\* In every reachable state the base, the layer and the view have their types:
\* in particular a copied layer holds no entry that overlayfs does not know.
THEOREM LayerTypes == Spec => []TypeOK
<1>1. Layered => TypeOK
  BY DEF Layered
<1> QED
  BY <1>1, LayeredAlways, PTL

\* copy_tree and overlayfs: for every tree of paths and every base, a sandbox
\* sees what its operations made, however often it was snapshotted and restored
\* between them.
THEOREM RestoresExactly == Spec => []RestoreExact
<1>1. Layered => RestoreExact
  BY DEF Layered
<1> QED
  BY <1>1, LayeredAlways, PTL

\* diff_upper: for every tree of paths and every base, the diff read off the
\* layer is the difference between the trees, but for the overlooked entries of
\* a directory made again inside an opaque one.
THEOREM DiffIsExact == Spec => []DiffExact
<1>1. Layered => DiffExact
  BY LayeredDiff
<1> QED
  BY <1>1, LayeredAlways, PTL
=============================================================================
