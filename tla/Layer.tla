------------------------------- MODULE Layer -------------------------------
(***************************************************************************)
(* A sandbox's writable layer: what commands do to it through overlayfs    *)
(* (external: the kernel), how copy_tree carries it into a snapshot and    *)
(* back, and what diff_upper reads out of it.  The layer holds deltas, not *)
(* files: whiteouts stand for deletions and opaque directories hide the    *)
(* base's.  "view" is the plain file tree that the sandbox sees, kept by   *)
(* each operation without looking at the layer, so that the layer can be   *)
(* compared with it.                                                       *)
(***************************************************************************)
EXTENDS Naturals

CONSTANTS
    Paths,    \* the paths of a small tree, without its root
    Parent,   \* Parent[p]: the directory of p, or Root
    Root

ASSUME ParentAssumption == Root \notin Paths /\ Parent \in [Paths -> Paths \cup {Root}]

VARIABLES
    base,     \* base[p]: the project directory, "none", "file" or "dir"
    upper,    \* upper[p]: the layer's entry
    view      \* view[p]: what the sandbox sees; "old" is an untouched base file

vars == <<base, upper, view>>

TypeOK ==
    /\ base \in [Paths -> {"none", "file", "dir"}]
    /\ upper \in [Paths -> {"absent", "whiteout", "file", "dir", "opaque"}]
    /\ view \in [Paths -> {"none", "old", "new", "dir"}]

\* A set of paths that has the directory of each of its paths, but for Root.
Upward(S) == \A q \in S : Parent[q] \in S \cup {Root}

\* Above[p]: the directories above p, from Parent[p] up to but without Root.
Above ==
    [p \in Paths |-> {q \in Paths : \A S \in SUBSET Paths :
                        Upward(S) /\ Parent[p] \in S \cup {Root} => q \in S}]

ASSUME TreeAssumption == \A p \in Paths : p \notin Above[p]

Below(p) == {q \in Paths : p \in Above[q]}

Children(p) == {q \in Paths : Parent[q] = p}

Init ==
    /\ base \in [Paths -> {"none", "file", "dir"}]
    /\ \A p \in Paths : base[p] # "none" => \A q \in Above[p] : base[q] = "dir"
    /\ upper = [p \in Paths |-> "absent"]
    /\ view = [p \in Paths |-> IF base[p] = "file" THEN "old" ELSE base[p]]

-----------------------------------------------------------------------------
(* overlayfs *)

\* The base's directory above p shines through: p's own base entry is looked up.
LowerSeen(p) == \A q \in Above[p] : upper[q] \in {"absent", "dir"} /\ base[q] = "dir"

ViewDir(p) == p \in Paths => view[p] = "dir"

\* Copy-up: the directories above p get an entry of their own.
CopiedUp(p) == [q \in Paths |-> IF q \in Above[p] /\ upper[q] = "absent" THEN "dir" ELSE upper[q]]

\* A file is created, or written for the first time.
WriteFile(p) ==
    /\ ViewDir(Parent[p]) /\ view[p] # "dir"
    /\ upper' = [CopiedUp(p) EXCEPT ![p] = "file"]
    /\ view' = [view EXCEPT ![p] = "new"]
    /\ UNCHANGED base

\* A new directory is opaque if it replaces a whiteout or if its parent is
\* merged with the base's; inside a directory of the layer's own it is plain.
MakeDir(p) ==
    /\ ViewDir(Parent[p]) /\ view[p] = "none"
    /\ upper' = [CopiedUp(p) EXCEPT ![p] = IF upper[p] = "whiteout" \/ LowerSeen(p)
                                             THEN "opaque" ELSE "dir"]
    /\ view' = [view EXCEPT ![p] = "dir"]
    /\ UNCHANGED base

\* unlink, or rmdir of an empty directory: what the layer held under p goes,
\* and a whiteout covers what the base has there.
Remove(p) ==
    /\ view[p] # "none" /\ \A q \in Children(p) : view[q] = "none"
    /\ upper' = [q \in Paths |->
                   IF q = p THEN IF LowerSeen(p) /\ base[p] # "none" THEN "whiteout"
                                                                     ELSE "absent"
                   ELSE IF q \in Below(p) THEN "absent" ELSE CopiedUp(p)[q]]
    /\ view' = [view EXCEPT ![p] = "none"]
    /\ UNCHANGED base

\* chmod of a directory copies it up and changes nothing in it.
TouchDir(p) ==
    /\ view[p] = "dir" /\ upper[p] = "absent"
    /\ upper' = [CopiedUp(p) EXCEPT ![p] = "dir"]
    /\ UNCHANGED <<base, view>>

-----------------------------------------------------------------------------
(* copy_tree, into a snapshot and from there into a new sandbox's layer *)

\* Mutant: a device node is recreated with another device number.
CopyEntryDevice(e) == IF e = "whiteout" THEN "device" ELSE e

\* Mutant: an xattr that cannot be set is skipped, whatever its name.
CopyXattrsSkipped(src, dst) == dst

\* copy_xattrs_fd: the copy of an opaque directory is opaque; the loss of that
\* xattr, unlike others, is an error of the whole copy.
CopyXattrs(src, dst) == IF src = "opaque" THEN "opaque" ELSE dst

\* copy_dir: mkdirat and then the xattrs; regular files with their contents;
\* device nodes, which is what a whiteout is, by mknodat.
CopyEntry(e) ==
    CASE e \in {"dir", "opaque"} -> CopyXattrs(e, "dir")
      [] e = "file"              -> "file"
      [] e = "whiteout"          -> "whiteout"
      [] OTHER                   -> "absent"

\* A snapshot of the frozen sandbox, restored: the new sandbox starts with a
\* copy of a copy of the layer over the same base.
SnapshotRestore ==
    /\ upper' = [p \in Paths |-> CopyEntry(CopyEntry(upper[p]))]
    /\ UNCHANGED <<base, view>>

-----------------------------------------------------------------------------
(* diff_upper *)

IsDir(e) == e \in {"dir", "opaque"}

\* Mutant: a deleted directory is reported, what was in it is not.
PushDeletedAlone(p) == {<<p, "Deleted">>}

\* push_deleted: a base path and everything under it.
PushDeleted(p) ==
    {<<q, "Deleted">> : q \in {p} \cup {r \in Below(p) : base[r] # "none"}}

\* report_shadowed: what an opaque directory hides without an entry for it.
ReportShadowed(p) ==
    UNION {PushDeleted(q) : q \in {r \in Children(p) :
                                     base[r] # "none" /\ upper[r] = "absent"}}

\* One entry of the layer, in the walk.
WalkEntry(p) ==
    CASE upper[p] = "whiteout" -> IF base[p] = "none" THEN {} ELSE PushDeleted(p)
      [] IsDir(upper[p]) /\ base[p] = "dir" ->
           IF upper[p] = "opaque" THEN ReportShadowed(p) ELSE {}
      [] upper[p] # "whiteout" /\ base[p] = "none" -> {<<p, "Added">>}
      [] OTHER ->
           \* The type or the contents changed; a base directory takes its
           \* entries with it.
           {<<p, "Modified">>} \cup
             UNION {PushDeleted(q) : q \in {r \in Children(p) : base[r] # "none"}}

\* The walk descends into every directory of the layer; order is left to the sort.
Diff == UNION {WalkEntry(p) : p \in {q \in Paths : upper[q] # "absent"}}

Next ==
    \/ \E p \in Paths : WriteFile(p) \/ MakeDir(p) \/ Remove(p) \/ TouchDir(p)
    \/ SnapshotRestore

Spec == Init /\ [][Next]_vars

-----------------------------------------------------------------------------
(* Properties *)

\* What overlayfs shows for the layer over the base.
Merged(p) ==
    CASE upper[p] = "file"  -> "new"
      [] IsDir(upper[p])    -> "dir"
      [] upper[p] = "absent" /\ LowerSeen(p) -> IF base[p] = "file" THEN "old" ELSE base[p]
      [] OTHER              -> "none"

\* copy_tree: "Files come back exactly as captured": however often a sandbox
\* is snapshotted and restored between its changes, it sees the files that it
\* would see without; and the layer has no entry outside a directory of its own.
RestoreExact ==
    \A p \in Paths :
        /\ view[p] = Merged(p)
        /\ upper[p] # "absent" /\ Parent[p] # Root => IsDir(upper[Parent[p]])

\* The difference between the base and the files that the sandbox sees.
Changes ==
    {<<p, "Added">> : p \in {q \in Paths : base[q] = "none" /\ view[q] # "none"}}
    \cup {<<p, "Deleted">> : p \in {q \in Paths : base[q] # "none" /\ view[q] = "none"}}
    \cup {<<p, "Modified">> : p \in {q \in Paths :
            \/ base[q] = "file" /\ view[q] \in {"new", "dir"}
            \/ base[q] = "dir" /\ view[q] \in {"old", "new"}}}

\* A plain directory of the layer, inside an opaque one, over one of the base's:
\* the walk takes it for merged.
TakenForMerged(d) ==
    d # Root /\ upper[d] = "dir" /\ base[d] = "dir" /\ \E q \in Above[d] : upper[q] = "opaque"

Overlooked ==
    {<<p, "Deleted">> : p \in {q \in Paths :
        /\ base[q] # "none" /\ view[q] = "none"
        /\ \E r \in {q} \cup Above[q] : upper[r] = "absent" /\ TakenForMerged(Parent[r])}}

\* diff_upper: the diff that is read off the layer's entries is the difference
\* between the trees, less one case: base entries that are gone because an
\* opaque directory was made again with the same subdirectory in it.
DiffExact == Diff = Changes \ Overlooked
=============================================================================
