------------------------------ MODULE DiffClass -------------------------------
(***************************************************************************)
(* How much of a job a plan changes (src/internal/nomad/classify.go).      *)
(*                                                                         *)
(* A plan diff is the set of its changed leaves: the fields of Type Added, *)
(* Deleted or Edited, and each group or task added or deleted as a whole   *)
(* (Whole).  A leaf says where it is: the job, one of its groups or a task *)
(* of it, and the names of the objects around it, outermost first.         *)
(***************************************************************************)
EXTENDS Naturals, Sequences

CONSTANTS
    MaxPlanDiffObjectDepth,  \* objects nested deeper are not looked into
    ImageFields,             \* "image", in any spelling strings.EqualFold takes
    OwnKeys,                 \* meta keys under the managed prefix,
    WrappedOwnKeys,          \* and those keys as "Meta[key]"
    Whole

DiffLeaf(groups) ==
    [level : {"job", "group", "task"}, group : groups, path : Seq(STRING), name : STRING]

ObjectOf(leaf) == IF leaf.path = <<>> THEN "" ELSE leaf.path[Len(leaf.path)]

\* Count and Scaling of an autoscaled group are the autoscaler's, not Git's.
AutoscalerOwned(leaf, autoscaled) ==
    /\ leaf.level = "group" /\ leaf.group \in autoscaled
    /\ \/ leaf.path = <<>> /\ leaf.name = "Count"
       \/ leaf.path # <<>> /\ leaf.path[1] = "Scaling"

\* The subtree of an object nested too deep counts as a change nobody looked at.
Unexamined(leaf) == Len(leaf.path) > MaxPlanDiffObjectDepth

IsImage(leaf) ==
    ~Unexamined(leaf) /\ ObjectOf(leaf) = "Config" /\ leaf.name \in ImageFields

\* isManagedMetaName.
IsManagedMeta(leaf) ==
    /\ ~Unexamined(leaf)
    /\ \/ leaf.name \in WrappedOwnKeys
       \/ ObjectOf(leaf) = "Meta" /\ leaf.name \in OwnKeys

ClassifyDiffByImage(diff, autoscaled) == \* mutant: an image change decides
    LET gitOwned == {leaf \in diff : ~AutoscalerOwned(leaf, autoscaled)}
    IN  IF gitOwned = {} THEN "none"
        ELSE IF \E leaf \in gitOwned : IsImage(leaf) THEN "image-only"
        ELSE IF \A leaf \in gitOwned : IsManagedMeta(leaf) THEN "managed-meta-only"
        ELSE "other"

\* classifyDiff with addFields, addObject and addObjects: one other change
\* makes it "other", one image change beside own meta keys "image-only".
ClassifyDiff(diff, autoscaled) ==
    LET gitOwned == {leaf \in diff : ~AutoscalerOwned(leaf, autoscaled)}
    IN  IF gitOwned = {} THEN "none"
        ELSE IF \E leaf \in gitOwned : ~IsImage(leaf) /\ ~IsManagedMeta(leaf) THEN "other"
        ELSE IF \E leaf \in gitOwned : IsImage(leaf) THEN "image-only"
        ELSE "managed-meta-only"
===============================================================================
