------------------------------ MODULE PathTree ------------------------------
(***************************************************************************)
(* What the generator's tree promises: a file system's name space, as the  *)
(* commands of a test case change it when every one of them succeeds.      *)
(* files maps each path to the jnode found there; hard links are two paths *)
(* with one jnode.  No edges, no parents, no order: only paths.            *)
(***************************************************************************)
EXTENDS Integers, SequencesExt

CONSTANTS Inode, Name, RootInode

VARIABLES
  files,   \* path -> jnode, on the set of the paths that exist
  kind     \* jnode -> its type, "UNUSED" before it is created

ptVars == <<files, kind>>

Paths == DOMAIN files
IsDir(p) == p \in Paths /\ kind[files[p]] = "DIR"
At(p) == {q \in Paths : IsPrefix(p, q)}
IsEmptyDir(p) == IsDir(p) /\ At(p) = {p}

\* A new jnode of kind k at p.
Make(p, i, k) ==
  /\ IsDir(Front(p)) /\ p \notin Paths
  /\ kind[i] = "UNUSED"
  /\ kind' = [kind EXCEPT ![i] = k]
  /\ files' = [q \in Paths \cup {p} |-> IF q = p THEN i ELSE files[q]]

\* A second path to the file at old.
HardLink(p, old) ==
  /\ IsDir(Front(p)) /\ p \notin Paths
  /\ old \in Paths /\ kind[files[old]] = "FILE"
  /\ files' = [q \in Paths \cup {p} |-> IF q = p THEN files[old] ELSE files[q]]
  /\ UNCHANGED kind

\* The path and all that lies below it go.
RemoveTree(p) ==
  /\ p # << >> /\ p \in Paths
  /\ files' = [q \in Paths \ At(p) |-> files[q]]
  /\ UNCHANGED kind

\* All that lies below the directory goes, the directory stays.
EmptyDir(p) ==
  /\ IsDir(p)
  /\ files' = [q \in (Paths \ At(p)) \cup {p} |-> files[q]]
  /\ UNCHANGED kind

\* rename(2): new is free, or an empty directory that a directory replaces; all
\* that lies below old moves along, and nothing else changes.
MovePath(old, new) ==
  /\ old # << >> /\ old \in Paths /\ IsDir(Front(new))
  /\ ~IsPrefix(old, new)
  /\ new \in Paths => IsEmptyDir(new) /\ IsDir(old)
  /\ LET stay == Paths \ (At(old) \cup {new})
         below(q) == old \o SubSeq(q, Len(new) + 1, Len(q))
         moved == {new \o SubSeq(q, Len(old) + 1, Len(q)) : q \in At(old)}
     IN  files' = [q \in stay \cup moved |->
                     IF q \in moved THEN files[below(q)] ELSE files[q]]
  /\ UNCHANGED kind

Init ==
  /\ files = [p \in {<< >>} |-> RootInode]
  /\ kind = [i \in Inode |-> IF i = RootInode THEN "DIR" ELSE "UNUSED"]

Next ==
  \/ \E d \in {p \in Paths : IsDir(p)}, nm \in Name :
       \/ \E i \in Inode, k \in {"DIR", "FILE", "SYMLINK", "SPECIAL"} :
            Make(Append(d, nm), i, k)
       \/ \E old \in Paths : HardLink(Append(d, nm), old) \/ MovePath(old, Append(d, nm))
  \/ \E p \in Paths : RemoveTree(p) \/ EmptyDir(p)

Spec == Init /\ [][Next]_ptVars
=============================================================================
