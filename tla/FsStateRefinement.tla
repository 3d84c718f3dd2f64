-------------------------- MODULE FsStateRefinement --------------------------
(***************************************************************************)
(* The generator's tree implements PathTree: the paths that lead somewhere *)
(* along children_, with the jnodes they lead to, change as the name space *)
(* of a file system does.                                                  *)
(***************************************************************************)
EXTENDS FsState

\* The paths that exist below the root
LivePaths ==
  LET under[n \in Node] ==
        {<< >>} \cup UNION {{<<children_[n][i].name>> \o p :
                               p \in under[children_[n][i].node]} :
                            i \in DOMAIN children_[n]}
  IN  under[Root]

\* Refinement mapping
Files == [p \in LivePaths |-> Walk(children_, p)]

NameSpace == INSTANCE PathTree WITH
  Inode <- Node, RootInode <- Root, Name <- 1..MaxName,
  files <- Files, kind <- type_

\* Every command changes the tree as one operation on the name space does, or
\* leaves it alone: what _move_node, _del_subtree and _add_node do edge by edge
\* is one step on paths.
ImplementsPathTree == NameSpace!Spec
=============================================================================
