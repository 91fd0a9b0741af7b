------------------------------- MODULE MCFat32 -------------------------------
(***************************************************************************)
(* A disk for TLC: the root directory in cluster 2, a directory in         *)
(* cluster 3, and files of no byte and no cluster, of one whole sector     *)
(* whose bytes look like a directory, and of three sectors whose clusters  *)
(* are out of order and in two sectors of the FAT.                         *)
(***************************************************************************)
EXTENDS Fat32, TLC

MCClusters == 2 .. 8
MCFat == [c \in MCClusters |-> CASE c = 7 -> 4 [] c = 4 -> 6 [] OTHER -> 0]

AFile(name, cluster, size) ==
  [name |-> name, dated |-> TRUE, directory |-> FALSE,
   cluster |-> cluster, size |-> size]

ADirectory(name, cluster) ==
  [AFile(name, cluster, 0) EXCEPT !.directory = TRUE]

Undated == [AFile("undated", 5, 1) EXCEPT !.dated = FALSE]

MCDirectory ==
  2 :> <<AFile("empty", 0, 0), ADirectory("dir", 3), AFile("long", 7, 5), Undated,
         AFile("hidden", 5, 1)>>
  @@ 3 :> <<AFile("even", 5, 2), Undated>>
  @@ 5 :> <<AFile("inner", 4, 1), Undated>>

MCPaths == {<<"empty">>, <<"long">>, <<"dir", "even">>, <<"dir">>, <<"hidden">>,
            <<"none", "even">>, <<"dir", "even", "inner">>}
=============================================================================
