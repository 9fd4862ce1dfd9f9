------------------------------ MODULE AttackPaths ------------------------------
(***************************************************************************)
(* AttackPathEngine and WhatIfAnalyzer (domain/correlation/                *)
(* attack_path_engine.py): paths from entry points to sensitive assets in  *)
(* the security graph, found by a depth-first search with three limits,    *)
(* and what is left of them when nodes are taken away.  Edges were added   *)
(* in the order of GraphNodes.  What a path is called and what evidence it *)
(* carries is left out.                                                    *)
(***************************************************************************)
EXTENDS Naturals, Sequences, SequencesExt, FiniteSetsExt

CONSTANTS GraphNodes,   \* the nodes, in the order in which they were added
          GraphEdges,   \* the sets of edges that there may be
          EntryNodes,   \* entry points, and nodes of a type that is one
          PublicNodes,  \* named internet or public
          TargetNodes,  \* sensitive assets, and nodes of a type that is one
          NodeRisk,     \* node -> risk_score
          MaxDepth, MaxPaths,
          MaxResults    \* where a level of the search stops: 10

ASSUME AttackPathsAssumption ==
    /\ GraphNodes \in Seq(ToSet(GraphNodes)) /\ IsInjective(GraphNodes)
    /\ NodeRisk \in [ToSet(GraphNodes) -> Nat]
    /\ MaxDepth \in Nat \ {0} /\ MaxPaths \in Nat \ {0} /\ MaxResults \in Nat \ {0}

VARIABLES links,       \* the edges of the graph
          takenAway,   \* removed_node_ids, so far nothing
          pathsBefore, \* find_all_attack_paths of the graph
          pathsAfter   \* and of its copy without what is taken away

pathVars == <<links, takenAway, pathsBefore, pathsAfter>>

NotAsked == << <<>> >>   \* not asked for yet

Left(gone) == ToSet(GraphNodes) \ gone
HighRisk == 70

(* The entries and the targets of a graph, and what stands in when there are none. *)
Entries(gone) ==
    IF Left(gone) \cap EntryNodes # {} THEN Left(gone) \cap EntryNodes ELSE Left(gone) \cap PublicNodes
Assets(gone) ==
    IF Left(gone) \cap TargetNodes # {} THEN Left(gone) \cap TargetNodes ELSE {n \in Left(gone) : NodeRisk[n] >= HighRisk}

Neighbours(path, gone) == {n \in Left(gone) \ ToSet(path) : <<Last(path), n>> \in links}
SimplePaths == UNION {{p \in [1..k -> ToSet(GraphNodes)] : IsInjective(p)} : k \in 1..MaxDepth}

(* The limit on the results is looked at after each neighbour, so a level may return more. *)
Enough(found) == Len(found) >= MaxResults

(* The loop over the neighbours, which come in the order of GraphNodes.     *)
FoundBeyond(path, found, gone) ==
    LET results[n \in 0..Len(GraphNodes)] ==
            IF n = 0 THEN << >>
            ELSE LET sofar == results[n - 1]
                 IN IF Enough(sofar) \/ GraphNodes[n] \notin Neighbours(path, gone) THEN sofar
                    ELSE sofar \o found[Append(path, GraphNodes[n])]
    IN results[Len(GraphNodes)]

(* _dfs_find_paths: a path of MaxDepth nodes that has not come to its target is given up. *)
DfsFindPaths(target, gone) ==
    LET found[p \in SimplePaths] ==
            IF Last(p) = target THEN <<p>>
            ELSE IF Len(p) >= MaxDepth THEN << >> ELSE FoundBeyond(p, found, gone)
    IN found

(* find_all_attack_paths: the limit on the paths is looked at after each path, and ends the walk
   over those of one pair only.  Mutant: it ends the whole walk.            *)
Within(room, found) == SubSeq(found, 1, IF room < Len(found) THEN room ELSE Len(found))
UpToLimitOfAll(paths, found) == paths \o Within(MaxPaths - Len(paths), found)
UpToLimit(paths, found) == paths \o Within(IF Len(paths) < MaxPaths THEN MaxPaths - Len(paths) ELSE 1, found)

FindFrom(entry, paths, gone) ==
    LET all[n \in 0..Len(GraphNodes)] ==
            IF n = 0 THEN paths
            ELSE LET sofar == all[n - 1]
                 IN IF GraphNodes[n] \in Assets(gone) \ {entry}
                    THEN UpToLimit(sofar, DfsFindPaths(GraphNodes[n], gone)[<<entry>>]) ELSE sofar
    IN all[Len(GraphNodes)]
FindAll(gone) ==
    LET all[n \in 0..Len(GraphNodes)] ==
            IF n = 0 THEN << >>
            ELSE LET sofar == all[n - 1]
                 IN IF GraphNodes[n] \in Entries(gone) THEN FindFrom(GraphNodes[n], sofar, gone) ELSE sofar
    IN all[Len(GraphNodes)]

(* _build_attack_path: what a path weighs.                                  *)
PathRisk(p) == Min({100, Max({NodeRisk[n] : n \in ToSet(p)}) + 3 * Len(p)})
MaxRisk(paths) == IF paths = << >> THEN 0 ELSE Max({PathRisk(p) : p \in ToSet(paths)})

PathsInit == links \in GraphEdges /\ takenAway = {} /\ pathsBefore = NotAsked /\ pathsAfter = NotAsked

(* simulate_remediation, on a graph of which nothing is changed.            *)
FindBefore == pathsBefore = NotAsked /\ pathsBefore' = FindAll({}) /\ UNCHANGED <<links, takenAway, pathsAfter>>
Simulate(gone) ==
    /\ pathsBefore # NotAsked /\ pathsAfter = NotAsked
    /\ takenAway' = gone /\ pathsAfter' = FindAll(gone)
    /\ UNCHANGED <<links, pathsBefore>>

PathsNext == FindBefore \/ \E gone \in SUBSET ToSet(GraphNodes) : Simulate(gone)

PathsSpec == PathsInit /\ [][PathsNext]_pathVars

-----------------------------------------------------------------------------
(* Properties                                                               *)

PathsTypeOK ==
    /\ links \in GraphEdges /\ takenAway \subseteq ToSet(GraphNodes)
    /\ \A paths \in {pathsBefore, pathsAfter} \ {NotAsked} : IsInjective(paths) /\ ToSet(paths) \subseteq SimplePaths

\* The paths that there are, of no more nodes than the limit.
RealPaths(entry, target, gone) ==
    {p \in SimplePaths : /\ p[1] = entry /\ Last(p) = target /\ ToSet(p) \cap gone = {}
                         /\ \A i \in 1..(Len(p) - 1) : <<p[i], p[i + 1]>> \in links /\ p[i] # target}
\* Whatever the limits on results and on paths cut off, an entry point that can come to an
\* asset is told to, by a path that there is.
PairsFound(paths, gone) ==
    /\ \A e \in Entries(gone), t \in Assets(gone) :
          e # t /\ RealPaths(e, t, gone) # {} => \E p \in ToSet(paths) : p[1] = e /\ Last(p) = t
    /\ \A p \in ToSet(paths) : p \in RealPaths(p[1], Last(p), gone)
\* A limit has struck: a path that there is was not shown.
Struck == \E e \in Entries({}), t \in Assets({}) :
              ~(RealPaths(e, t, {}) \ {<<e>>} \subseteq ToSet(pathsBefore))
\* With the last entry point or asset gone, others stand in.
StandIns == \/ ~(Entries(takenAway) \subseteq Entries({}))
            \/ ~(Assets(takenAway) \subseteq Assets({}))
\* A simulated repair tells of every pair that is left.  It shows paths that were not there
\* before, or a risk that grew, only where a limit had hidden them or where, with the last
\* entry or asset gone, others stand in for it.
PathsTell ==
    /\ pathsBefore # NotAsked => PairsFound(pathsBefore, {})
    /\ pathsAfter # NotAsked =>
          /\ PairsFound(pathsAfter, takenAway)
          /\ \/ StandIns \/ Struck
             \/ ToSet(pathsAfter) \subseteq ToSet(pathsBefore) /\ MaxRisk(pathsAfter) <= MaxRisk(pathsBefore)
=============================================================================
