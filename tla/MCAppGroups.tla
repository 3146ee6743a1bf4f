----------------------------- MODULE MCAppGroups -----------------------------
(* A package, a package it contains, an application that somebody made with *)
(* kubectl, and a helm chart that a job installs.                           *)
EXTENDS AppGroups

CONSTANTS pack, part, hand, chart, packWeb, partWeb, handWeb, chartWeb, chartJob

MCGroupOf == [w \in Workload |-> CASE w = packWeb -> pack [] w = partWeb -> part
                                   [] w = handWeb -> hand
                                   [] OTHER -> chart]
MCParentOf == [g \in Group |-> IF g = part THEN pack ELSE g]
MCKind == [g \in Group |-> CASE g \in {pack, part} -> "zpk" [] g = hand -> "custom"
                              [] OTHER -> "helm"]
MCScenes == {[groups |-> Group, moves |-> 1], [groups |-> {pack}, moves |-> 2],
             [groups |-> {part}, moves |-> 2], [groups |-> {hand}, moves |-> 2]}
=============================================================================
