---------------------------- MODULE MCArtifactTasks ----------------------------
(***************************************************************************)
(* Instances of ArtifactTasks for TLC: one worker, as docker-compose.yml   *)
(* starts it, and the recovery runner of runtime-api.                      *)
(***************************************************************************)
EXTENDS ArtifactTasks

CONSTANTS w1, api, nobody

OneWorker == {w1}

Only(kinds) == [k \in Kinds |-> IF k \in kinds THEN 1 ELSE 0]

FaultsLimit == Only(Kinds)
AnswersLimit == Only({"crash", "cancel", "answer", "pause"})

\* Any three of them meet in one behaviour.
AtMostThree == Cardinality({k \in Kinds : used[k] > 0}) <= 3
=============================================================================
