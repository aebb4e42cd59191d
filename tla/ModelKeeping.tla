---------------------------- MODULE ModelKeeping ----------------------------
(***************************************************************************)
(* How what the cache predictor has learned outlives the process           *)
(* (maintenance.rs): restored from the table ai_model at startup, saved by *)
(* a timer, and saved by every backup.  A model is the number of requests  *)
(* in its outcomes; 0 is a model that has learned nothing, or none stored. *)
(***************************************************************************)
EXTENDS Integers

CONSTANT MaxLearned               \* bound: requests counted

ASSUME KeepingAssumption == MaxLearned \in Nat

VARIABLES
    restoring,  \* how far restore_model has come at startup: get, apply, done
    fetched,    \* what its get returned
    learned, stored,
    saves,      \* saves under way, by the timer and by a backup: their snapshot, and
                \* (history) whether it was taken of a model that goes on from the stored
                \* one, and no other save ended since
    goesOn      \* history: what is learned goes on from what is stored
keepingVars == <<restoring, fetched, learned, stored, saves, goesOn>>

Savers == {"timer", "backup"}
NoSave == [model |-> -1, sound |-> FALSE]

Learn ==
    /\ learned < MaxLearned /\ learned' = learned + 1
    /\ UNCHANGED <<restoring, fetched, stored, saves, goesOn>>

\* An error, or a text that cannot be read, ends it, and the timer starts all the same.
FetchModel ==
    /\ restoring = "get"
    /\ \/ restoring' = "apply" /\ fetched' = stored
       \/ restoring' = "done" /\ UNCHANGED fetched
    /\ UNCHANGED <<learned, stored, saves, goesOn>>

RestoreNothing ==                                        \* mutant
    /\ restoring = "apply" /\ restoring' = "done"
    /\ goesOn' = (stored = fetched)
    /\ UNCHANGED <<fetched, learned, stored, saves>>
\* What was learned since the start is replaced by what was stored at the get, if
\* anything was.
RestoreModel ==
    /\ restoring = "apply" /\ restoring' = "done"
    /\ learned' \in {fetched} \cup (IF fetched = 0 THEN {learned} ELSE {})
    /\ goesOn' = (stored = fetched)
    /\ UNCHANGED <<fetched, stored, saves>>

\* The timer's first save is a period after the restore; a backup waits for nothing.
TakeSnapshot(s) ==
    /\ saves[s] = NoSave
    /\ s = "timer" => restoring = "done"
    /\ saves' = [saves EXCEPT ![s] = [model |-> learned, sound |-> goesOn]]
    /\ UNCHANGED <<restoring, fetched, learned, stored, goesOn>>

SaveModel(s) ==
    /\ saves[s] # NoSave
    /\ \/ /\ stored' = saves[s].model
          /\ goesOn' = (goesOn /\ saves[s].sound)
          /\ saves' = [t \in Savers |-> IF t = s \/ saves[t] = NoSave THEN NoSave
                                        ELSE [saves[t] EXCEPT !.sound = FALSE]]
       \/ UNCHANGED <<stored, goesOn>> /\ saves' = [saves EXCEPT ![s] = NoSave]
    /\ UNCHANGED <<restoring, fetched, learned>>

RouterRestarts ==
    /\ restoring' = "get" /\ fetched' = 0 /\ learned' = 0
    /\ saves' = [s \in Savers |-> NoSave]
    /\ goesOn' = FALSE /\ UNCHANGED stored

KeepingInit ==
    /\ restoring = "get" /\ fetched = 0 /\ learned = 0 /\ stored = 0 /\ goesOn = FALSE
    /\ saves = [s \in Savers |-> NoSave]

KeepingNext ==
    \/ Learn \/ FetchModel \/ RestoreModel \/ RouterRestarts
    \/ \E s \in Savers : TakeSnapshot(s) \/ SaveModel(s)

KeepingSpec == KeepingInit /\ [][KeepingNext]_keepingVars
-----------------------------------------------------------------------------
KeepingTypeOK ==
    /\ restoring \in {"get", "apply", "done"} /\ goesOn \in BOOLEAN
    /\ {fetched, learned, stored} \subseteq 0 .. MaxLearned
    /\ saves \in [Savers -> [model : -1 .. MaxLearned, sound : BOOLEAN]]

\* However restarts, failed saves and backups interleave: a save whose snapshot was
\* taken after the stored model was restored, and that no other save has overtaken,
\* never puts back a model that has learned less.
SoundSaveKeepsLearning ==
    [][(\E s \in Savers : saves[s].sound /\ SaveModel(s)) => stored' >= stored]_keepingVars
=============================================================================
