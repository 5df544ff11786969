---------------------------- MODULE UnloggedBuild ----------------------------
(***************************************************************************)
(* The unlogged-build controller of pagestore_smgr.c: the static          *)
(* unlogged_build_phase and unlogged_build_rel, the three smgr hooks an    *)
(* index access method calls around a two-phase build                      *)
(* (neon_start_unlogged_build, neon_finish_unlogged_build_phase_1,         *)
(* neon_end_unlogged_build) and the transaction callback AtEOXact_neon.    *)
(*                                                                         *)
(* The environment is the transaction machinery of the backend: top-level  *)
(* transactions with nested savepoints, relations created in them (and     *)
(* dropped by the pending-delete machinery when the level that created     *)
(* them aborts), ERRORs, and an index build that calls the three hooks in  *)
(* order within one statement.                                             *)
(***************************************************************************)
EXTENDS Integers

CONSTANTS
  PermRels,    \* relations created RELPERSISTENCE_PERMANENT
  LocalRels,   \* relations created TEMP or UNLOGGED
  NoRel,       \* unlogged_build_rel = NULL
  MaxDepth,    \* deepest transaction nesting level (1: no savepoints)
  BuildDepth   \* deepest nesting level at which an index build runs

ASSUME RelAssumption == PermRels \cap LocalRels = {} /\ NoRel \notin PermRels \cup LocalRels
ASSUME DepthAssumption == MaxDepth \in Nat \ {0} /\ BuildDepth \in 1 .. MaxDepth

Rels == PermRels \cup LocalRels

VARIABLES
  phase,        \* unlogged_build_phase
  buildRel,     \* unlogged_build_rel
  persistence,  \* persistence[r]: smgr_relpersistence of r's SMgrRelation
  local,        \* local[r]: r has a local (md) file
  empty,        \* empty[r]: smgrnblocks(r, MAIN_FORKNUM) = 0
  level,        \* level[r]: nesting level that created r, 0 if committed, -1 if none
  depth,        \* current transaction nesting level, 0 outside a transaction
  failed,       \* an ERROR was raised and the current level must abort
  caller,       \* the index build's progress: "none", "started", "finished"
  callerRel     \* the relation the index build is building

vars == <<phase, buildRel, persistence, local, empty, level, depth, failed,
          caller, callerRel>>

(* UnloggedBuildPhase *)
Phases == {"NOT_IN_PROGRESS", "PHASE_1", "PHASE_2", "NOT_PERMANENT"}

(* The persistence a relation is created with. *)
Persist(r) == IF r \in PermRels THEN "p" ELSE "u"

(* The relation exists. *)
Live(r) == level[r] # -1

Init ==
  /\ phase = "NOT_IN_PROGRESS"
  /\ buildRel = NoRel
  /\ persistence = [r \in Rels |-> Persist(r)]
  /\ local = [r \in Rels |-> FALSE]
  /\ empty = [r \in Rels |-> TRUE]
  /\ level = [r \in Rels |-> -1]
  /\ depth = 0
  /\ failed = FALSE
  /\ caller = "none"
  /\ callerRel = NoRel

(* Reset of the build state, as AtEOXact_neon and the end hook do it. *)
Reset == phase' = "NOT_IN_PROGRESS" /\ buildRel' = NoRel

-----------------------------------------------------------------------------
(* The three hooks, called by the index build.                            *)

(* neon_start_unlogged_build(r): an ERROR if a build is in progress; a    *)
(* temp or unlogged relation is only recorded; a permanent one must be    *)
(* empty, impersonates an unlogged relation and gets a local file.        *)
StartBuild(r) ==
  /\ depth \in 1 .. BuildDepth /\ ~failed /\ caller = "none" /\ level[r] > 0
  /\ \/ /\ phase # "NOT_IN_PROGRESS"
        /\ failed' = TRUE
        /\ UNCHANGED <<phase, buildRel, persistence, local, caller, callerRel>>
     \/ /\ phase = "NOT_IN_PROGRESS"
        /\ persistence[r] \in {"u", "t"}
        /\ buildRel' = r /\ phase' = "NOT_PERMANENT"
        /\ caller' = "started" /\ callerRel' = r
        /\ UNCHANGED <<persistence, local, failed>>
     \/ /\ phase = "NOT_IN_PROGRESS"
        /\ persistence[r] \notin {"u", "t"}
        /\ ~empty[r]
        /\ failed' = TRUE
        /\ UNCHANGED <<phase, buildRel, persistence, local, caller, callerRel>>
     \/ /\ phase = "NOT_IN_PROGRESS"
        /\ persistence[r] \notin {"u", "t"}
        /\ empty[r]
        /\ buildRel' = r /\ phase' = "PHASE_1"
        /\ persistence' = [persistence EXCEPT ![r] = "u"]
        /\ local' = [local EXCEPT ![r] = TRUE]
        /\ caller' = "started" /\ callerRel' = r
        /\ UNCHANGED failed
  /\ UNCHANGED <<empty, level, depth>>

(* neon_finish_unlogged_build_phase_1(r) *)
FinishPhase1 ==
  /\ caller = "started" /\ ~failed
  /\ phase' = IF phase = "NOT_PERMANENT" THEN phase ELSE "PHASE_2"
  /\ caller' = "finished"
  /\ UNCHANGED <<buildRel, persistence, local, empty, level, depth, failed, callerRel>>

(* Mutant: the end hook unlinks the local copy but leaves the relation   *)
(* looking unlogged.                                                      *)
EndKeepsUnlogged ==
  /\ caller = "finished" /\ ~failed
  /\ IF phase # "NOT_PERMANENT"
     THEN /\ local' = [local EXCEPT ![buildRel] = FALSE]
          /\ UNCHANGED persistence
     ELSE UNCHANGED <<persistence, local>>
  /\ Reset
  /\ caller' = "none" /\ callerRel' = NoRel
  /\ UNCHANGED <<empty, level, depth, failed>>

(* neon_end_unlogged_build(r): a permanent relation is made permanent     *)
(* again and its local copy unlinked; the build state is reset.           *)
EndBuild ==
  /\ caller = "finished" /\ ~failed
  /\ IF phase # "NOT_PERMANENT"
     THEN /\ persistence' = [persistence EXCEPT ![buildRel] = "p"]
          /\ local' = [local EXCEPT ![buildRel] = FALSE]
     ELSE UNCHANGED <<persistence, local>>
  /\ Reset
  /\ caller' = "none" /\ callerRel' = NoRel
  /\ UNCHANGED <<empty, level, depth, failed>>

-----------------------------------------------------------------------------
(* AtEOXact_neon, the top-level transaction callback.                     *)

(* XACT_EVENT_PRE_COMMIT: a build still in progress is reset and raises   *)
(* an ERROR (the transaction then aborts); otherwise the commit goes on   *)
(* and the relations it created become committed.                         *)
Commit ==
  /\ depth = 1 /\ ~failed /\ caller = "none"
  /\ Reset
  /\ IF phase # "NOT_IN_PROGRESS"
     THEN failed' = TRUE /\ UNCHANGED <<level, depth>>
     ELSE /\ level' = [r \in Rels |-> IF level[r] > 0 THEN 0 ELSE level[r]]
          /\ depth' = 0
          /\ UNCHANGED failed
  /\ UNCHANGED <<persistence, local, empty, caller, callerRel>>

(* XACT_EVENT_ABORT: the build state is reset; the relations created in   *)
(* the transaction are dropped with their files by smgrDoPendingDeletes.  *)
Abort ==
  /\ depth > 0
  /\ Reset
  /\ LET gone == {r \in Rels : level[r] > 0}
     IN  /\ level' = [r \in Rels |-> IF r \in gone THEN -1 ELSE level[r]]
         /\ persistence' = [r \in Rels |-> IF r \in gone THEN Persist(r) ELSE persistence[r]]
         /\ local' = [r \in Rels |-> IF r \in gone THEN FALSE ELSE local[r]]
         /\ empty' = [r \in Rels |-> IF r \in gone THEN TRUE ELSE empty[r]]
  /\ depth' = 0 /\ failed' = FALSE
  /\ caller' = "none" /\ callerRel' = NoRel

-----------------------------------------------------------------------------
(* The environment: transactions, savepoints, relations, ERRORs.          *)

Begin ==
  /\ depth = 0
  /\ depth' = 1
  /\ UNCHANGED <<phase, buildRel, persistence, local, empty, level, failed, caller, callerRel>>

(* SAVEPOINT, between statements. *)
Savepoint ==
  /\ 0 < depth /\ depth < MaxDepth /\ ~failed /\ caller = "none"
  /\ depth' = depth + 1
  /\ UNCHANGED <<phase, buildRel, persistence, local, empty, level, failed, caller, callerRel>>

(* RELEASE SAVEPOINT: relations created at this level move to the parent. *)
Release ==
  /\ depth > 1 /\ ~failed /\ caller = "none"
  /\ depth' = depth - 1
  /\ level' = [r \in Rels |-> IF level[r] = depth THEN depth - 1 ELSE level[r]]
  /\ UNCHANGED <<phase, buildRel, persistence, local, empty, failed, caller, callerRel>>

(* ROLLBACK TO SAVEPOINT: the statement in progress (an index build        *)
(* included) is abandoned and the relations created at this level are     *)
(* dropped.  No subtransaction callback is registered, so the build state  *)
(* is left as it is.                                                      *)
RollbackTo ==
  /\ depth > 1
  /\ LET gone == {r \in Rels : level[r] = depth}
     IN  /\ level' = [r \in Rels |-> IF r \in gone THEN -1 ELSE level[r]]
         /\ persistence' = [r \in Rels |-> IF r \in gone THEN Persist(r) ELSE persistence[r]]
         /\ local' = [r \in Rels |-> IF r \in gone THEN FALSE ELSE local[r]]
         /\ empty' = [r \in Rels |-> IF r \in gone THEN TRUE ELSE empty[r]]
  /\ depth' = depth - 1 /\ failed' = FALSE
  /\ caller' = "none" /\ callerRel' = NoRel
  /\ UNCHANGED <<phase, buildRel>>

(* CREATE INDEX / CREATE TABLE: a new relation at the current level.       *)
(* Temp and unlogged relations get their local file at creation.          *)
Create(r) ==
  /\ depth > 0 /\ ~failed /\ caller = "none" /\ ~Live(r)
  /\ level' = [level EXCEPT ![r] = depth]
  /\ local' = [local EXCEPT ![r] = r \in LocalRels]
  /\ UNCHANGED <<phase, buildRel, persistence, empty, depth, failed, caller, callerRel>>

(* The relation is extended (by the index build or any other statement).  *)
Extend(r) ==
  /\ depth > 0 /\ ~failed /\ Live(r)
  /\ empty' = [empty EXCEPT ![r] = FALSE]
  /\ UNCHANGED <<phase, buildRel, persistence, local, level, depth, failed, caller, callerRel>>

(* Any ERROR: the statement, an index build included, stops.              *)
Error ==
  /\ depth > 0 /\ ~failed
  /\ failed' = TRUE
  /\ UNCHANGED <<phase, buildRel, persistence, local, empty, level, depth, caller, callerRel>>

Next ==
  \/ \E r \in Rels : StartBuild(r) \/ Create(r) \/ Extend(r)
  \/ FinishPhase1 \/ EndBuild
  \/ Commit \/ Abort
  \/ Begin \/ Savepoint \/ Release \/ RollbackTo \/ Error

Spec == Init /\ [][Next]_vars

-----------------------------------------------------------------------------
(* Properties *)

TypeOK ==
  /\ phase \in Phases
  /\ buildRel \in Rels \cup {NoRel}
  /\ persistence \in [Rels -> {"p", "u", "t"}]
  /\ local \in [Rels -> BOOLEAN]
  /\ empty \in [Rels -> BOOLEAN]
  /\ level \in [Rels -> -1 .. MaxDepth]
  /\ depth \in 0 .. MaxDepth
  /\ failed \in BOOLEAN
  /\ caller \in {"none", "started", "finished"}
  /\ callerRel \in Rels \cup {NoRel}

(* The static build state always describes the index build that is        *)
(* running: a build is in progress exactly while an index build is         *)
(* between its start and end hooks, on that build's relation, which        *)
(* exists; a permanent relation impersonates an unlogged one (and has a    *)
(* local file) exactly while it is in phase 1 or 2 of the build.  So the   *)
(* Asserts of the finish and end hooks hold, neon_start_unlogged_build     *)
(* never refuses a build for one that is over, and AtEOXact_neon never    *)
(* fails a commit.                                                        *)
BuildCoherent ==
  /\ (phase = "NOT_IN_PROGRESS") <=> (caller = "none")
  /\ phase # "NOT_IN_PROGRESS" =>
        /\ buildRel = callerRel /\ Live(buildRel)
        /\ (phase = "NOT_PERMANENT") <=> (buildRel \in LocalRels)
  /\ caller = "started" => phase \in {"PHASE_1", "NOT_PERMANENT"}
  /\ caller = "finished" => phase \in {"PHASE_2", "NOT_PERMANENT"}
  /\ \A r \in PermRels :
        (Live(r) /\ persistence[r] = "u") <=> (r = buildRel /\ phase \in {"PHASE_1", "PHASE_2"})
  /\ \A r \in PermRels : local[r] => persistence[r] = "u"

=============================================================================
