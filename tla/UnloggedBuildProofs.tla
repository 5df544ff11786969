------------------------- MODULE UnloggedBuildProofs -------------------------
(***************************************************************************)
(* Proofs about the unlogged-build controller: the type invariant, and     *)
(* that, as long as index builds run at the top level of a transaction,    *)
(* the static build state of pagestore_smgr.c always describes the build   *)
(* in progress (BuildCoherent), for every set of relations and every       *)
(* savepoint depth.                                                        *)
(***************************************************************************)
EXTENDS UnloggedBuild, TLAPS

(* TypeOK split into the part about numbers, strings and relations, which *)
(* the SMT backend proves, and the Boolean-valued variables, for Zenon.    *)
TypeData ==
  /\ phase \in Phases
  /\ buildRel \in Rels \cup {NoRel}
  /\ persistence \in [Rels -> {"p", "u", "t"}]
  /\ level \in [Rels -> -1 .. MaxDepth]
  /\ depth \in 0 .. MaxDepth
  /\ caller \in {"none", "started", "finished"}
  /\ callerRel \in Rels \cup {NoRel}
TypeFlags ==
  /\ local \in [Rels -> BOOLEAN]
  /\ empty \in [Rels -> BOOLEAN]
  /\ failed \in BOOLEAN

(* The initial state is well typed. *)
LEMMA TypeInit == Init => TypeOK
<1>1. Init => depth \in 0 .. MaxDepth /\ level \in [Rels -> -1 .. MaxDepth]
  BY DepthAssumption DEF Init
<1>2. Init => TypeOK!1 /\ TypeOK!2 /\ TypeOK!3 /\ TypeOK!4 /\ TypeOK!5 /\ TypeOK!8 /\ TypeOK!9 /\ TypeOK!10
  BY DEF Init, Phases, Persist
<1>3. QED
  BY <1>1, <1>2 DEF TypeOK

(* Every action keeps the variables in their types. *)
LEMMA TypeStep == TypeOK /\ [Next]_vars => TypeOK'
<1> SUFFICES ASSUME TypeOK, [Next]_vars PROVE TypeOK'
  OBVIOUS
<1> USE RelAssumption, DepthAssumption DEF TypeOK, Phases, Rels, Persist, Live
<1>1. ASSUME NEW r \in Rels, StartBuild(r) PROVE TypeOK'
  <2>0. UNCHANGED <<empty, level, depth>>
    BY <1>1 DEF StartBuild
  <2>1. CASE /\ buildRel' = r /\ phase' = "NOT_PERMANENT"
             /\ caller' = "started" /\ callerRel' = r
             /\ UNCHANGED <<persistence, local, failed>>
    BY <2>0, <2>1
  <2>2. CASE /\ failed' = TRUE
             /\ UNCHANGED <<phase, buildRel, persistence, local, caller, callerRel>>
    BY <2>0, <2>2
  <2>3. CASE /\ buildRel' = r /\ phase' = "PHASE_1"
             /\ persistence' = [persistence EXCEPT ![r] = "u"]
             /\ local' = [local EXCEPT ![r] = TRUE]
             /\ caller' = "started" /\ callerRel' = r
             /\ UNCHANGED failed
    BY <2>0, <2>3
  <2>. QED
    BY <1>1, <2>1, <2>2, <2>3, Zenon DEF StartBuild
<1>2. ASSUME NEW r \in Rels, Create(r) PROVE TypeOK'
  BY <1>2 DEF Create
<1>3. ASSUME NEW r \in Rels, Extend(r) PROVE TypeOK'
  BY <1>3 DEF Extend
<1>4. CASE FinishPhase1
  BY <1>4 DEF FinishPhase1
<1>5. CASE EndBuild
  BY <1>5 DEF EndBuild, Reset
<1>6. CASE Commit
  <2>1. TypeData'
    BY <1>6 DEF Commit, Reset, TypeData
  <2>2. TypeFlags'
    BY <1>6, Zenon DEF Commit, Reset, TypeFlags
  <2>3. QED
    BY <2>1, <2>2, Zenon DEF TypeData, TypeFlags
<1>7. CASE Abort
  <2>1. TypeData'
    BY <1>7 DEF Abort, Reset, TypeData
  <2>2. TypeFlags'
    BY <1>7, Zenon DEF Abort, Reset, TypeFlags
  <2>3. QED
    BY <2>1, <2>2, Zenon DEF TypeData, TypeFlags
<1>8. CASE Begin
  BY <1>8 DEF Begin
<1>9. CASE Savepoint
  BY <1>9 DEF Savepoint
<1>10. CASE Release
  BY <1>10 DEF Release
<1>11. CASE RollbackTo
  <2>1. TypeData'
    BY <1>11 DEF RollbackTo, TypeData
  <2>2. TypeFlags'
    BY <1>11, Zenon DEF RollbackTo, TypeFlags
  <2>3. QED
    BY <2>1, <2>2, Zenon DEF TypeData, TypeFlags
<1>12. CASE Error
  BY <1>12 DEF Error
<1>13. CASE UNCHANGED vars
  BY <1>13 DEF vars
<1>14. QED
  BY <1>1, <1>2, <1>3, <1>4, <1>5, <1>6, <1>7, <1>8, <1>9, <1>10, <1>11,
     <1>12, <1>13 DEF Next

(* Every step keeps the variables in their types: the phase is one of the *)
(* four UnloggedBuildPhase values, unlogged_build_rel a relation or NULL, *)
(* and the nesting levels stay within MaxDepth.                           *)
THEOREM TypeCorrect == Spec => []TypeOK
  BY TypeInit, TypeStep, PTL DEF Spec

-----------------------------------------------------------------------------
(* BuildCoherent is not inductive by itself: a step may only be shown to  *)
(* keep it knowing where the index build runs and what the relations it   *)
(* could touch look like.  BuildFacts adds that an index build in          *)
(* progress runs at a level no deeper than BuildDepth, on a relation       *)
(* created at or above the current level (so that an abort drops it), that *)
(* no relation is created below the current level, that temp and         *)
(* unlogged relations always say so, permanent ones never claim to be     *)
(* temp, and that a relation that does not exist has its initial          *)
(* persistence and no local file, and that unlogged_build_rel is NULL     *)
(* whenever no build is in progress.                                      *)
BuildFacts ==
  /\ caller # "none" => depth \in 1 .. BuildDepth /\ level[callerRel] \in 1 .. depth
  /\ \A r \in Rels : level[r] <= depth
  /\ \A r \in LocalRels : persistence[r] = "u"
  /\ \A r \in PermRels : persistence[r] \in {"p", "u"}
  /\ \A r \in Rels : ~Live(r) => persistence[r] = Persist(r) /\ ~local[r]
  /\ phase = "NOT_IN_PROGRESS" => buildRel = NoRel

IInv == TypeOK /\ BuildCoherent /\ BuildFacts

(* The initial state satisfies the inductive invariant. *)
LEMMA IInvInit == Init => IInv
<1> SUFFICES ASSUME Init PROVE IInv
  OBVIOUS
<1>1. TypeOK
  BY TypeInit
<1>2. BuildCoherent
  BY RelAssumption DEF Init, BuildCoherent, Live, Rels
<1>3. BuildFacts
  <2>1. BuildFacts!1 /\ BuildFacts!2 /\ BuildFacts!3 /\ BuildFacts!4
    BY RelAssumption, DepthAssumption DEF Init, Persist, Rels
  <2>2. BuildFacts!5
    BY Zenon DEF Init, Live, Persist, Rels
  <2>3. BuildFacts!6
    BY DEF Init
  <2>4. QED
    BY <2>1, <2>2, <2>3 DEF BuildFacts
<1>4. QED
  BY <1>1, <1>2, <1>3 DEF IInv

(* Every action keeps the inductive invariant, when index builds run at   *)
(* the top level of a transaction.                                        *)
LEMMA IInvStep ==
  ASSUME BuildDepth = 1
  PROVE  IInv /\ [Next]_vars => IInv'
<1> SUFFICES ASSUME IInv, [Next]_vars PROVE IInv'
  OBVIOUS
<1>0. TypeOK'
  BY TypeStep DEF IInv
<1> USE RelAssumption, DepthAssumption
        DEF IInv, TypeOK, BuildCoherent, BuildFacts, Live, Persist, Rels
<1>1. ASSUME NEW r \in Rels, StartBuild(r) PROVE IInv'
  <2>1. phase = "NOT_IN_PROGRESS" /\ Live(r)
    BY <1>1 DEF StartBuild
  <2>2. CASE persistence[r] \in {"u", "t"}
    <3>1. r \in LocalRels
      BY <2>1, <2>2
    <3>2. QED
      BY <1>0, <1>1, <2>1, <2>2, <3>1 DEF StartBuild
  <2>3. CASE persistence[r] \notin {"u", "t"} /\ ~empty[r]
    BY <1>0, <1>1, <2>1, <2>3 DEF StartBuild
  <2>4. CASE persistence[r] \notin {"u", "t"} /\ empty[r]
    <3>1. r \in PermRels
      BY <2>4
    <3>2. QED
      BY <1>0, <1>1, <2>1, <2>4, <3>1 DEF StartBuild
  <2>5. QED
    BY <2>2, <2>3, <2>4
<1>2. ASSUME NEW r \in Rels, Create(r) PROVE IInv'
  BY <1>0, <1>2 DEF Create
<1>3. ASSUME NEW r \in Rels, Extend(r) PROVE IInv'
  BY <1>0, <1>3 DEF Extend
<1>4. CASE FinishPhase1
  BY <1>0, <1>4 DEF FinishPhase1
<1>5. CASE EndBuild
  BY <1>0, <1>5 DEF EndBuild, Reset
<1>6. CASE Commit
  BY <1>0, <1>6 DEF Commit, Reset
<1>7. CASE Abort
  <2>1. BuildCoherent!1' /\ BuildCoherent!2' /\ BuildCoherent!3' /\ BuildCoherent!4'
    BY <1>7 DEF Abort, Reset
  <2>2. BuildCoherent!5'
    BY <1>7 DEF Abort, Reset
  <2>3. BuildCoherent!6'
    BY <1>7 DEF Abort, Reset
  <2>4. BuildFacts!1' /\ BuildFacts!2' /\ BuildFacts!3' /\ BuildFacts!4'
    BY <1>7 DEF Abort, Reset
  <2>5. BuildFacts!5' /\ BuildFacts!6'
    BY <1>7 DEF Abort, Reset
  <2>6. QED
    BY <1>0, <2>1, <2>2, <2>3, <2>4, <2>5
<1>8. CASE Begin
  BY <1>0, <1>8 DEF Begin
<1>9. CASE Savepoint
  BY <1>0, <1>9 DEF Savepoint
<1>10. CASE Release
  BY <1>0, <1>10 DEF Release
<1>11. CASE RollbackTo
  <2>1. BuildCoherent!1' /\ BuildCoherent!2' /\ BuildCoherent!3' /\ BuildCoherent!4'
    BY <1>11 DEF RollbackTo
  <2>2. BuildCoherent!5'
    BY <1>11 DEF RollbackTo
  <2>3. BuildCoherent!6'
    BY <1>11 DEF RollbackTo
  <2>4. BuildFacts!1' /\ BuildFacts!2' /\ BuildFacts!3' /\ BuildFacts!4'
    BY <1>11 DEF RollbackTo
  <2>5. BuildFacts!5' /\ BuildFacts!6'
    BY <1>11 DEF RollbackTo
  <2>6. QED
    BY <1>0, <2>1, <2>2, <2>3, <2>4, <2>5
<1>12. CASE Error
  BY <1>0, <1>12 DEF Error
<1>13. CASE UNCHANGED vars
  BY <1>0, <1>13 DEF vars
<1>14. QED
  BY <1>1, <1>2, <1>3, <1>4, <1>5, <1>6, <1>7, <1>8, <1>9, <1>10, <1>11,
     <1>12, <1>13 DEF Next

(* When index builds run at the top level of a transaction, the static    *)
(* unlogged_build_phase and unlogged_build_rel always describe the build  *)
(* the running index build is doing (BuildCoherent), whatever the         *)
(* relations and however deep the savepoints around other statements.     *)
THEOREM Coherence ==
  ASSUME BuildDepth = 1
  PROVE  Spec => []BuildCoherent
<1>1. Init => IInv
  BY IInvInit
<1>2. IInv /\ [Next]_vars => IInv'
  BY IInvStep
<1>3. IInv => BuildCoherent
  BY DEF IInv
<1>4. QED
  BY <1>1, <1>2, <1>3, PTL DEF Spec

=============================================================================
