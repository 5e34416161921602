----------------------------- MODULE BuildProofs -----------------------------
(* Proofs about BuildLock and StagedBuild, for every value of the constants. *)
EXTENDS StagedBuild, TLAPS

-----------------------------------------------------------------------------
(* The lock *)

LEMMA LockTypeInit == LockInit => LockTypeOK
<1> SUFFICES ASSUME LockInit PROVE LockTypeOK
  OBVIOUS
<1>1. 0 \in 0..Timeout
  BY TimeoutAssumption
<1> QED BY <1>1 DEF LockInit, LockTypeOK, Points

LEMMA LockTypeStep == LockTypeOK /\ [LockNext]_lockVars => LockTypeOK'
<1> SUFFICES ASSUME LockTypeOK, [LockNext]_lockVars PROVE LockTypeOK'
  OBVIOUS
<1> USE DEF LockTypeOK
<1>1. 0 \in 0..Timeout /\ {0} \subseteq 0..Timeout + 1
  BY TimeoutAssumption
<1>2. CASE UNCHANGED lockVars
  BY <1>2 DEF lockVars
<1>3. ASSUME NEW p \in Procs, Enter(p) \/ LockStep(p) \/ Leave(p) \/ Die(p)
      PROVE  LockTypeOK'
  BY <1>1, <1>3 DEF Enter, LockStep, OpenExcl, Stat, Steal, CheckDeadline,
     Wake, Release, Leave, Die, Goto, Points
<1>4. CASE Tick
  <2>1. waited' \in [Procs -> 0..Timeout]
    BY <1>4, TimeoutAssumption DEF Tick
  <2>2. file' \in SUBSET (0..Timeout + 1) /\ \A a, b \in file' : a = b
    BY <1>4, TimeoutAssumption DEF Tick
  <2> QED BY <1>4, <2>1, <2>2 DEF Tick
<1> QED BY <1>2, <1>3, <1>4 DEF LockNext

\* The processes, the age of the file and the waiting times stay in their
\* ranges, for any number of processes and any timeout.
THEOREM LockTypeCorrect == LockSpec => []LockTypeOK
BY LockTypeInit, LockTypeStep, PTL DEF LockSpec

\* Without deaths, and with builders that are done in time, the file is there
\* exactly while somebody holds the lock, it never looks stale, and so nobody
\* steals it.
LockInv ==
  /\ MutualExclusion
  /\ Holders # {} <=> file # {}
  /\ \A p \in Procs :
       /\ acquired[p] => at[p] \in {"build", "release"}
       /\ at[p] = "release" => acquired[p]
       /\ at[p] \notin {"steal", "dead"}
  /\ \A age \in file : age < Timeout

LEMMA LockInvStep ==
  ASSUME Timely, Mortal = {}
  PROVE  LockTypeOK /\ LockInv /\ [LockNext]_lockVars => LockInv'
<1> SUFFICES ASSUME LockTypeOK, LockInv, [LockNext]_lockVars PROVE LockInv'
  OBVIOUS
<1> USE DEF LockTypeOK, LockInv, MutualExclusion, Holders
<1>1. CASE UNCHANGED lockVars
  BY <1>1 DEF lockVars
<1>2. ASSUME NEW p \in Procs, Enter(p)
      PROVE  LockInv'
  BY <1>2 DEF Enter, Goto
<1>3. ASSUME NEW p \in Procs, OpenExcl(p)
      PROVE  LockInv'
  <2>1. CASE file = {}
    <3>1. Holders' = {p} /\ file' = {0}
      BY <1>3, <2>1 DEF OpenExcl
    <3> QED BY <1>3, <2>1, <3>1, TimeoutAssumption DEF OpenExcl, Goto
  <2>2. CASE file # {}
    BY <1>3, <2>2 DEF OpenExcl, Goto
  <2> QED BY <2>1, <2>2
<1>4. ASSUME NEW p \in Procs, Stat(p)
      PROVE  LockInv'
  <2>1. \A age \in file : ~Stale(age)
    BY TimeoutAssumption DEF Stale
  <2> QED BY <1>4, <2>1 DEF Stat, Goto
<1>5. ASSUME NEW p \in Procs, Steal(p)
      PROVE  LockInv'
  BY <1>5 DEF Steal
<1>6. ASSUME NEW p \in Procs, CheckDeadline(p) \/ Wake(p) \/ Leave(p)
      PROVE  LockInv'
  BY <1>6 DEF CheckDeadline, Wake, Leave, Goto
<1>7. ASSUME NEW p \in Procs, Release(p)
      PROVE  LockInv'
  BY <1>7 DEF Release, Goto
<1>8. ASSUME NEW p \in Procs, Die(p)
      PROVE  LockInv'
  BY <1>8 DEF Die
<1>9. CASE Tick
  <2>1. \A age \in file' : age < Timeout
    BY <1>9, TimeoutAssumption DEF Tick
  <2>2. file' # {} <=> file # {}
    BY <1>9 DEF Tick
  <2> QED BY <1>9, <2>1, <2>2 DEF Tick
<1> QED
  BY <1>1, <1>2, <1>3, <1>4, <1>5, <1>6, <1>7, <1>8, <1>9
  DEF LockNext, LockStep

LEMMA LockInvInit == LockInit => LockInv
BY DEF LockInit, LockInv, MutualExclusion, Holders

LEMMA LockInvAlways ==
  ASSUME Timely, Mortal = {}
  PROVE  LockSpec => []LockInv
<1>1. LockTypeOK /\ LockInv /\ [LockNext]_lockVars => LockInv'
  BY LockInvStep
<1> QED
  BY <1>1, LockTypeInit, LockTypeStep, LockInvInit, PTL DEF LockSpec

\* As long as no builder dies and every builder is done before its lock file
\* looks stale, at most one process holds the lock, however many processes there
\* are and however long the timeout is.
THEOREM LockExcludes ==
  ASSUME Timely, Mortal = {}
  PROVE  LockSpec => []MutualExclusion
<1>1. LockInv => MutualExclusion
  BY DEF LockInv
<1> QED BY <1>1, LockInvAlways, PTL

\* ... and whoever holds it finds the lock file there: nobody has stolen it.
THEOREM LockFileStays ==
  ASSUME Timely, Mortal = {}
  PROVE  LockSpec => []HolderHasFile
<1>1. LockInv => HolderHasFile
  BY DEF LockInv, HolderHasFile
<1> QED BY <1>1, LockInvAlways, PTL

-----------------------------------------------------------------------------
(* The stage *)

LEMMA TypeInit == Init => TypeOK
BY LockTypeInit DEF Init, TypeOK, Steps

LEMMA TypeStep == TypeOK /\ [Next]_vars => TypeOK'
<1> SUFFICES ASSUME TypeOK, [Next]_vars PROVE TypeOK'
  OBVIOUS
<1> USE CasesAssumption, SourcesAssumption DEF TypeOK
<1>1. [LockNext]_lockVars \/ \E p \in Procs : Restart(p)
  BY DEF Next, vars, lockVars, LockNext, Start, Locked, BuildStep, Remove,
     CopySketch, Configure, CompileFails, CompileSucceeds,
     CompileStopsSilently, CopyBack, InfraFails, Finish, Killed, At
<1>2. LockTypeOK'
  <2>1. CASE [LockNext]_lockVars
    BY <2>1, LockTypeStep
  <2>2. ASSUME NEW p \in Procs, Restart(p)
        PROVE  LockTypeOK'
    BY <2>2 DEF Restart, Goto, LockTypeOK, Points
  <2> QED BY <1>1, <2>1, <2>2
<1> HIDE DEF LockTypeOK
<1>3. CASE UNCHANGED vars
  BY <1>2, <1>3 DEF vars, stage, result
<1>4. ASSUME NEW p \in Procs,
             Start(p) \/ Locked(p) \/ Finish(p) \/ Killed(p) \/ Restart(p)
      PROVE  TypeOK'
  BY <1>2, <1>4 DEF Start, Locked, Finish, Killed, Restart, Then, Steps, stage, result
<1>5. ASSUME NEW p \in Procs, BuildStep(p)
      PROVE  TypeOK'
  <2>1. CaseOf[p] \in Cases
    OBVIOUS
  <2> QED
    BY <1>2, <1>5, <2>1 DEF BuildStep, Remove, CopySketch, Configure,
       CompileFails, CompileSucceeds, CompileStopsSilently, CopyBack,
       InfraFails, At, Then, Judge, Steps, stage, result
<1>6. CASE Tick /\ UNCHANGED <<stage, step, source, result>>
  BY <1>2, <1>6 DEF stage, result
<1> QED BY <1>3, <1>4, <1>5, <1>6 DEF Next

\* The stages, steps and results keep their types, whoever is killed and
\* restarted in the middle of a build.
THEOREM StageTypeCorrect == Spec => []TypeOK
BY TypeInit, TypeStep, PTL DEF Spec

\* No two processes of the host evaluate the same case.
OneProcessPerCase == \A p, q \in Procs : CaseOf[p] = CaseOf[q] => p = q

\* What a process finds in the stage of its case is its own work.
StageInv ==
  \A p \in Procs :
    /\ step[p] \notin {"none", "remove"} => at[p] = "build"
    /\ step[p] = "none" => at[p] \in {"idle", "release", "dead"}
    /\ step[p] \in {"configure", "compile"} => app[CaseOf[p]] = {source[p]}
    /\ step[p] \in {"copy", "configure", "compile"} => built[CaseOf[p]] = {}
    /\ step[p] = "back" => built[CaseOf[p]] \subseteq {source[p]}

IsolationInv == StageInv /\ OwnFirmware /\ ChargedForOwnBuild

LEMMA IsolationStep ==
  ASSUME OneProcessPerCase
  PROVE  TypeOK /\ IsolationInv /\ [Next]_vars => IsolationInv'
<1> SUFFICES ASSUME TypeOK, IsolationInv, [Next]_vars PROVE IsolationInv'
  OBVIOUS
<1> USE CasesAssumption, OneProcessPerCase
    DEF TypeOK, IsolationInv, StageInv, OwnFirmware, ChargedForOwnBuild
<1>1. at \in [Procs -> Points]
  BY DEF LockTypeOK
<1>2. CASE UNCHANGED vars
  BY <1>2 DEF vars, lockVars, stage, result
<1>3. ASSUME NEW p \in Procs, Start(p)
      PROVE  IsolationInv'
  BY <1>1, <1>3 DEF Start, Enter, Goto, stage, OneProcessPerCase
<1>4. ASSUME NEW p \in Procs, Locked(p)
      PROVE  IsolationInv'
  BY <1>1, <1>4 DEF Locked, LockStep, OpenExcl, Stat, Steal, CheckDeadline,
     Wake, Release, Goto, stage, result, OneProcessPerCase
<1>5. ASSUME NEW p \in Procs, Remove(p)
      PROVE  IsolationInv'
  BY <1>5 DEF Remove, At, Then, lockVars, result, OneProcessPerCase
<1>6. ASSUME NEW p \in Procs, CopySketch(p)
      PROVE  IsolationInv'
  BY <1>6 DEF CopySketch, At, Then, lockVars, result, OneProcessPerCase
<1>7. ASSUME NEW p \in Procs, Configure(p) \/ CompileStopsSilently(p)
      PROVE  IsolationInv'
  BY <1>7 DEF Configure, CompileStopsSilently, At, Then, lockVars, stage,
     result
<1>8. ASSUME NEW p \in Procs, CompileFails(p)
      PROVE  IsolationInv'
  BY <1>8 DEF CompileFails, At, Then, Judge, lockVars, stage
<1>9. ASSUME NEW p \in Procs, CompileSucceeds(p)
      PROVE  IsolationInv'
  BY <1>9 DEF CompileSucceeds, At, Then, lockVars, result, OneProcessPerCase
<1>10. ASSUME NEW p \in Procs, CopyBack(p)
       PROVE  IsolationInv'
  BY <1>10 DEF CopyBack, At, Then, Judge, lockVars, stage
<1>11. ASSUME NEW p \in Procs, InfraFails(p)
       PROVE  IsolationInv'
  BY <1>11 DEF InfraFails, At, Then, Judge, lockVars, stage
<1>12. ASSUME NEW p \in Procs, Finish(p) \/ Killed(p) \/ Restart(p)
       PROVE  IsolationInv'
  BY <1>1, <1>12 DEF Finish, Killed, Leave, Die, Restart, Goto, Then, stage,
     result
<1>13. CASE Tick /\ UNCHANGED <<stage, step, source, result>>
  BY <1>13 DEF Tick, stage, result
<1> QED
  BY <1>2, <1>3, <1>4, <1>5, <1>6, <1>7, <1>8, <1>9, <1>10, <1>11, <1>12,
     <1>13
  DEF Next, BuildStep

LEMMA IsolationAlways ==
  ASSUME OneProcessPerCase
  PROVE  Spec => []IsolationInv
<1>1. Init => IsolationInv
  BY DEF Init, LockInit, IsolationInv, StageInv, OwnFirmware,
     ChargedForOwnBuild
<1>2. TypeOK /\ IsolationInv /\ [Next]_vars => IsolationInv'
  BY IsolationStep
<1> QED BY <1>1, <1>2, TypeInit, TypeStep, PTL DEF Spec

\* When no two processes work on the same case, every one simulates the
\* firmware of its own submission, with or without the lock, whatever killed
\* builds left in the stage.
THEOREM BuildsAreIsolated ==
  ASSUME OneProcessPerCase
  PROVE  Spec => []OwnFirmware
<1>1. IsolationInv => OwnFirmware
  BY DEF IsolationInv
<1> QED BY <1>1, IsolationAlways, PTL

\* ... and a submission is charged only when the compile command failed on that
\* very submission.
THEOREM ChargesAreOwn ==
  ASSUME OneProcessPerCase
  PROVE  Spec => []ChargedForOwnBuild
<1>1. IsolationInv => ChargedForOwnBuild
  BY DEF IsolationInv
<1> QED BY <1>1, IsolationAlways, PTL
=============================================================================
