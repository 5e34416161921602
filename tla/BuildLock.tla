------------------------------ MODULE BuildLock ------------------------------
(***************************************************************************)
(* build_lock of bench/runner.py: the optional lock file that serializes   *)
(* the compile step of concurrent harness processes.  Each file system     *)
(* call is a step of its own.  Time is the age of the lock file and the    *)
(* time each process has waited, both counted up to the point where more   *)
(* makes no difference, so no clock has to be bounded.                     *)
(***************************************************************************)
EXTENDS Integers, FiniteSets

CONSTANTS
  Procs,    \* harness processes on one host
  Timeout,  \* IOTBENCH_BUILD_LOCK_TIMEOUT_S in ticks
  Locking,  \* IOTBENCH_BUILD_LOCK names a file
  Timely,   \* a live builder is done before its lock file looks stale
  Mortal    \* the processes that may be killed

ASSUME TimeoutAssumption == Timeout \in Nat \ {0}
ASSUME SwitchAssumption == Locking \in BOOLEAN /\ Timely \in BOOLEAN
ASSUME MortalAssumption == Mortal \subseteq Procs

VARIABLES
  file,      \* {} or {the age of the lock file}
  at,        \* at[p]: the program point of process p
  acquired,  \* acquired[p]: p created the lock file it works under
  waited     \* waited[p]: time since p asked for the lock

lockVars == <<file, at, acquired, waited>>

Points ==
  {"idle", "open", "stat", "steal", "deadline", "sleep", "build", "release",
   "dead"}
\* Mutant: a lock file that exists is taken to be stale.
Stale_Always(age) == TRUE
Stale(age) == age > Timeout
Holders == {p \in Procs : acquired[p]}
Builders == {p \in Procs : at[p] = "build"}

LockTypeOK ==
  /\ file \in SUBSET (0..Timeout + 1) /\ \A a, b \in file : a = b
  /\ at \in [Procs -> Points]
  /\ acquired \in [Procs -> BOOLEAN]
  /\ waited \in [Procs -> 0..Timeout]

LockInit ==
  /\ file = {} /\ at = [p \in Procs |-> "idle"]
  /\ acquired = [p \in Procs |-> FALSE] /\ waited = [p \in Procs |-> 0]

Goto(p, point) == at' = [at EXCEPT ![p] = point]

\* A process reaches its compile step.
Enter(p) ==
  /\ at[p] = "idle"
  /\ Goto(p, IF Locking THEN "open" ELSE "build")
  /\ waited' = [waited EXCEPT ![p] = 0]
  /\ UNCHANGED <<file, acquired>>

\* Mutant: the file is opened without O_EXCL.
OpenExcl_Shared(p) ==
  /\ at[p] = "open" /\ Goto(p, "build")
  /\ file' = {0} /\ acquired' = [acquired EXCEPT ![p] = TRUE]
  /\ UNCHANGED waited
\* Mutant: every process has a lock file of its own.
OpenExcl_OwnFile(p) ==
  /\ at[p] = "open" /\ Goto(p, "build")
  /\ file' = file \cup {0} /\ acquired' = [acquired EXCEPT ![p] = TRUE]
  /\ UNCHANGED waited
\* os.open(O_CREAT | O_EXCL)
OpenExcl(p) ==
  /\ at[p] = "open"
  /\ IF file = {}
     THEN /\ file' = {0} /\ acquired' = [acquired EXCEPT ![p] = TRUE]
          /\ Goto(p, "build")
     ELSE Goto(p, "stat") /\ UNCHANGED <<file, acquired>>
  /\ UNCHANGED waited

\* path.stat(): a file that is gone raises OSError, which is passed over.
Stat(p) ==
  /\ at[p] = "stat"
  /\ Goto(p, IF \E age \in file : Stale(age) THEN "steal" ELSE "deadline")
  /\ UNCHANGED <<file, acquired, waited>>

\* path.unlink() of whatever file has that name by now, then try again.
Steal(p) ==
  /\ at[p] = "steal"
  /\ Goto(p, IF file # {} THEN "open" ELSE "deadline")
  /\ file' = {}
  /\ UNCHANGED <<acquired, waited>>

\* Mutant: a waiter never gives up.
CheckDeadline_Patient(p) ==
  /\ at[p] = "deadline" /\ Goto(p, "sleep")
  /\ UNCHANGED <<file, acquired, waited>>
\* Out of patience: build without the lock.
CheckDeadline(p) ==
  /\ at[p] = "deadline"
  /\ Goto(p, IF waited[p] >= Timeout THEN "build" ELSE "sleep")
  /\ UNCHANGED <<file, acquired, waited>>
Wake(p) ==
  /\ at[p] = "sleep" /\ Goto(p, "open")
  /\ UNCHANGED <<file, acquired, waited>>

\* The compile step is over, whatever its outcome.
Leave(p) ==
  /\ at[p] = "build"
  /\ Goto(p, IF acquired[p] THEN "release" ELSE "idle")
  /\ UNCHANGED <<file, acquired, waited>>
\* finally: path.unlink(), again of whatever file has that name.
Release(p) ==
  /\ at[p] = "release" /\ Goto(p, "idle")
  /\ file' = {} /\ acquired' = [acquired EXCEPT ![p] = FALSE]
  /\ UNCHANGED waited

\* A killed process leaves its lock file behind.
Die(p) ==
  /\ p \in Mortal /\ at[p] \notin {"idle", "dead"} /\ Goto(p, "dead")
  /\ acquired' = [acquired EXCEPT ![p] = FALSE]
  /\ UNCHANGED <<file, waited>>

Tick ==
  /\ Timely => \A p \in Procs : acquired[p] => \A age \in file : age + 1 < Timeout
  /\ file' = {IF age > Timeout THEN age ELSE age + 1 : age \in file}
  /\ waited' = [p \in Procs |->
                  IF at[p] \in {"idle", "build", "release", "dead"} THEN 0
                  ELSE IF waited[p] < Timeout THEN waited[p] + 1 ELSE Timeout]
  /\ UNCHANGED <<at, acquired>>

LockStep(p) ==
  \/ OpenExcl(p) \/ Stat(p) \/ Steal(p) \/ CheckDeadline(p) \/ Wake(p)
  \/ Release(p)

LockNext ==
  \/ \E p \in Procs : Enter(p) \/ LockStep(p) \/ Leave(p) \/ Die(p)
  \/ Tick
LockSpec == LockInit /\ [][LockNext]_lockVars
LockFairSpec ==
  /\ LockSpec /\ WF_lockVars(Tick)
  /\ \A p \in Procs : WF_lockVars(LockStep(p) \/ Leave(p))

-----------------------------------------------------------------------------
(* Properties *)

\* "only one builder holds it at a time" (the docstring of build_lock)
MutualExclusion == \A p, q \in Holders : p = q

\* A builder that holds the lock still has its file: nobody else can create it.
HolderHasFile == Holders # {} => file # {}

\* No one waits forever, whoever dies holding the lock: either the file goes
\* stale and is stolen or the waiter runs out of patience.
NoStarvation ==
  \A p \in Procs : at[p] = "open" ~> at[p] \in {"build", "dead"}
=============================================================================
