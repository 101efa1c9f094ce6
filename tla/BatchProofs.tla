---------------------------- MODULE BatchProofs ----------------------------
(***************************************************************************)
(* Theorems about BatchUpload and BatchAudit, for every set of jobs,       *)
(* processes and files, every bound and every order of the names.          *)
(*                                                                         *)
(* What a run records and what it deletes is decided from its own copy of  *)
(* the upload state.  The first part shows that the lock of the state file *)
(* keeps that copy equal to the file from Load to Return, wherever other   *)
(* runs are killed, fail or are started.  The second part adds the audit,  *)
(* which takes no lock: what it has read stays true because uploads only   *)
(* add to it, and a page begins where the one before it ended.             *)
(***************************************************************************)
EXTENDS BatchAudit, TLAPS, FiniteSetTheorems

\* TypeOK but for the remote directory, which others may change as well.
RunTypes ==
  /\ local \in [Jobs -> SUBSET Names]
  /\ state \in [Jobs -> States]
  /\ stLock \in [Jobs -> Runners \union {Free}]
  /\ receipt \in [Jobs -> Receipts]
  /\ recLock \in [Jobs -> Runners \union {Free}]
  /\ pc \in [Runners -> Locked \union {"idle", "lock", "finish", "receipt"}]
  /\ mem \in [Runners -> States]
  /\ pos \in [Runners -> 1 .. Len(Files) + 1]
  /\ tries \in [Runners -> 0 .. MaxAttempts]
  /\ ok \in [Runners -> BOOLEAN] /\ digest \in [Runners -> States]
  /\ faults \in 0 .. MaxFaults

\* Where a run has loaded its state.
Loaded == Locked \ {"load"}

\* Where a run is at one file.
AtFile == {"attempt", "look", "put", "verify", "record", "remove"}

\* A run that is at a file is at one of the frozen ones.
FileInRange == \A r \in Runners : pc[r] \in AtFile => pos[r] <= Len(Files)

\* A run is between lockState and its unlock when it is the lock's holder.
LockIsHeld == \A r \in Runners : pc[r] \in Locked <=> stLock[JobOf[r]] = r

\* From Load on, a run's copy is what the state file holds.
CopyIsState ==
  \A r \in Runners : pc[r] \in Loaded => mem[r] = state[JobOf[r]]

\* The files a run has left behind are recorded, and so is the one whose local
\* copy it is about to remove; a new run starts at the first.
PassedAreRecorded ==
  \A r \in Runners :
    /\ pc[r] \in {"idle", "lock", "load"} => pos[r] = 1
    /\ pc[r] \in Loaded =>
         \A k \in 1 .. pos[r] - 1 : Files[k] \in state[JobOf[r]].uploaded
    /\ pc[r] = "remove" => Name(r) \in state[JobOf[r]].uploaded

\* A completed state records every file.
CompletedIsAll ==
  \A j \in Jobs : state[j].completed => state[j].uploaded = Names

\* What is gone locally is recorded.
GoneIsRecorded == \A j \in Jobs : Names \ local[j] \subseteq state[j].uploaded

\* A run that returned nil left a completed state, and so has the digest it
\* took and every receipt that says succeeded.
NilIsCompleted ==
  /\ \A r \in Runners :
       /\ pc[r] \in {"finish", "receipt"} /\ ok[r] => state[JobOf[r]].completed
       /\ pc[r] = "receipt" /\ ok[r] => digest[r].completed
  /\ \A j \in Jobs :
       receipt[j].status = "succeeded" => receipt[j].digest.completed

IInv == /\ RunTypes /\ FileInRange
        /\ LockIsHeld
        /\ CopyIsState
        /\ PassedAreRecorded
        /\ CompletedIsAll
        /\ GoneIsRecorded
        /\ NilIsCompleted

\* No two state files upload to the same remote names.
SingleJob == \A j, k \in Jobs : j = k

\* Recorded files, and those about to be, are there with their content.
RecordedAreThere ==
  /\ \A j \in Jobs : \A n \in state[j].uploaded : Holds(j, n)
  /\ \A r \in Runners : pc[r] = "record" => Holds(JobOf[r], Name(r))

-----------------------------------------------------------------------------
(* Facts about the definitions the actions are built from. *)

LEMMA FreshIsState == Fresh \in States
  BY DEF Fresh, States

LEMMA NameInNames == ASSUME RunTypes, NEW r \in Runners, pos[r] <= Len(Files)
                     PROVE  Name(r) \in Names
  BY BatchAssumption DEF RunTypes, Name, Names

LEMMA MoreUploaded ==
  ASSUME NEW m \in States, NEW n \in Names
  PROVE  /\ [m EXCEPT !.uploaded = @ \union {n}] \in States
         /\ [m EXCEPT !.completed = TRUE] \in States
  BY DEF States

LEMMA VerdictIsReceipt == ASSUME RunTypes, NEW r \in Runners
                          PROVE  Verdict(r) \in Receipts
  BY DEF RunTypes, Verdict, Receipts

-----------------------------------------------------------------------------
(* Types. *)

LEMMA TypeInit == Init => RunTypes /\ FileInRange
  <1> SUFFICES ASSUME Init PROVE RunTypes /\ FileInRange
    OBVIOUS
  <1>1. [status |-> "none", digest |-> Fresh] \in Receipts
    BY FreshIsState DEF Receipts
  <1>2. Len(Files) \in Nat
    BY BatchAssumption
  <1>3. /\ receipt \in [Jobs -> Receipts]
        /\ pos \in [Runners -> 1 .. Len(Files) + 1]
        /\ tries \in [Runners -> 0 .. MaxAttempts]
        /\ faults \in 0 .. MaxFaults
    BY <1>1, <1>2, BatchAssumption DEF Init
  <1>4. /\ local \in [Jobs -> SUBSET Names]
        /\ state \in [Jobs -> States]
        /\ stLock \in [Jobs -> Runners \union {Free}]
        /\ recLock \in [Jobs -> Runners \union {Free}]
        /\ pc \in [Runners -> Locked \union {"idle", "lock", "finish", "receipt"}]
        /\ mem \in [Runners -> States]
        /\ ok \in [Runners -> BOOLEAN] /\ digest \in [Runners -> States]
    BY FreshIsState DEF Init
  <1>5. FileInRange
    BY DEF Init, FileInRange, AtFile
  <1> QED BY <1>3, <1>4, <1>5 DEF RunTypes

\* The runner's own variables, whatever it does with its locks.
LEMMA GoneTypes ==
  ASSUME RunTypes, NEW r \in Runners, Gone(r)
  PROVE  /\ stLock' \in [Jobs -> Runners \union {Free}]
         /\ recLock' \in [Jobs -> Runners \union {Free}]
         /\ pc' \in [Runners -> Locked \union {"idle", "lock", "finish", "receipt"}]
         /\ mem' \in [Runners -> States]
         /\ pos' \in [Runners -> 1 .. Len(Files) + 1]
         /\ tries' \in [Runners -> 0 .. MaxAttempts]
         /\ ok' \in [Runners -> BOOLEAN] /\ digest' \in [Runners -> States]
         /\ FileInRange => FileInRange'
  <1> USE BatchAssumption DEF Gone, Goto, Set, RunTypes
  <1>1. /\ stLock' \in [Jobs -> Runners \union {Free}]
        /\ recLock' \in [Jobs -> Runners \union {Free}]
    OBVIOUS
  <1>2. /\ pc' \in [Runners -> Locked \union {"idle", "lock", "finish", "receipt"}]
        /\ mem' \in [Runners -> States]
        /\ ok' \in [Runners -> BOOLEAN] /\ digest' \in [Runners -> States]
    BY FreshIsState
  <1>3. /\ pos' \in [Runners -> 1 .. Len(Files) + 1]
        /\ tries' \in [Runners -> 0 .. MaxAttempts]
    BY Len(Files) \in Nat
  <1>4. FileInRange => FileInRange'
    BY DEF FileInRange, AtFile
  <1> QED BY <1>1, <1>2, <1>3, <1>4

LEMMA ReturnTypes ==
  ASSUME RunTypes, NEW r \in Runners, NEW good \in BOOLEAN, Return(r, good)
  PROVE  /\ stLock' \in [Jobs -> Runners \union {Free}]
         /\ ok' \in [Runners -> BOOLEAN]
         /\ pc' \in [Runners -> Locked \union {"idle", "lock", "finish", "receipt"}]
         /\ FileInRange /\ pos' = pos => FileInRange'
  BY BatchAssumption DEF Return, Goto, Set, RunTypes, FileInRange, AtFile

LEMMA TypeStep == RunTypes /\ FileInRange /\ [Next]_vars => RunTypes' /\ FileInRange'
  <1> SUFFICES ASSUME RunTypes, FileInRange, [Next]_vars PROVE RunTypes' /\ FileInRange'
    OBVIOUS
  <1>0. Len(Files) \in Nat
    BY BatchAssumption
  <1>1. ASSUME NEW r \in Runners, Start(r) PROVE RunTypes' /\ FileInRange'
    <2>1. [status |-> "running", digest |-> Fresh] \in Receipts
      BY FreshIsState DEF Receipts
    <2>2. /\ recLock' \in [Jobs -> Runners \union {Free}]
          /\ receipt' \in [Jobs -> Receipts]
      BY <1>1, <2>1 DEF Start, RunTypes, Set
    <2>3. /\ pc' \in [Runners -> Locked \union {"idle", "lock", "finish", "receipt"}]
          /\ FileInRange'
      BY <1>1 DEF Start, RunTypes, Goto, Set, FileInRange, AtFile
    <2> QED BY <1>1, <2>2, <2>3 DEF Start, RunTypes
  <1>2. ASSUME NEW r \in Runners, LockState(r) PROVE RunTypes' /\ FileInRange'
    <2>1. CASE stLock[JobOf[r]] = Free
      <3>1. stLock' \in [Jobs -> Runners \union {Free}]
        BY <1>2, <2>1, ZenonT(60) DEF LockState, RunTypes, Set
      <3>2. /\ pc' \in [Runners -> Locked \union {"idle", "lock", "finish", "receipt"}]
            /\ FileInRange'
        BY <1>2, <2>1 DEF LockState, RunTypes, Goto, Set, FileInRange, AtFile, Locked
      <3> QED BY <1>2, <2>1, <3>1, <3>2 DEF LockState, RunTypes
    <2>2. CASE stLock[JobOf[r]] # Free
      <3>1. Return(r, FALSE) BY <1>2, <2>2 DEF LockState
      <3> QED BY <1>2, <3>1, ReturnTypes DEF LockState, RunTypes
    <2> QED BY <2>1, <2>2
  <1>3. ASSUME NEW r \in Runners, Load(r) PROVE RunTypes' /\ FileInRange'
    <2>1. mem' \in [Runners -> States] /\ state' \in [Jobs -> States]
      BY <1>3, BatchAssumption DEF Load, Save, Set, RunTypes
    <2>2. CASE Goto(r, "file") /\ UNCHANGED <<stLock, ok>>
      BY <1>3, <2>1, <2>2 DEF Load, RunTypes, Goto, Set, FileInRange, AtFile, Locked
    <2>3. CASE Return(r, FALSE)
      BY <1>3, <2>1, <2>3, ReturnTypes DEF Load, RunTypes
    <2> QED BY <1>3, <2>2, <2>3 DEF Load
  <1>4. ASSUME NEW r \in Runners, SkipUploaded(r) \/ Remove(r)
        PROVE  RunTypes' /\ FileInRange'
    <2>1. pos[r] \in 1 .. Len(Files)
      BY <1>0, <1>4 DEF SkipUploaded, Remove, FileInRange, AtFile, RunTypes
    <2>2. local' \in [Jobs -> SUBSET Names]
      <3>1. RemoveLocal(r)
        BY <1>4 DEF SkipUploaded, Remove
      <3> QED BY <3>1 DEF RemoveLocal, RunTypes
    <2>3. /\ pos' \in [Runners -> 1 .. Len(Files) + 1]
          /\ tries' \in [Runners -> 0 .. MaxAttempts]
          /\ pc' \in [Runners -> Locked \union {"idle", "lock", "finish", "receipt"}]
      <3>1. NextFile(r)
        BY <1>4 DEF SkipUploaded, Remove
      <3> QED BY <1>0, <2>1, <3>1, BatchAssumption
              DEF NextFile, Goto, Set, RunTypes, Locked
    <2>4. FileInRange'
      BY <1>4 DEF SkipUploaded, Remove, NextFile, Goto, Set, RunTypes, FileInRange,
                  AtFile
    <2> QED BY <1>4, <2>2, <2>3, <2>4 DEF SkipUploaded, Remove, RunTypes
  <1>5. ASSUME NEW r \in Runners, Hash(r) PROVE RunTypes' /\ FileInRange'
    <2>1. mem' \in [Runners -> States] /\ state' \in [Jobs -> States]
      <3>1. Save(r, mem[r]) \/ UNCHANGED <<mem, state>>
        BY <1>5 DEF Hash
      <3>2. mem[r] \in States
        BY DEF RunTypes
      <3> QED BY <3>1, <3>2, BatchAssumption DEF Save, Set, RunTypes
    <2>2. CASE Goto(r, "attempt") /\ UNCHANGED <<stLock, ok>>
      BY <1>5, <2>1, <2>2 DEF Hash, RunTypes, Goto, Set, FileInRange, AtFile, Locked
    <2>3. CASE Return(r, FALSE)
      BY <1>5, <2>1, <2>3, ReturnTypes DEF Hash, RunTypes
    <2> QED BY <1>5, <2>2, <2>3 DEF Hash
  <1>6. ASSUME NEW r \in Runners, Attempt(r) PROVE RunTypes' /\ FileInRange'
    <2>1. mem' \in [Runners -> States] /\ state' \in [Jobs -> States]
      <3>1. Save(r, mem[r]) \/ UNCHANGED <<mem, state>>
        BY <1>6 DEF Attempt
      <3>2. mem[r] \in States
        BY DEF RunTypes
      <3> QED BY <3>1, <3>2, BatchAssumption DEF Save, Set, RunTypes
    <2>2. tries' \in [Runners -> 0 .. MaxAttempts]
      <3>1. \/ tries' = tries
            \/ tries[r] < MaxAttempts /\ tries' = [tries EXCEPT ![r] = tries[r] + 1]
        BY <1>6 DEF Attempt, Set
      <3>2. tries \in [Runners -> 0 .. MaxAttempts] /\ MaxAttempts \in Nat
        BY BatchAssumption DEF RunTypes
      <3> QED BY <3>1, <3>2
    <2>3. CASE Goto(r, "look") /\ UNCHANGED <<stLock, ok>>
      BY <1>6, <2>1, <2>2, <2>3
         DEF Attempt, RunTypes, Goto, Set, FileInRange, AtFile, Locked
    <2>4. CASE Return(r, FALSE)
      BY <1>6, <2>1, <2>2, <2>4, ReturnTypes DEF Attempt, RunTypes
    <2> QED BY <1>6, <2>3, <2>4 DEF Attempt
  <1>7. ASSUME NEW r \in Runners, Look(r) PROVE RunTypes' /\ FileInRange'
    <2>1. CASE Return(r, FALSE)
      BY <1>7, <2>1, ReturnTypes DEF Look, RunTypes
    <2>2. CASE (Goto(r, "put") \/ Goto(r, "record")) /\ UNCHANGED <<stLock, ok>>
      BY <1>7, <2>2 DEF Look, RunTypes, Goto, Set, FileInRange, AtFile, Locked
    <2> QED BY <1>7, <2>1, <2>2 DEF Look
  <1>8. ASSUME NEW r \in Runners, Put(r) PROVE RunTypes' /\ FileInRange'
    BY <1>8 DEF Put, RunTypes, Goto, Set, FileInRange, AtFile, Locked
  <1>9. ASSUME NEW r \in Runners, Verify(r) PROVE RunTypes' /\ FileInRange'
    BY <1>9 DEF Verify, RunTypes, Goto, Set, FileInRange, AtFile, Locked
  <1>10. ASSUME NEW r \in Runners, Record(r) PROVE RunTypes' /\ FileInRange'
    <2> DEFINE m == [mem[r] EXCEPT !.uploaded = @ \union {Name(r)}]
    <2>1. m \in States
      <3>1. pos[r] <= Len(Files)
        BY <1>10 DEF Record, FileInRange, AtFile
      <3>2. Name(r) \in Names /\ mem[r] \in States
        BY <3>1, NameInNames DEF RunTypes
      <3> QED BY <3>2, MoreUploaded
    <2> HIDE DEF m
    <2>2. Save(r, m) /\ Goto(r, "remove")
      BY <1>10 DEF Record, m
    <2>3. mem' \in [Runners -> States] /\ state' \in [Jobs -> States]
      BY <2>1, <2>2, BatchAssumption DEF Save, Set, RunTypes
    <2> QED BY <1>10, <2>2, <2>3
            DEF Record, RunTypes, Goto, Set, FileInRange, AtFile, Locked
  <1>11. ASSUME NEW r \in Runners, Complete(r) PROVE RunTypes' /\ FileInRange'
    <2> DEFINE m == [mem[r] EXCEPT !.completed = TRUE]
    <2>1. m \in States
      BY ZenonT(60) DEF RunTypes, States
    <2> HIDE DEF m
    <2>2. Save(r, m) /\ Return(r, TRUE)
      BY <1>11 DEF Complete, m
    <2>3. mem' \in [Runners -> States] /\ state' \in [Jobs -> States]
      BY <2>1, <2>2, BatchAssumption DEF Save, Set, RunTypes
    <2> QED BY <1>11, <2>2, <2>3, ReturnTypes DEF Complete, RunTypes
  <1>12. ASSUME NEW r \in Runners, FinishHash(r) PROVE RunTypes' /\ FileInRange'
    BY <1>12, BatchAssumption
       DEF FinishHash, RunTypes, Goto, Set, FileInRange, AtFile, Locked
  <1>13. ASSUME NEW r \in Runners, FinishSave(r) PROVE RunTypes' /\ FileInRange'
    <2>1. receipt' \in [Jobs -> Receipts]
      BY <1>13, VerdictIsReceipt DEF FinishSave, RunTypes, Set
    <2> QED BY <1>13, <2>1, GoneTypes DEF FinishSave, RunTypes
  <1>14. ASSUME NEW r \in Runners, Kill(r) PROVE RunTypes' /\ FileInRange'
    <2>1. faults' \in 0 .. MaxFaults
      BY <1>14, BatchAssumption DEF Kill, Fault, RunTypes
    <2> QED BY <1>14, <2>1, GoneTypes DEF Kill, RunTypes
  <1>15. ASSUME NEW r \in Runners, StepFails(r) PROVE RunTypes' /\ FileInRange'
    <2>1. faults' \in 0 .. MaxFaults
      BY <1>15, BatchAssumption DEF StepFails, Fault, RunTypes
    <2> QED BY <1>15, <2>1, ReturnTypes DEF StepFails, RunTypes
  <1>16. ASSUME NEW r \in Runners, RequestFails(r) PROVE RunTypes' /\ FileInRange'
    <2>1. faults' \in 0 .. MaxFaults
      BY <1>16, BatchAssumption DEF RequestFails, Fault, RunTypes
    <2> QED BY <1>16, <2>1
            DEF RequestFails, RunTypes, Goto, Set, FileInRange, AtFile, Locked
  <1>17. CASE UNCHANGED vars
    BY <1>17 DEF vars, RunTypes, FileInRange
  <1> QED BY <1>1, <1>2, <1>3, <1>4, <1>5, <1>6, <1>7, <1>8, <1>9, <1>10, <1>11,
             <1>12, <1>13, <1>14, <1>15, <1>16, <1>17 DEF Next, Step, Faults

-----------------------------------------------------------------------------
(* The lock of the state file. *)

LEMMA LockInit == Init => LockIsHeld
  BY BatchAssumption DEF Init, LockIsHeld, Locked

\* Two runs that have locked the same state file are one.
LEMMA Exclusive ==
  ASSUME LockIsHeld, NEW r \in Runners, NEW q \in Runners,
         pc[r] \in Locked, pc[q] \in Locked, JobOf[r] = JobOf[q]
  PROVE  r = q
  BY DEF LockIsHeld

LEMMA ReturnUnlocks ==
  ASSUME RunTypes, LockIsHeld, NEW r \in Runners, NEW good, Return(r, good)
  PROVE  LockIsHeld'
  BY BatchAssumption, ZenonT(60) DEF Return, Goto, Set, RunTypes, LockIsHeld, Locked

LEMMA GoneUnlocks ==
  ASSUME RunTypes, LockIsHeld, NEW r \in Runners, Gone(r)
  PROVE  LockIsHeld'
  BY BatchAssumption, ZenonT(60) DEF Gone, Goto, Set, RunTypes, LockIsHeld, Locked

\* A step from one place under the lock to another, or from one place outside
\* it to another.
LEMMA LockIsKept ==
  ASSUME RunTypes, LockIsHeld, NEW r \in Runners, NEW s, Goto(r, s),
         stLock' = stLock, pc[r] \in Locked <=> s \in Locked
  PROVE  LockIsHeld'
  BY DEF Goto, Set, RunTypes, LockIsHeld

LEMMA LockStep == RunTypes /\ LockIsHeld /\ [Next]_vars => LockIsHeld'
  <1> SUFFICES ASSUME RunTypes, LockIsHeld, [Next]_vars PROVE LockIsHeld'
    OBVIOUS
  <1>1. ASSUME NEW r \in Runners, LockState(r) PROVE LockIsHeld'
    <2>1. CASE stLock[JobOf[r]] = Free
      <3>1. \A q \in Runners : pc[q] \in Locked => JobOf[q] # JobOf[r]
        BY <2>1, BatchAssumption DEF LockIsHeld
      <3>2. /\ pc' = [pc EXCEPT ![r] = "load"]
            /\ stLock' = [stLock EXCEPT ![JobOf[r]] = r]
            /\ pc[r] \notin Locked
        BY <1>1, <2>1 DEF LockState, Goto, Set, Locked
      <3>3. ASSUME NEW q \in Runners
            PROVE  pc'[q] \in Locked <=> stLock'[JobOf[q]] = q
        <4>1. CASE q = r
          BY <3>2, <4>1, BatchAssumption DEF RunTypes, Locked
        <4>2. CASE q # r
          BY <3>1, <3>2, <4>2, BatchAssumption DEF RunTypes, LockIsHeld
        <4> QED BY <4>1, <4>2
      <3> QED BY <3>3 DEF LockIsHeld
    <2>2. CASE stLock[JobOf[r]] # Free
      <3>1. Return(r, FALSE) BY <1>1, <2>2 DEF LockState
      <3> QED BY <3>1, ReturnUnlocks
    <2> QED BY <2>1, <2>2
  <1>2. ASSUME NEW r \in Runners, Start(r) \/ FinishHash(r) PROVE LockIsHeld'
    BY <1>2, LockIsKept DEF Start, FinishHash, Locked
  <1>3. ASSUME NEW r \in Runners, Load(r) PROVE LockIsHeld'
    BY <1>3, LockIsKept, ReturnUnlocks DEF Load, Locked
  <1>4. ASSUME NEW r \in Runners, SkipUploaded(r) \/ Remove(r) PROVE LockIsHeld'
    BY <1>4, LockIsKept DEF SkipUploaded, Remove, NextFile, Locked
  <1>5. ASSUME NEW r \in Runners, Hash(r) PROVE LockIsHeld'
    BY <1>5, LockIsKept, ReturnUnlocks DEF Hash, Locked
  <1>6. ASSUME NEW r \in Runners, Attempt(r) PROVE LockIsHeld'
    BY <1>6, LockIsKept, ReturnUnlocks DEF Attempt, Locked
  <1>7. ASSUME NEW r \in Runners, Look(r) PROVE LockIsHeld'
    BY <1>7, LockIsKept, ReturnUnlocks DEF Look, Locked
  <1>8. ASSUME NEW r \in Runners, Put(r) \/ Verify(r) PROVE LockIsHeld'
    BY <1>8, LockIsKept DEF Put, Verify, Locked
  <1>9. ASSUME NEW r \in Runners, Record(r) PROVE LockIsHeld'
    BY <1>9, LockIsKept DEF Record, Locked
  <1>10. ASSUME NEW r \in Runners, Complete(r) \/ StepFails(r) PROVE LockIsHeld'
    BY <1>10, ReturnUnlocks DEF Complete, StepFails
  <1>11. ASSUME NEW r \in Runners, FinishSave(r) \/ Kill(r) PROVE LockIsHeld'
    BY <1>11, GoneUnlocks DEF FinishSave, Kill
  <1>12. ASSUME NEW r \in Runners, RequestFails(r) PROVE LockIsHeld'
    BY <1>12, LockIsKept DEF RequestFails, Locked
  <1>13. CASE UNCHANGED vars
    BY <1>13 DEF vars, LockIsHeld
  <1> QED BY <1>1, <1>2, <1>3, <1>4, <1>5, <1>6, <1>7, <1>8, <1>9, <1>10, <1>11,
             <1>12, <1>13 DEF Next, Step, Faults

-----------------------------------------------------------------------------
(* The copies of the state, and what becomes of the state file. *)

\* A step that neither saves nor brings another run to Loaded.
LEMMA CopyIsKept ==
  ASSUME RunTypes, CopyIsState, NEW r \in Runners, NEW s, Goto(r, s),
         UNCHANGED <<mem, state>>, s \in Loaded => pc[r] \in Loaded
  PROVE  CopyIsState'
  BY DEF Goto, Set, RunTypes, CopyIsState

\* A save by the run that holds the lock: nobody else has a copy.
LEMMA SaveIsCopied ==
  ASSUME RunTypes, LockIsHeld, CopyIsState, NEW r \in Runners, NEW s, NEW m,
         pc[r] \in Locked, Goto(r, s), Save(r, m)
  PROVE  CopyIsState'
  <1> SUFFICES ASSUME NEW q \in Runners, pc'[q] \in Loaded
               PROVE  mem'[q] = state'[JobOf[q]]
    BY DEF CopyIsState
  <1>1. CASE q = r
    BY <1>1, BatchAssumption DEF Save, Set, RunTypes
  <1>2. CASE q # r
    <2>1. pc[q] \in Loaded /\ mem'[q] = mem[q]
      BY <1>2 DEF Goto, Save, Set, RunTypes
    <2>2. JobOf[q] # JobOf[r]
      BY <1>2, <2>1, Exclusive DEF Loaded
    <2>3. state'[JobOf[q]] = state[JobOf[q]]
      BY <2>2, BatchAssumption DEF Save, Set, RunTypes
    <2> QED BY <2>1, <2>3 DEF CopyIsState
  <1> QED BY <1>1, <1>2

LEMMA CopyStep ==
  RunTypes /\ LockIsHeld /\ CopyIsState /\ [Next]_vars => CopyIsState'
  <1> SUFFICES ASSUME RunTypes, LockIsHeld, CopyIsState, [Next]_vars
               PROVE  CopyIsState'
    OBVIOUS
  <1> USE DEF Loaded, Locked, Return
  <1>1. ASSUME NEW r \in Runners, LockState(r) PROVE CopyIsState'
    BY <1>1, CopyIsKept DEF LockState
  <1>2. ASSUME NEW r \in Runners, Start(r) \/ FinishHash(r) PROVE CopyIsState'
    BY <1>2, CopyIsKept DEF Start, FinishHash
  <1>3. ASSUME NEW r \in Runners, Load(r) PROVE CopyIsState'
    <2>1. Save(r, state[JobOf[r]]) /\ (Goto(r, "file") \/ Goto(r, "finish"))
      BY <1>3 DEF Load
    <2> QED BY <1>3, <2>1, SaveIsCopied DEF Load
  <1>4. ASSUME NEW r \in Runners, SkipUploaded(r) \/ Remove(r) PROVE CopyIsState'
    BY <1>4, CopyIsKept DEF SkipUploaded, Remove, NextFile
  <1>5. ASSUME NEW r \in Runners, Hash(r) PROVE CopyIsState'
    <2>1. \/ Save(r, mem[r]) /\ Goto(r, "attempt")
          \/ UNCHANGED <<mem, state>> /\ Goto(r, "finish")
      BY <1>5 DEF Hash
    <2> QED BY <1>5, <2>1, CopyIsKept, SaveIsCopied DEF Hash
  <1>6. ASSUME NEW r \in Runners, Attempt(r) PROVE CopyIsState'
    <2>1. \/ Save(r, mem[r]) /\ Goto(r, "look")
          \/ UNCHANGED <<mem, state>> /\ Goto(r, "finish")
      BY <1>6 DEF Attempt
    <2> QED BY <1>6, <2>1, CopyIsKept, SaveIsCopied DEF Attempt
  <1>7. ASSUME NEW r \in Runners, Look(r) PROVE CopyIsState'
    BY <1>7, CopyIsKept DEF Look
  <1>8. ASSUME NEW r \in Runners, Put(r) \/ Verify(r) PROVE CopyIsState'
    BY <1>8, CopyIsKept DEF Put, Verify
  <1>9. ASSUME NEW r \in Runners, Record(r) PROVE CopyIsState'
    BY <1>9, SaveIsCopied DEF Record
  <1>10. ASSUME NEW r \in Runners, Complete(r) PROVE CopyIsState'
    BY <1>10, SaveIsCopied DEF Complete
  <1>11. ASSUME NEW r \in Runners, StepFails(r) PROVE CopyIsState'
    BY <1>11, CopyIsKept DEF StepFails
  <1>12. ASSUME NEW r \in Runners, FinishSave(r) \/ Kill(r) PROVE CopyIsState'
    BY <1>12 DEF FinishSave, Kill, Gone, Goto, Set, RunTypes, CopyIsState
  <1>13. ASSUME NEW r \in Runners, RequestFails(r) PROVE CopyIsState'
    BY <1>13, CopyIsKept DEF RequestFails
  <1>14. CASE UNCHANGED vars
    BY <1>14 DEF vars, CopyIsState
  <1> QED BY <1>1, <1>2, <1>3, <1>4, <1>5, <1>6, <1>7, <1>8, <1>9, <1>10, <1>11,
             <1>12, <1>13, <1>14 DEF Next, Step, Faults

\* What StateNeverRegresses says of a step.
StateGrows == \A j \in Jobs : /\ state[j].uploaded \subseteq state'[j].uploaded
                              /\ state[j].completed => state'[j].completed

\* A save of nothing older than the file.
LEMMA SaveGrows ==
  ASSUME RunTypes, NEW r \in Runners, NEW m, Save(r, m),
         state[JobOf[r]].uploaded \subseteq m.uploaded,
         state[JobOf[r]].completed => m.completed
  PROVE  StateGrows
  BY BatchAssumption DEF Save, Set, RunTypes, StateGrows

LEMMA GrowStep == RunTypes /\ CopyIsState /\ [Next]_vars => StateGrows
  <1> SUFFICES ASSUME RunTypes, CopyIsState, [Next]_vars PROVE StateGrows
    OBVIOUS
  <1>1. CASE state' = state
    BY <1>1 DEF StateGrows
  <1>2. ASSUME NEW r \in Runners, Load(r) PROVE StateGrows
    BY <1>2, SaveGrows DEF Load
  <1>3. ASSUME NEW r \in Runners, Hash(r) \/ Attempt(r), state' # state
        PROVE  StateGrows
    <2>1. Save(r, mem[r]) /\ pc[r] \in Loaded
      BY <1>3 DEF Hash, Attempt, Loaded, Locked
    <2> QED BY <2>1, SaveGrows DEF CopyIsState
  <1>4. ASSUME NEW r \in Runners, Record(r) \/ Complete(r) PROVE StateGrows
    <2>1. mem[r] = state[JobOf[r]] /\ mem[r] \in States
      BY <1>4 DEF Record, Complete, CopyIsState, Loaded, Locked, RunTypes
    <2>2. CASE Record(r)
      <3> DEFINE m == [mem[r] EXCEPT !.uploaded = @ \union {Name(r)}]
      <3>1. /\ mem[r].uploaded \subseteq m.uploaded
            /\ m.completed = mem[r].completed
        BY <2>1 DEF States
      <3>2. Save(r, m)
        BY <2>2 DEF Record
      <3> HIDE DEF m
      <3> QED BY <2>1, <3>1, <3>2, SaveGrows
    <2>3. CASE Complete(r)
      <3> DEFINE m == [mem[r] EXCEPT !.completed = TRUE]
      <3>1. m.uploaded = mem[r].uploaded /\ m.completed
        BY <2>1 DEF States
      <3>2. Save(r, m)
        BY <2>3 DEF Complete
      <3> HIDE DEF m
      <3> QED BY <2>1, <3>1, <3>2, SaveGrows
    <2> QED BY <1>4, <2>2, <2>3
  <1>5. ASSUME NEW r \in Runners,
               \/ Start(r) \/ LockState(r) \/ SkipUploaded(r) \/ Look(r)
               \/ Put(r) \/ Verify(r) \/ Remove(r) \/ FinishHash(r)
               \/ FinishSave(r) \/ Faults(r)
        PROVE  state' = state
    BY <1>5 DEF Start, LockState, SkipUploaded, Look, Put, Verify, Remove,
                FinishHash, FinishSave, Faults, Kill, StepFails, RequestFails
  <1>6. CASE UNCHANGED vars
    BY <1>1, <1>6 DEF vars
  <1> QED BY <1>1, <1>2, <1>3, <1>4, <1>5, <1>6 DEF Next, Step

-----------------------------------------------------------------------------
(* What is recorded. *)

\* A step to another place at the same file.
LEMMA PassedKept ==
  ASSUME RunTypes, PassedAreRecorded, StateGrows, NEW r \in Runners, NEW s,
         Goto(r, s), pos' = pos,
         s \in {"idle", "lock", "load"} => pc[r] \in {"idle", "lock", "load"},
         s \in Loaded => pc[r] \in Locked,
         s = "remove" => Name(r) \in state'[JobOf[r]].uploaded
  PROVE  PassedAreRecorded'
  <1> SUFFICES ASSUME NEW q \in Runners
               PROVE  /\ pc'[q] \in {"idle", "lock", "load"} => pos'[q] = 1
                      /\ pc'[q] \in Loaded =>
                           \A k \in 1 .. pos'[q] - 1 :
                             Files[k] \in state'[JobOf[q]].uploaded
                      /\ pc'[q] = "remove" =>
                           Files[pos'[q]] \in state'[JobOf[q]].uploaded
    BY DEF PassedAreRecorded, Name
  <1>1. state[JobOf[q]].uploaded \subseteq state'[JobOf[q]].uploaded
    BY BatchAssumption DEF StateGrows
  <1>2. CASE q # r
    BY <1>1, <1>2 DEF Goto, Set, RunTypes, PassedAreRecorded, Name
  <1>3. CASE q = r
    <2>1. pc'[r] = s
      BY DEF Goto, Set, RunTypes
    <2>2. pc[r] \in {"idle", "lock", "load"} => pos[r] = 1
      BY DEF PassedAreRecorded
    <2>3. pc[r] \in Loaded =>
            \A k \in 1 .. pos[r] - 1 : Files[k] \in state[JobOf[r]].uploaded
      BY DEF PassedAreRecorded
    <2>4. pc[r] \in Locked => pc[r] \in Loaded \/ pos[r] = 1
      BY <2>2 DEF Loaded, Locked
    <2>5. ASSUME s \in Loaded, NEW k \in 1 .. pos[r] - 1
          PROVE  Files[k] \in state'[JobOf[r]].uploaded
      <3>1. pos[r] # 1
        BY <2>5
      <3> QED BY <1>1, <1>3, <2>3, <2>4, <2>5, <3>1
    <2> QED BY <1>3, <2>1, <2>2, <2>5 DEF Name
  <1> QED BY <1>2, <1>3

\* A step to the next file, this one being recorded.
LEMMA PassedNext ==
  ASSUME RunTypes, PassedAreRecorded, StateGrows, NEW r \in Runners,
         pc[r] \in Loaded, Name(r) \in state[JobOf[r]].uploaded,
         pos[r] <= Len(Files), NextFile(r)
  PROVE  PassedAreRecorded'
  <1> SUFFICES ASSUME NEW q \in Runners
               PROVE  /\ pc'[q] \in {"idle", "lock", "load"} => pos'[q] = 1
                      /\ pc'[q] \in Loaded =>
                           \A k \in 1 .. pos'[q] - 1 :
                             Files[k] \in state'[JobOf[q]].uploaded
                      /\ pc'[q] = "remove" =>
                           Files[pos'[q]] \in state'[JobOf[q]].uploaded
    BY DEF PassedAreRecorded, Name
  <1>1. state[JobOf[q]].uploaded \subseteq state'[JobOf[q]].uploaded
    BY BatchAssumption DEF StateGrows
  <1>2. CASE q # r
    BY <1>1, <1>2 DEF NextFile, Goto, Set, RunTypes, PassedAreRecorded, Name
  <1>3. CASE q = r
    <2>1. pc'[r] = "file" /\ pos'[r] = pos[r] + 1
      BY DEF NextFile, Goto, Set, RunTypes
    <2>2. \A k \in 1 .. pos[r] - 1 : Files[k] \in state[JobOf[r]].uploaded
      BY DEF PassedAreRecorded
    <2>3. pos[r] \in Nat
      BY BatchAssumption DEF RunTypes
    <2>4. ASSUME NEW k \in 1 .. pos'[r] - 1
          PROVE  Files[k] \in state'[JobOf[r]].uploaded
      <3>1. k = pos[r] \/ k \in 1 .. pos[r] - 1
        BY <2>1, <2>3
      <3> QED BY <1>1, <1>3, <2>2, <3>1 DEF Name
    <2> QED BY <1>3, <2>1, <2>4
  <1> QED BY <1>2, <1>3

LEMMA PassedStep ==
  /\ RunTypes /\ FileInRange /\ CopyIsState /\ PassedAreRecorded
  /\ [Next]_vars
  => PassedAreRecorded'
  <1> SUFFICES ASSUME RunTypes, FileInRange, CopyIsState, PassedAreRecorded,
                      [Next]_vars
               PROVE  PassedAreRecorded'
    OBVIOUS
  <1>0. StateGrows
    BY GrowStep
  <1> USE DEF Loaded, Locked, Return
  <1>1. ASSUME NEW r \in Runners, Start(r) \/ LockState(r) \/ FinishHash(r)
        PROVE  PassedAreRecorded'
    BY <1>0, <1>1, PassedKept DEF Start, LockState, FinishHash
  <1>2. ASSUME NEW r \in Runners, Load(r) PROVE PassedAreRecorded'
    <2>1. Goto(r, "file") \/ Goto(r, "finish")
      BY <1>2 DEF Load
    <2> QED BY <1>0, <1>2, <2>1, PassedKept DEF Load
  <1>3. ASSUME NEW r \in Runners, SkipUploaded(r) PROVE PassedAreRecorded'
    <2>1. mem[r] = state[JobOf[r]]
      BY <1>3 DEF SkipUploaded, CopyIsState
    <2> QED BY <1>0, <1>3, <2>1, PassedNext DEF SkipUploaded
  <1>4. ASSUME NEW r \in Runners, Hash(r) \/ Attempt(r) \/ Look(r)
        PROVE  PassedAreRecorded'
    <2>1. /\ pc[r] \in Locked /\ pos' = pos
          /\ \E s \in {"attempt", "look", "put", "record", "finish"} : Goto(r, s)
      BY <1>4 DEF Hash, Attempt, Look
    <2> QED BY <1>0, <2>1, PassedKept
  <1>5. ASSUME NEW r \in Runners, Put(r) \/ Verify(r) \/ RequestFails(r)
        PROVE  PassedAreRecorded'
    <2>1. /\ pc[r] \in Locked /\ pos' = pos
          /\ \E s \in {"verify", "record", "attempt"} : Goto(r, s)
      BY <1>5 DEF Put, Verify, RequestFails
    <2> QED BY <1>0, <2>1, PassedKept
  <1>6. ASSUME NEW r \in Runners, Record(r) PROVE PassedAreRecorded'
    <2>1. Name(r) \in state'[JobOf[r]].uploaded
      <3> DEFINE m == [mem[r] EXCEPT !.uploaded = @ \union {Name(r)}]
      <3>1. Name(r) \in m.uploaded
        <4>1. mem[r] \in States BY DEF RunTypes
        <4> QED BY <4>1 DEF States
      <3>2. Save(r, m)
        BY <1>6 DEF Record
      <3> HIDE DEF m
      <3> QED BY <3>1, <3>2, BatchAssumption DEF Save, Set, RunTypes
    <2> QED BY <1>0, <1>6, <2>1, PassedKept DEF Record
  <1>7. ASSUME NEW r \in Runners, Remove(r) PROVE PassedAreRecorded'
    <2>1. pos[r] <= Len(Files) /\ Name(r) \in state[JobOf[r]].uploaded
      BY <1>7 DEF Remove, FileInRange, AtFile, PassedAreRecorded
    <2> QED BY <1>0, <1>7, <2>1, PassedNext DEF Remove
  <1>8. ASSUME NEW r \in Runners, Complete(r) \/ StepFails(r)
        PROVE  PassedAreRecorded'
    <2>1. pc[r] \in Locked /\ pos' = pos /\ Goto(r, "finish")
      BY <1>8 DEF Complete, StepFails
    <2> QED BY <1>0, <2>1, PassedKept
  <1>9. ASSUME NEW r \in Runners, FinishSave(r) \/ Kill(r)
        PROVE  PassedAreRecorded'
    <2>1. state' = state /\ Gone(r)
      BY <1>9 DEF FinishSave, Kill
    <2>2. /\ pc' = [pc EXCEPT ![r] = "idle"] /\ pos' = [pos EXCEPT ![r] = 1]
      BY <2>1 DEF Gone, Goto, Set
    <2> QED BY <2>1, <2>2 DEF RunTypes, PassedAreRecorded, Name
  <1>10. CASE UNCHANGED vars
    BY <1>10 DEF vars, PassedAreRecorded, Name
  <1> QED BY <1>1, <1>2, <1>3, <1>4, <1>5, <1>6, <1>7, <1>8, <1>9, <1>10
          DEF Next, Step, Faults

\* Past the last file, everything is recorded.
LEMMA AllPassed ==
  ASSUME RunTypes, PassedAreRecorded, NEW r \in Runners, pc[r] \in Loaded,
         pos[r] > Len(Files)
  PROVE  state[JobOf[r]].uploaded = Names
  <1>1. Len(Files) \in Nat /\ pos[r] = Len(Files) + 1
    BY BatchAssumption DEF RunTypes
  <1>2. \A k \in 1 .. Len(Files) : Files[k] \in state[JobOf[r]].uploaded
    BY <1>1 DEF PassedAreRecorded
  <1>3. state[JobOf[r]].uploaded \subseteq Names
    BY BatchAssumption DEF RunTypes, States
  <1> QED BY <1>2, <1>3 DEF Names

LEMMA CompletedStep ==
  /\ RunTypes /\ FileInRange /\ CopyIsState /\ PassedAreRecorded /\ CompletedIsAll
  /\ [Next]_vars
  => CompletedIsAll'
  <1> SUFFICES ASSUME RunTypes, FileInRange, CopyIsState, PassedAreRecorded,
                      CompletedIsAll, [Next]_vars
               PROVE  CompletedIsAll'
    OBVIOUS
  <1>0. StateGrows /\ RunTypes'
    BY GrowStep, TypeStep
  <1>1. ASSUME NEW j \in Jobs, state[j].completed, state'[j].completed
        PROVE  state'[j].uploaded = Names
    <2>1. state[j].uploaded = Names /\ state'[j].uploaded \subseteq Names
      BY <1>0, <1>1 DEF CompletedIsAll, RunTypes, States
    <2> QED BY <1>0, <2>1 DEF StateGrows
  <1>2. ASSUME NEW j \in Jobs, ~state[j].completed, state'[j].completed
        PROVE  state'[j].uploaded = Names
    <2>1. PICK r \in Runners : Step(r) \/ Faults(r)
      BY <1>2 DEF Next, vars
    <2>2. Complete(r) /\ JobOf[r] = j
      <3>1. ASSUME NEW m, Save(r, m), m.completed => state[JobOf[r]].completed
            PROVE  FALSE
        BY <1>2, <3>1, BatchAssumption DEF Save, Set, RunTypes
      <3>2. ~Load(r) /\ state' # state
        BY <1>2, <3>1 DEF Load
      <3>3. ~Hash(r) /\ ~Attempt(r)
        BY <3>1, <3>2 DEF Hash, Attempt, CopyIsState, Loaded, Locked
      <3>4. ~Record(r)
        <4>1. SUFFICES ASSUME Record(r) PROVE FALSE
          OBVIOUS
        <4>2. mem[r] = state[JobOf[r]] /\ mem[r] \in States
          BY <4>1 DEF Record, CopyIsState, Loaded, Locked, RunTypes
        <4>3. [mem[r] EXCEPT !.uploaded = @ \union {Name(r)}].completed
                = mem[r].completed
          BY <4>2 DEF States
        <4> QED BY <3>1, <4>1, <4>2, <4>3 DEF Record
      <3>5. Complete(r)
        BY <2>1, <3>2, <3>3, <3>4
           DEF Step, Start, LockState, SkipUploaded, Look, Put, Verify, Remove,
               FinishHash, FinishSave, Faults, Kill, StepFails, RequestFails
      <3>6. JobOf[r] = j
        BY <1>2, <3>5, BatchAssumption DEF Complete, Save, Set, RunTypes
      <3> QED BY <3>5, <3>6
    <2>3. state[j].uploaded = Names
      BY <2>2, AllPassed DEF Complete, Loaded, Locked
    <2>4. state'[j].uploaded \subseteq Names
      BY <1>0 DEF RunTypes, States
    <2> QED BY <1>0, <2>3, <2>4 DEF StateGrows
  <1> QED BY <1>1, <1>2 DEF CompletedIsAll

LEMMA GoneStep ==
  /\ RunTypes /\ FileInRange /\ CopyIsState /\ PassedAreRecorded /\ GoneIsRecorded
  /\ [Next]_vars
  => GoneIsRecorded'
  <1> SUFFICES ASSUME RunTypes, FileInRange, CopyIsState, PassedAreRecorded,
                      GoneIsRecorded, [Next]_vars
               PROVE  GoneIsRecorded'
    OBVIOUS
  <1>0. StateGrows
    BY GrowStep
  <1>1. CASE local' = local
    BY <1>0, <1>1 DEF GoneIsRecorded, StateGrows
  <1>2. ASSUME NEW r \in Runners, SkipUploaded(r) \/ Remove(r)
        PROVE  GoneIsRecorded'
    <2>1. /\ Name(r) \in state[JobOf[r]].uploaded
          /\ RemoveLocal(r) /\ state' = state
      BY <1>2 DEF SkipUploaded, Remove, PassedAreRecorded, CopyIsState, Loaded,
                  Locked
    <2>2. ASSUME NEW j \in Jobs, NEW n \in Names \ local'[j]
          PROVE  n \in state[j].uploaded
      <3>1. n \notin local[j] \/ (j = JobOf[r] /\ n = Name(r))
        BY <2>1, <2>2 DEF RemoveLocal, RunTypes
      <3> QED BY <2>1, <3>1 DEF GoneIsRecorded
    <2> QED BY <2>1, <2>2 DEF GoneIsRecorded
  <1>3. ASSUME NEW r \in Runners,
               \/ Start(r) \/ LockState(r) \/ Load(r) \/ Hash(r) \/ Attempt(r)
               \/ Look(r) \/ Put(r) \/ Verify(r) \/ Record(r) \/ Complete(r)
               \/ FinishHash(r) \/ FinishSave(r) \/ Faults(r)
        PROVE  local' = local
    BY <1>3 DEF Start, LockState, Load, Hash, Attempt, Look, Put, Verify, Record,
                Complete, FinishHash, FinishSave, Faults, Kill, StepFails,
                RequestFails
  <1>4. CASE UNCHANGED vars
    BY <1>1, <1>4 DEF vars
  <1> QED BY <1>1, <1>2, <1>3, <1>4 DEF Next, Step

-----------------------------------------------------------------------------
(* Runs that returned nil, and their receipts. *)

LEMMA NilStep ==
  RunTypes /\ CopyIsState /\ NilIsCompleted /\ [Next]_vars => NilIsCompleted'
  <1> SUFFICES ASSUME RunTypes, CopyIsState, NilIsCompleted, [Next]_vars
               PROVE  NilIsCompleted'
    OBVIOUS
  <1>0. StateGrows
    BY GrowStep
  <1> DEFINE Runs(q) == /\ pc[q] \in {"finish", "receipt"} /\ ok[q]
                             => state[JobOf[q]].completed
                        /\ pc[q] = "receipt" /\ ok[q] => digest[q].completed
             Receipt == \A j \in Jobs : receipt[j].status = "succeeded"
                                          => receipt[j].digest.completed
  \* The runners that a step does not move keep what they know.
  <1>1. ASSUME NEW q \in Runners, pc'[q] = pc[q], ok'[q] = ok[q],
               digest'[q] = digest[q]
        PROVE  Runs(q)'
    BY <1>0, <1>1, BatchAssumption DEF NilIsCompleted, StateGrows
  <1>2. ASSUME NEW q \in Runners, pc'[q] \notin {"finish", "receipt"} \/ ~ok'[q]
        PROVE  Runs(q)'
    BY <1>2
  <1>3. receipt' = receipt => Receipt'
    BY DEF NilIsCompleted
  <1>4. ASSUME NEW r \in Runners, NEW s, Goto(r, s), receipt' = receipt,
               UNCHANGED <<ok, digest>>, s \notin {"finish", "receipt"}
        PROVE  NilIsCompleted'
    <2>1. ASSUME NEW q \in Runners PROVE Runs(q)'
      <3>1. CASE q = r
        BY <1>2, <1>4, <3>1 DEF Goto, Set, RunTypes
      <3>2. CASE q # r
        BY <1>1, <1>4, <3>2 DEF Goto, Set, RunTypes
      <3> QED BY <3>1, <3>2
    <2> QED BY <1>3, <1>4, <2>1 DEF NilIsCompleted
  <1>5. ASSUME NEW r \in Runners, NEW good \in BOOLEAN, Return(r, good),
               receipt' = receipt, digest' = digest,
               good => state'[JobOf[r]].completed
        PROVE  NilIsCompleted'
    <2>1. ASSUME NEW q \in Runners PROVE Runs(q)'
      <3>1. CASE q = r
        BY <1>5, <3>1 DEF Return, Goto, Set, RunTypes
      <3>2. CASE q # r
        BY <1>1, <1>5, <3>2 DEF Return, Goto, Set, RunTypes
      <3> QED BY <3>1, <3>2
    <2> QED BY <1>3, <1>5, <2>1 DEF NilIsCompleted
  <1>6. ASSUME NEW r \in Runners, Start(r) PROVE NilIsCompleted'
    <2>1. ASSUME NEW q \in Runners PROVE Runs(q)'
      <3>1. CASE q = r
        BY <1>2, <1>6, <3>1 DEF Start, Goto, Set, RunTypes
      <3>2. CASE q # r
        BY <1>1, <1>6, <3>2 DEF Start, Goto, Set, RunTypes
      <3> QED BY <3>1, <3>2
    <2>2. Receipt'
      <3>1. \/ receipt' = receipt
            \/ receipt' = [receipt EXCEPT ![JobOf[r]] =
                             [status |-> "running", digest |-> Fresh]]
        BY <1>6 DEF Start
      <3>2. CASE receipt' = [receipt EXCEPT ![JobOf[r]] =
                               [status |-> "running", digest |-> Fresh]]
        <4>1. ASSUME NEW j \in Jobs, receipt'[j].status = "succeeded"
              PROVE  receipt'[j] = receipt[j]
          BY <3>2, <4>1 DEF RunTypes
        <4> QED BY <4>1 DEF NilIsCompleted
      <3> QED BY <1>3, <3>1, <3>2
    <2> QED BY <2>1, <2>2 DEF NilIsCompleted
  <1>7. ASSUME NEW r \in Runners, LockState(r) PROVE NilIsCompleted'
    <2>1. Return(r, FALSE) \/ (Goto(r, "load") /\ ok' = ok)
      BY <1>7 DEF LockState
    <2> QED BY <1>4, <1>5, <1>7, <2>1 DEF LockState
  <1>8. ASSUME NEW r \in Runners, Load(r) PROVE NilIsCompleted'
    <2>1. Return(r, FALSE) \/ (Goto(r, "file") /\ ok' = ok)
      BY <1>8 DEF Load
    <2> QED BY <1>4, <1>5, <1>8, <2>1 DEF Load
  <1>9. ASSUME NEW r \in Runners, Hash(r) \/ Attempt(r) \/ Look(r)
        PROVE  NilIsCompleted'
    <2>1. /\ \/ Return(r, FALSE)
             \/ /\ \E s \in {"attempt", "look", "put", "record"} : Goto(r, s)
                /\ ok' = ok
          /\ UNCHANGED <<receipt, digest>>
      BY <1>9 DEF Hash, Attempt, Look
    <2> QED BY <1>4, <1>5, <2>1
  <1>10. ASSUME NEW r \in Runners,
                \/ SkipUploaded(r) \/ Put(r) \/ Verify(r) \/ Record(r)
                \/ Remove(r) \/ RequestFails(r)
         PROVE  NilIsCompleted'
    <2>1. /\ \E s \in {"file", "verify", "record", "attempt", "remove"} : Goto(r, s)
          /\ UNCHANGED <<receipt, ok, digest>>
      BY <1>10 DEF SkipUploaded, Put, Verify, Record, Remove, RequestFails, NextFile
    <2> QED BY <1>4, <2>1
  <1>11. ASSUME NEW r \in Runners, Complete(r) PROVE NilIsCompleted'
    <2> DEFINE m == [mem[r] EXCEPT !.completed = TRUE]
    <2>1. mem[r] \in States BY DEF RunTypes
    <2>2. m.completed BY <2>1 DEF States
    <2>3. Save(r, m)
      BY <1>11 DEF Complete
    <2> HIDE DEF m
    <2>4. state'[JobOf[r]].completed
      BY <2>2, <2>3, BatchAssumption DEF Save, Set, RunTypes
    <2> QED BY <1>5, <1>11, <2>4 DEF Complete
  <1>12. ASSUME NEW r \in Runners, StepFails(r) PROVE NilIsCompleted'
    BY <1>5, <1>12 DEF StepFails
  <1>13. ASSUME NEW r \in Runners, FinishHash(r) PROVE NilIsCompleted'
    <2>1. ASSUME NEW q \in Runners PROVE Runs(q)'
      <3>1. CASE q = r
        BY <1>13, <3>1 DEF FinishHash, Goto, Set, RunTypes, NilIsCompleted
      <3>2. CASE q # r
        BY <1>1, <1>13, <3>2 DEF FinishHash, Goto, Set, RunTypes
      <3> QED BY <3>1, <3>2
    <2> QED BY <1>3, <1>13, <2>1 DEF FinishHash, NilIsCompleted
  <1>14. ASSUME NEW r \in Runners, Gone(r) PROVE \A q \in Runners : Runs(q)'
    <2>1. ASSUME NEW q \in Runners PROVE Runs(q)'
      <3>1. CASE q = r
        BY <1>2, <1>14, <3>1 DEF Gone, Goto, Set, RunTypes
      <3>2. CASE q # r
        BY <1>1, <1>14, <3>2 DEF Gone, Goto, Set, RunTypes
      <3> QED BY <3>1, <3>2
    <2> QED BY <2>1
  <1>15. ASSUME NEW r \in Runners, FinishSave(r) PROVE NilIsCompleted'
    <2>1. receipt' = receipt \/ receipt' = [receipt EXCEPT ![JobOf[r]] = Verdict(r)]
      BY <1>15 DEF FinishSave, Set
    <2>2. Verdict(r).status = "succeeded" => Verdict(r).digest.completed
      BY <1>15 DEF FinishSave, Verdict, NilIsCompleted
    <2>3. Receipt'
      BY <1>3, <2>1, <2>2 DEF NilIsCompleted, RunTypes
    <2> QED BY <1>14, <1>15, <2>3 DEF FinishSave, NilIsCompleted
  <1>16. ASSUME NEW r \in Runners, Kill(r) PROVE NilIsCompleted'
    BY <1>3, <1>14, <1>16 DEF Kill, NilIsCompleted
  <1>17. CASE UNCHANGED vars
    BY <1>17 DEF vars, NilIsCompleted
  <1> QED BY <1>6, <1>7, <1>8, <1>9, <1>10, <1>11, <1>12, <1>13, <1>15, <1>16,
             <1>17 DEF Next, Step, Faults

-----------------------------------------------------------------------------
(* The remote directory. *)

\* Only uploads change it, one name at a time.
LEMMA RemoteStep ==
  ASSUME [Next]_vars
  PROVE  \/ remote' = remote
         \/ \E r \in Runners : remote' = [remote EXCEPT ![Name(r)] = JobOf[r]]
  <1>1. ASSUME NEW r \in Runners, Put(r) \/ RequestFails(r)
        PROVE  remote' = remote \/ remote' = [remote EXCEPT ![Name(r)] = JobOf[r]]
    BY <1>1 DEF Put, RequestFails, Set
  <1>2. ASSUME NEW r \in Runners,
               \/ Start(r) \/ LockState(r) \/ Load(r) \/ SkipUploaded(r)
               \/ Hash(r) \/ Attempt(r) \/ Look(r) \/ Verify(r) \/ Record(r)
               \/ Remove(r) \/ Complete(r) \/ FinishHash(r) \/ FinishSave(r)
               \/ Kill(r) \/ StepFails(r)
        PROVE  remote' = remote
    BY <1>2 DEF Start, LockState, Load, SkipUploaded, Hash, Attempt, Look, Verify,
                Record, Remove, Complete, FinishHash, FinishSave, Kill, StepFails
  <1>3. UNCHANGED vars => remote' = remote
    BY DEF vars
  <1> QED BY <1>1, <1>2, <1>3 DEF Next, Step, Faults

\* In a remote directory of one job, a remote file of its content keeps it.
LEMMA HoldsKept ==
  ASSUME SingleJob, [Next]_vars, NEW C, remote \in [Names -> C],
         NEW j \in Jobs, NEW n \in Names, Holds(j, n)
  PROVE  Holds(j, n)'
  <1>1. \A r \in Runners : JobOf[r] = j
    BY BatchAssumption DEF SingleJob
  <1> QED BY <1>1, RemoteStep DEF Holds

-----------------------------------------------------------------------------
(* The theorems that hold of any jobs. *)

LEMMA IInvInit == Init => IInv
  <1> SUFFICES ASSUME Init PROVE IInv
    OBVIOUS
  <1>1. RunTypes /\ FileInRange /\ LockIsHeld
    BY TypeInit, LockInit
  <1>2. CopyIsState /\ PassedAreRecorded
    BY DEF Init, CopyIsState, PassedAreRecorded, Loaded, Locked
  <1>3. CompletedIsAll /\ GoneIsRecorded /\ NilIsCompleted
    BY DEF Init, CompletedIsAll, GoneIsRecorded, NilIsCompleted, Fresh
  <1> QED BY <1>1, <1>2, <1>3 DEF IInv

LEMMA IInvStep == IInv /\ [Next]_vars => IInv'
  BY TypeStep, LockStep, CopyStep, PassedStep, CompletedStep, GoneStep, NilStep
     DEF IInv

LEMMA Inductive == Spec => []IInv
  <1>1. Init => IInv
    BY IInvInit
  <1>2. IInv /\ [Next]_vars => IInv'
    BY IInvStep
  <1> QED BY <1>1, <1>2, PTL DEF Spec

\* Every value stays of its type: no run indexes past the frozen files or makes
\* more than the configured attempts.
THEOREM TypeCorrect == Spec => []TypeOK
  <1>1. Init => TypeOK
    <2>1. Init => RunTypes /\ remote \in [Names -> Prior \union Jobs]
      BY TypeInit DEF Init
    <2> QED BY <2>1 DEF RunTypes, TypeOK
  <1>2. TypeOK /\ IInv /\ IInv' /\ [Next]_vars => TypeOK'
    <2> SUFFICES ASSUME TypeOK, RunTypes', [Next]_vars PROVE TypeOK'
      BY DEF IInv
    <2>1. remote' \in [Names -> Prior \union Jobs]
      <3>1. \/ remote' = remote
            \/ \E r \in Runners : remote' = [remote EXCEPT ![Name(r)] = JobOf[r]]
        BY RemoteStep
      <3> QED BY <3>1, BatchAssumption DEF TypeOK
    <2> QED BY <2>1 DEF TypeOK, RunTypes
  <1> QED BY <1>1, <1>2, Inductive, PTL DEF Spec

\* Between lockState and the deferred unlock of batchupload.Run there is at most
\* one run on a state file, whatever is killed.
THEOREM OneRunPerState ==
  Spec => [](\A r, q \in Runners :
               /\ pc[r] \in Locked /\ pc[q] \in Locked /\ JobOf[r] = JobOf[q]
               => r = q)
  <1>1. IInv => \A r, q \in Runners :
                  /\ pc[r] \in Locked /\ pc[q] \in Locked /\ JobOf[r] = JobOf[q]
                  => r = q
    BY Exclusive DEF IInv
  <1> QED BY <1>1, Inductive, PTL

\* No run saves an older copy of the upload state over a newer one: saveState
\* replaces the whole file, and only the lock makes that safe.
THEOREM StatesOnlyGrow == Spec => StateNeverRegresses
  <1>1. IInv /\ [Next]_vars =>
          \A j \in Jobs : /\ state[j].uploaded \subseteq state'[j].uploaded
                          /\ state[j].completed => state'[j].completed
    BY GrowStep DEF IInv, StateGrows
  <1> QED BY <1>1, Inductive, PTL DEF Spec, StateNeverRegresses

\* A receipt that VerifySucceeded accepts belongs to a completed state, though
\* the state lock is dropped before the receipt is written and others may run
\* without a receipt.
THEOREM ReceiptsVouch == Spec => []ReceiptVouches
  <1>1. IInv => ReceiptVouches
    BY DEF IInv, NilIsCompleted, ReceiptVouches, Accepted
  <1> QED BY <1>1, Inductive, PTL

\* A completed state records every frozen file, and every local file that is
\* gone is recorded: --delete-after-verify never runs ahead of the saved state.
THEOREM RemovedAreRecorded == Spec => [](CompletedIsAll /\ GoneIsRecorded)
  <1>1. IInv => CompletedIsAll /\ GoneIsRecorded
    BY DEF IInv
  <1> QED BY <1>1, Inductive, PTL

-----------------------------------------------------------------------------
(* What is true of the remote directory.  Two state files that aim at the   *)
(* same names overwrite each other's files (Put), so these theorems are     *)
(* about a remote directory that belongs to one.                            *)

\* A record that says uploaded was made of a file that was there with its
\* content, and nothing replaces it.
LEMMA ThereStep ==
  ASSUME SingleJob, IInv, RecordedAreThere, [Next]_vars,
         NEW C, remote \in [Names -> C]
  PROVE  RecordedAreThere'
  <1>0. RunTypes /\ FileInRange /\ LockIsHeld /\ CopyIsState /\ PassedAreRecorded
    BY DEF IInv
  <1>a. \A r \in Runners : \A j \in Jobs : JobOf[r] = j
    BY BatchAssumption DEF SingleJob
  <1>b. \A j \in Jobs : \A n \in Names : Holds(j, n) => Holds(j, n)'
    BY HoldsKept
  <1>1. ASSUME NEW j \in Jobs, NEW n \in state'[j].uploaded PROVE Holds(j, n)'
    <2>1. CASE n \in state[j].uploaded
      <3>1. n \in Names
        BY <1>0, <2>1 DEF RunTypes, States
      <3> QED BY <1>b, <2>1, <3>1 DEF RecordedAreThere
    <2>2. CASE n \notin state[j].uploaded
      <3>1. PICK r \in Runners : Step(r) \/ Faults(r)
        BY <1>1, <2>2 DEF Next, vars
      <3>2. JobOf[r] = j
        BY <1>a
      <3>3. ASSUME NEW m, Save(r, m), m.uploaded \subseteq state[j].uploaded
            PROVE  FALSE
        BY <1>0, <1>1, <2>2, <3>2, <3>3, BatchAssumption DEF Save, Set, RunTypes
      <3>4. ~Load(r) /\ state' # state
        BY <1>1, <2>2, <3>2, <3>3 DEF Load
      <3>5. ~Hash(r) /\ ~Attempt(r)
        BY <1>0, <3>2, <3>3, <3>4 DEF Hash, Attempt, CopyIsState, Loaded, Locked
      <3>6. ~Complete(r)
        <4>1. SUFFICES ASSUME Complete(r) PROVE FALSE
          OBVIOUS
        <4>2. mem[r] = state[j] /\ mem[r] \in States
          BY <1>0, <3>2, <4>1 DEF Complete, CopyIsState, Loaded, Locked, RunTypes
        <4>3. [mem[r] EXCEPT !.completed = TRUE].uploaded = mem[r].uploaded
          BY <4>2 DEF States
        <4> QED BY <3>3, <4>1, <4>2, <4>3 DEF Complete
      <3>7. Record(r)
        BY <3>1, <3>4, <3>5, <3>6
           DEF Step, Start, LockState, SkipUploaded, Look, Put, Verify, Remove,
               FinishHash, FinishSave, Faults, Kill, StepFails, RequestFails
      <3>8. n = Name(r)
        <4> DEFINE m == [mem[r] EXCEPT !.uploaded = @ \union {Name(r)}]
        <4>1. mem[r] = state[j] /\ mem[r] \in States
          BY <1>0, <3>2, <3>7 DEF Record, CopyIsState, Loaded, Locked, RunTypes
        <4>2. m.uploaded = state[j].uploaded \union {Name(r)}
          BY <4>1 DEF States
        <4>3. Save(r, m)
          BY <3>7 DEF Record
        <4> HIDE DEF m
        <4>4. state'[j] = m
          BY <1>0, <3>2, <4>3 DEF Save, Set, RunTypes
        <4> QED BY <1>1, <2>2, <4>2, <4>4
      <3>9. Holds(j, n) /\ n \in Names
        BY <1>0, <3>2, <3>7, <3>8, NameInNames
           DEF Record, RecordedAreThere, FileInRange, AtFile
      <3> QED BY <1>b, <3>9
    <2> QED BY <2>1, <2>2
  <1>2. ASSUME NEW q \in Runners, pc'[q] = "record"
        PROVE  Holds(JobOf[q], Name(q))'
    <2>1. CASE pc[q] = "record" /\ pos'[q] = pos[q]
      <3>1. Holds(JobOf[q], Name(q)) /\ Name(q) \in Names /\ JobOf[q] \in Jobs
        BY <1>0, <2>1, NameInNames, BatchAssumption
           DEF RecordedAreThere, FileInRange, AtFile
      <3> QED BY <1>b, <2>1, <3>1 DEF Name, Holds
    <2>2. CASE ~(pc[q] = "record" /\ pos'[q] = pos[q])
      <3>1. PICK r \in Runners : Step(r) \/ Faults(r)
        BY <1>2, <2>2 DEF Next, vars
      <3>2. q = r /\ (Look(r) \/ Verify(r))
        <4>1. ASSUME NEW s, Goto(r, s), pos' = pos PROVE q = r /\ s = "record"
          BY <1>0, <1>2, <2>2, <4>1 DEF Goto, Set, RunTypes
        <4>2. ~NextFile(r) /\ ~Gone(r)
          BY <1>0, <1>2, <2>2 DEF NextFile, Gone, Goto, Set, RunTypes
        <4>3. ASSUME NEW good, Return(r, good), pos' = pos PROVE FALSE
          BY <4>1, <4>3 DEF Return
        <4>4. /\ ~SkipUploaded(r) /\ ~Remove(r) /\ ~FinishSave(r) /\ ~Kill(r)
              /\ ~Complete(r) /\ ~StepFails(r)
          BY <4>2, <4>3 DEF SkipUploaded, Remove, FinishSave, Kill, Complete,
                            StepFails
        <4>5. ~Start(r) /\ ~Put(r) /\ ~Record(r) /\ ~FinishHash(r) /\ ~RequestFails(r)
          BY <4>1 DEF Start, Put, Record, FinishHash, RequestFails
        <4>6. ~LockState(r) /\ ~Load(r)
          <5>1. SUFFICES ASSUME LockState(r) \/ Load(r) PROVE FALSE
            OBVIOUS
          <5>2. /\ Return(r, FALSE) \/ Goto(r, "load") \/ Goto(r, "file")
                /\ pos' = pos
            BY <5>1 DEF LockState, Load
          <5>3. ~Goto(r, "load") /\ ~Goto(r, "file")
            BY <4>1, <5>2
          <5> QED BY <4>3, <5>2, <5>3
        <4>7. ~Hash(r) /\ ~Attempt(r)
          <5>1. SUFFICES ASSUME Hash(r) \/ Attempt(r) PROVE FALSE
            OBVIOUS
          <5>2. /\ Return(r, FALSE) \/ Goto(r, "attempt") \/ Goto(r, "look")
                /\ pos' = pos
            BY <5>1 DEF Hash, Attempt
          <5>3. ~Goto(r, "attempt") /\ ~Goto(r, "look")
            BY <4>1, <5>2
          <5> QED BY <4>3, <5>2, <5>3
        <4>8. Look(r) \/ Verify(r)
          BY <3>1, <4>4, <4>5, <4>6, <4>7 DEF Step, Faults
        <4> QED BY <4>1, <4>3, <4>8 DEF Look, Verify
      <3>3. Holds(JobOf[q], Name(q)) /\ UNCHANGED <<remote, pos>>
        BY <1>0, <1>2, <3>2 DEF Look, Verify, Goto, Return, Set, RunTypes
      <3> QED BY <3>3 DEF Holds, Name
    <2> QED BY <2>1, <2>2
  <1> QED BY <1>1, <1>2 DEF RecordedAreThere

LEMMA ThereInductive == SingleJob => (Spec => []RecordedAreThere)
  <1> SUFFICES ASSUME SingleJob PROVE Spec => []RecordedAreThere
    OBVIOUS
  <1>1. Init => RecordedAreThere
    BY DEF Init, RecordedAreThere, Fresh
  <1>2. TypeOK /\ IInv /\ RecordedAreThere /\ [Next]_vars => RecordedAreThere'
    <2>1. TypeOK => remote \in [Names -> Prior \union Jobs]
      BY DEF TypeOK
    <2> QED BY <2>1, ThereStep
  <1> QED BY <1>1, <1>2, TypeCorrect, Inductive, PTL DEF Spec

\* In a remote directory of one job, a record that says uploaded and a state that
\* says completed are true of the directory, whatever is killed, fails or is
\* run again.
THEOREM RecordsTrue == SingleJob => (Spec => []RecordsAreTrue)
  <1> SUFFICES ASSUME SingleJob PROVE Spec => []RecordsAreTrue
    OBVIOUS
  <1>1. IInv /\ RecordedAreThere => RecordsAreTrue
    BY DEF IInv, RecordedAreThere, CompletedIsAll, RecordsAreTrue
  <1> QED BY <1>1, Inductive, ThereInductive, PTL

\* In a remote directory of one job, the last copy of a file is never lost: a local
\* file that is gone is recorded and its content is what the remote name holds.
THEOREM NothingLost == SingleJob => (Spec => []NoFileLost)
  <1> SUFFICES ASSUME SingleJob PROVE Spec => []NoFileLost
    OBVIOUS
  <1>1. IInv /\ RecordedAreThere => NoFileLost
    BY DEF IInv, RecordedAreThere, GoneIsRecorded, NoFileLost
  <1> QED BY <1>1, Inductive, ThereInductive, PTL

-----------------------------------------------------------------------------
(* The audit's invariant. *)

AllNames == Names \union Strangers

\* The state of a finished upload.
Done == [uploaded |-> Names, completed |-> TRUE]

\* Where the state has been loaded.
PastLoad == {"list", "compare", "metadata"} \union Late

AuditTypes == /\ remote \in [Names -> Prior \union Jobs \union {Absent, Intruder}]
              /\ AuditTypeOK
              /\ apc \in {"off", "load"} => listed = <<>> /\ clean

\* Unless something was removed, what was there when the listing began still is,
\* and either a page has given it or a later one will.
Covered == apc = "list" /\ ~moved =>
             /\ before \subseteq Present
             /\ \A i \in 1 .. Len(Order) :
                  Order[i] \in before => \/ Order[i] \in Range(listed)
                                         \/ Place(i) > Len(listed)

\* What an audit without an issue has found so far, and what still holds of it.
Found ==
  clean =>
    /\ apc \in PastLoad => /\ seen = Done /\ state[Audited] = Done
                           /\ Names \subseteq Expected
    /\ apc \in {"metadata"} \union Late => Range(listed) = Expected
    /\ apc \in Late \ {"local"} => local[Audited] = {}
    /\ apc \in {"verdict", "passed", "failed"} => vouched.digest = Done

Passed == apc = "passed" => clean /\ hash = Done

\* What was checked of the files lasts until one is spoiled.
Intact == clean /\ apc \in Late /\ ~spoiled => \A n \in Names : Holds(Audited, n)

\* While nothing happens around it, the audit finds nothing wrong.
Calm ==
  steady =>
    /\ AllIsWell /\ clean /\ apc # "off"
    /\ hash = state[Audited]
    /\ apc = "list" => /\ Len(listed) <= Len(Listing)
                       /\ \A p \in 1 .. Len(listed) : listed[p] = Listing[p]
    /\ apc = "compare" => listed = Listing
    /\ apc = "vouch" => vouched = receipt[Audited]
    /\ apc # "failed"

AuditInv == AuditTypes /\ Covered /\ NothingMissed /\ Found /\ Passed /\ Calm

-----------------------------------------------------------------------------
(* The listing. *)

LEMMA Naturals1 ==
  ASSUME NEW n \in Nat
  PROVE  IsFiniteSet(1 .. n) /\ Cardinality(1 .. n) = n
  <1>1. 1 \in Int /\ n \in Int
    OBVIOUS
  <1> QED BY <1>1, FS_Interval

LEMMA OrderIs ==
  /\ Len(Order) \in Nat
  /\ \A i \in 1 .. Len(Order) : Order[i] \in AllNames
  /\ \A n \in AllNames : \E i \in 1 .. Len(Order) : Order[i] = n
  /\ \A i, j \in 1 .. Len(Order) : Order[i] = Order[j] => i = j
  <1>1. DOMAIN Order = 1 .. Len(Order) /\ Len(Order) \in Nat
    BY AuditAssumption
  <1> QED BY <1>1, AuditAssumption DEF AllNames, Range, IsInjective

LEMMA ThereIs ==
  /\ There \subseteq 1 .. Len(Order) /\ IsFiniteSet(There)
  /\ Cardinality(There) \in Nat /\ Cardinality(There) <= Len(Order)
  <1>1. There \in SUBSET (1 .. Len(Order))
    BY DEF There
  <1>2. IsFiniteSet(1 .. Len(Order)) /\ Cardinality(1 .. Len(Order)) = Len(Order)
    BY OrderIs, Naturals1
  <1>3. IsFiniteSet(There) /\ Cardinality(There) <= Len(Order)
    BY <1>1, <1>2, FS_Subset
  <1> QED BY <1>1, <1>3, FS_CardinalityType

\* Names come in the listing as they do in Order.
LEMMA PlaceGrows ==
  ASSUME NEW i \in There
  PROVE  /\ Place(i) \in 1 .. Cardinality(There)
         /\ \A j \in There : i < j => Place(i) < Place(j)
  <1> DEFINE UpTo(k) == {m \in There : m <= k}
  <1>0. i \in Nat
    BY ThereIs
  <1>1. \A k : IsFiniteSet(UpTo(k)) /\ Cardinality(UpTo(k)) \in Nat
    BY ThereIs, FS_Subset, FS_CardinalityType
  <1>2. Cardinality(UpTo(i)) <= Cardinality(There)
    BY ThereIs, FS_Subset
  <1>3. Cardinality(UpTo(i)) # 0
    BY <1>0, <1>1, FS_EmptySet
  <1>4. ASSUME NEW j \in There, i < j
        PROVE  Cardinality(UpTo(i)) < Cardinality(UpTo(j))
    <2>0. j \in Nat
      BY ThereIs
    <2>1. UpTo(i) \in SUBSET UpTo(j)
      <3>1. ASSUME NEW m \in There, m <= i PROVE m <= j
        <4>1. m \in Nat
          BY ThereIs
        <4> QED BY <1>0, <1>4, <2>0, <3>1, <4>1
      <3> QED BY <3>1
    <2>2. j \in UpTo(j) /\ j \notin UpTo(i)
      BY <1>0, <1>4, <2>0
    <2>3. UpTo(i) # UpTo(j)
      BY <2>2
    <2> HIDE DEF UpTo
    <2> QED BY <1>1, <2>1, <2>3, FS_Subset
  <1> QED BY <1>1, <1>2, <1>3, <1>4, ThereIs, SMTT(30) DEF Place

LEMMA PlaceIsOne ==
  ASSUME NEW i \in There, NEW j \in There, Place(i) = Place(j)
  PROVE  i = j
  <1>1. i \in Nat /\ j \in Nat
    BY ThereIs
  <1>2. /\ i < j => Place(i) < Place(j)
        /\ j < i => Place(j) < Place(i)
        /\ Place(i) \in 1 .. Cardinality(There)
    BY PlaceGrows
  <1>3. Place(i) \in Nat
    BY <1>2, ThereIs
  <1> QED BY <1>1, <1>2, <1>3

\* Every place in the listing is taken.
LEMMA PlaceTaken ==
  ASSUME NEW p \in 1 .. Cardinality(There)
  PROVE  \E i \in There : Place(i) = p
  <1> DEFINE N == Cardinality(There)
             f == [i \in There |-> Place(i)]
  <1>1. f \in [There -> 1 .. N]
    BY PlaceGrows
  <1>2. \A a, b \in There : f[a] = f[b] => a = b
    BY PlaceIsOne
  <1>3. f \in Injection(There, 1 .. N)
    BY <1>1, <1>2 DEF Injection, IsInjective
  <1>4. IsFiniteSet(1 .. N) /\ Cardinality(1 .. N) = N
    BY ThereIs, Naturals1
  <1>5. f \in Surjection(There, 1 .. N)
    <2> HIDE DEF f
    <2> QED BY <1>3, <1>4, FS_Injection
  <1>6. \E i \in There : f[i] = p
    BY <1>5 DEF Surjection
  <1> QED BY <1>6

LEMMA ListingIs ==
  /\ Listing \in Seq(AllNames) /\ Len(Listing) = Cardinality(There)
  /\ \A i \in There : Place(i) \in 1 .. Len(Listing) /\ Listing[Place(i)] = Order[i]
  /\ \A p \in 1 .. Len(Listing) : \E i \in There : Place(i) = p /\ Listing[p] = Order[i]
  <1> DEFINE N == Cardinality(There)
             At(p) == CHOOSE i \in There : Place(i) = p
  <1>1. \A p \in 1 .. N : At(p) \in There /\ Place(At(p)) = p
    BY PlaceTaken
  <1>2. Listing = [p \in 1 .. N |-> Order[At(p)]]
    BY DEF Listing
  <1> HIDE DEF At
  <1>3. \A p \in 1 .. N : Listing[p] = Order[At(p)] /\ Listing[p] \in AllNames
    BY <1>1, <1>2, ThereIs, OrderIs
  <1>4. Listing \in Seq(AllNames) /\ Len(Listing) = N
    BY <1>2, <1>3, ThereIs
  <1>5. ASSUME NEW i \in There
        PROVE  Place(i) \in 1 .. N /\ Listing[Place(i)] = Order[i]
    <2>1. Place(i) \in 1 .. N
      BY PlaceGrows
    <2>2. At(Place(i)) = i
      BY <1>1, <2>1, PlaceIsOne
    <2> QED BY <1>3, <2>1, <2>2
  <1> QED BY <1>1, <1>3, <1>4, <1>5

\* It gives the names that are there, each once.
LEMMA ListingGives ==
  ASSUME others \subseteq Strangers
  PROVE  Range(Listing) = Present /\ IsInjective(Listing)
  <1>0. DOMAIN Listing = 1 .. Len(Listing)
    BY ListingIs
  <1>1. ASSUME NEW n \in Present PROVE n \in Range(Listing)
    <2>1. PICK i \in 1 .. Len(Order) : Order[i] = n
      BY OrderIs DEF Present, AllNames
    <2>2. i \in There
      BY <2>1 DEF There
    <2> QED BY <1>0, <2>1, <2>2, ListingIs DEF Range
  <1>2. ASSUME NEW p \in 1 .. Len(Listing) PROVE Listing[p] \in Present
    BY ListingIs DEF There
  <1>3. ASSUME NEW p \in 1 .. Len(Listing), NEW q \in 1 .. Len(Listing),
               Listing[p] = Listing[q]
        PROVE  p = q
    <2>1. PICK i \in There : Place(i) = p /\ Listing[p] = Order[i]
      BY ListingIs
    <2>2. PICK j \in There : Place(j) = q /\ Listing[q] = Order[j]
      BY ListingIs
    <2>3. i = j
      BY <1>3, <2>1, <2>2, ThereIs, OrderIs
    <2> QED BY <2>1, <2>2, <2>3
  <1> QED BY <1>0, <1>1, <1>2, <1>3 DEF Range, IsInjective

\* What comes into the directory moves names further back, never forward.
LEMMA PlaceShifts ==
  ASSUME Present \subseteq Present', NEW i \in There
  PROVE  i \in There' /\ Place(i) \in Nat /\ Place(i)' \in Nat /\ Place(i) <= Place(i)'
  <1>1. There \subseteq There'
    BY DEF There
  <1>2. There' \in SUBSET (1 .. Len(Order))
    BY DEF There
  <1>3. IsFiniteSet(There')
    BY <1>2, OrderIs, Naturals1, FS_Subset
  <1>4. IsFiniteSet({k \in There' : k <= i})
    BY <1>3, FS_Subset
  <1>5. {k \in There : k <= i} \in SUBSET {k \in There' : k <= i}
    BY <1>1
  <1>6. IsFiniteSet({k \in There : k <= i})
    BY <1>4, <1>5, FS_Subset
  <1> QED BY <1>1, <1>4, <1>5, <1>6, FS_Subset, FS_CardinalityType DEF Place

\* A page: the next PageSize names of the listing, or those that are left.
LEMMA PageIs ==
  ASSUME AuditTypeOK, ListPage
  PROVE  \E hi \in Nat :
           /\ hi = IF Len(listed) + PageSize <= Len(Listing)
                     THEN Len(listed) + PageSize ELSE Len(Listing)
           /\ listed' \in Seq(AllNames)
           /\ Len(listed') = IF Len(listed) <= hi THEN hi ELSE Len(listed)
           /\ \A p \in 1 .. Len(listed) : listed'[p] = listed[p]
           /\ \A p \in Len(listed) + 1 .. hi : listed'[p] = Listing[p]
           /\ apc' = IF Len(listed) + PageSize <= Len(Listing) THEN "list" ELSE "compare"
  <1> DEFINE off == Len(listed)
             N == Len(Listing)
             hi == IF off + PageSize <= N THEN off + PageSize ELSE N
             page == SubSeq(Listing, off + 1, hi)
  <1>0. /\ off \in Nat /\ N \in Nat /\ PageSize \in Nat \ {0} /\ hi \in Nat
        /\ listed \in Seq(AllNames) /\ Listing \in Seq(AllNames)
    BY ListingIs, ThereIs, AuditAssumption DEF AuditTypeOK, AllNames
  <1>1. Min({Offset + PageSize, N}) = hi
    <2> DEFINE a == off + PageSize
    <2>1. a \in Nat /\ N \in Nat
      BY <1>0
    <2> HIDE DEF a, N
    <2>2. Min({a, N}) = IF a <= N THEN a ELSE N
      BY <2>1 DEF Min
    <2> QED BY <2>2 DEF a, N, Offset
  <1>2. /\ listed' = listed \o page
        /\ apc' = IF Len(page) < PageSize THEN "compare" ELSE "list"
    BY <1>1 DEF ListPage, Offset
  <1> HIDE DEF off, N
  <1>h. hi <= N
    BY <1>0
  <1>3. /\ page \in Seq(AllNames)
        /\ Len(page) = IF off + 1 <= hi THEN hi - off ELSE 0
        /\ \A i \in 1 .. hi - off : page[i] = Listing[off + i]
    <2>1. ASSUME NEW i \in off + 1 .. hi PROVE Listing[i] \in AllNames
      BY <1>0, <1>h, <2>1, ListingIs DEF N
    <2> HIDE DEF hi
    <2> QED BY <1>0, <1>h, <2>1
  <1> HIDE DEF page
  <1>4. /\ listed' \in Seq(AllNames) /\ Len(listed') = off + Len(page)
        /\ \A p \in 1 .. off : listed'[p] = listed[p]
        /\ \A i \in 1 .. Len(page) : listed'[off + i] = page[i]
    <2>1. listed \in Seq(AllNames) /\ page \in Seq(AllNames) /\ Len(listed) = off
      BY <1>0, <1>3 DEF off
    <2>2. listed \o page \in Seq(AllNames) /\ Len(listed \o page) = off + Len(page)
      BY <2>1
    <2>3. \A p \in 1 .. off : (listed \o page)[p] = listed[p]
      BY <2>1
    <2>4. \A i \in 1 .. Len(page) : (listed \o page)[off + i] = page[i]
      BY <2>1
    <2> QED BY <1>2, <2>2, <2>3, <2>4
  <1>5. ASSUME NEW p \in off + 1 .. hi PROVE listed'[p] = Listing[p]
    <2> HIDE DEF hi
    <2>1. p - off \in 1 .. hi - off /\ off + (p - off) = p /\ Len(page) = hi - off
      BY <1>0, <1>3
    <2> QED BY <1>3, <1>4, <2>1
  <1>6. Len(listed') = IF off <= hi THEN hi ELSE off
    <2> HIDE DEF hi
    <2> QED BY <1>0, <1>3, <1>4
  <1>7. apc' = IF off + PageSize <= N THEN "list" ELSE "compare"
    BY <1>0, <1>2, <1>3
  <1> QED BY <1>0, <1>4, <1>5, <1>6, <1>7 DEF off, N

LEMMA SameListing ==
  ASSUME UNCHANGED <<remote, others>>
  PROVE  /\ Present' = Present /\ There' = There /\ Listing' = Listing
         /\ \A i : Place(i)' = Place(i)
  <1>1. Present' = Present
    BY DEF Present
  <1>2. There' = There
    BY <1>1 DEF There
  <1>3. \A i : Place(i)' = Place(i)
    BY <1>2 DEF Place
  <1>4. Listing' = Listing
    BY <1>2 DEF Listing, Place
  <1> QED BY <1>1, <1>2, <1>3, <1>4

-----------------------------------------------------------------------------
(* The uploads that go on. *)

\* What is known of the uploads does not depend on the remote directory.
LEMMA RemoteAside ==
  ASSUME IInv,
         UNCHANGED <<local, state, stLock, receipt, recLock, pc, mem, pos, tries,
                     ok, digest, faults>>
  PROVE  IInv'
  <1>1. RunTypes' /\ FileInRange' /\ LockIsHeld' /\ CopyIsState'
    BY DEF IInv, RunTypes, FileInRange, LockIsHeld, CopyIsState
  <1>2. PassedAreRecorded' /\ CompletedIsAll' /\ GoneIsRecorded' /\ NilIsCompleted'
    BY DEF IInv, PassedAreRecorded, CompletedIsAll, GoneIsRecorded, NilIsCompleted,
           Name
  <1> QED BY <1>1, <1>2 DEF IInv

\* A source directory only loses files.
LEMMA LocalShrinks ==
  ASSUME RunTypes, [Next]_vars, NEW j \in Jobs
  PROVE  local'[j] \subseteq local[j]
  <1>1. ASSUME NEW r \in Runners, SkipUploaded(r) \/ Remove(r)
        PROVE  local'[j] \subseteq local[j]
    <2>1. /\ local \in [Jobs -> SUBSET Names]
          /\ \/ local' = local
             \/ local' = [local EXCEPT ![JobOf[r]] = @ \ {Name(r)}]
      BY <1>1 DEF SkipUploaded, Remove, RemoveLocal, RunTypes
    <2> QED BY <2>1
  <1>2. ASSUME NEW r \in Runners,
               \/ Start(r) \/ LockState(r) \/ Load(r) \/ Put(r) \/ Hash(r)
               \/ Attempt(r) \/ Look(r) \/ Verify(r) \/ Record(r)
               \/ RequestFails(r) \/ Complete(r) \/ FinishHash(r) \/ FinishSave(r)
               \/ Kill(r) \/ StepFails(r)
        PROVE  local' = local
    BY <1>2 DEF Start, LockState, Load, Hash, Attempt, Look, Verify, Record, Put,
                Complete, FinishHash, FinishSave, Kill, StepFails, RequestFails
  <1>3. UNCHANGED vars => local' = local
    BY DEF vars
  <1> QED BY <1>1, <1>2, <1>3 DEF Next, Step, Faults

Outside == UploadGoesOn \/ Intrude \/ TidyUp \/ Spoil \/ UNCHANGED <<vars, auditVars>>

\* What others can do to an audit.
LEMMA OutsideIs ==
  ASSUME IInv, AuditTypes, Outside
  PROVE  /\ IInv' /\ AuditTypes'
         /\ UNCHANGED <<apc, hash, seen, listed, clean, vouched, before>>
         /\ StateGrows /\ \A j \in Jobs : local'[j] \subseteq local[j]
         /\ apc = "list" /\ ~moved' => Present \subseteq Present'
         /\ ~moved' => ~moved
         /\ ~spoiled' => ~spoiled
         /\ SingleJob /\ apc \in Late /\ ~spoiled' =>
              \A n \in Names : Holds(Audited, n) => Holds(Audited, n)'
         /\ ~steady' \/ UNCHANGED <<vars, auditVars>>
  <1> DEFINE Contents == Prior \union Jobs \union {Absent, Intruder}
  <1>0. /\ remote \in [Names -> Contents] /\ AuditTypeOK /\ RunTypes
        /\ Audited \in Jobs
    BY AuditAssumption DEF AuditTypes, IInv
  <1>1. CASE UploadGoesOn
    <2>1. /\ [Next]_vars
          /\ UNCHANGED <<others, apc, hash, seen, listed, clean, vouched, before,
                         moved, spoiled, meddles>>
          /\ steady' = FALSE
      BY <1>1 DEF UploadGoesOn, reader
    <2>2. IInv' /\ StateGrows /\ \A j \in Jobs : local'[j] \subseteq local[j]
      BY <1>0, <2>1, IInvStep, GrowStep, LocalShrinks DEF IInv
    <2>3. \/ remote' = remote
          \/ \E r \in Runners : remote' = [remote EXCEPT ![Name(r)] = JobOf[r]]
      BY <2>1, RemoteStep
    <2>4. /\ remote' \in [Names -> Contents]
          /\ \A n \in Names : remote[n] # Absent => remote'[n] # Absent
      BY <1>0, <2>3, BatchAssumption
    <2>5. Present \subseteq Present'
      BY <2>1, <2>4 DEF Present
    <2>6. SingleJob => \A n \in Names : Holds(Audited, n) => Holds(Audited, n)'
      BY <1>0, <2>1, HoldsKept
    <2>7. AuditTypes'
      BY <1>0, <2>1, <2>4 DEF AuditTypes, AuditTypeOK
    <2> QED BY <2>1, <2>2, <2>5, <2>6, <2>7
  <1>2. CASE Intrude \/ TidyUp
    <2>1. /\ UNCHANGED <<apc, hash, seen, listed, clean, vouched, before, spoiled>>
          /\ steady' = FALSE /\ meddles' \in 0 .. MaxMeddles
          /\ UNCHANGED vars
      BY <1>0, <1>2, AuditAssumption DEF Intrude, TidyUp, Meddle, reader, AuditTypeOK
    <2>2. UNCHANGED <<local, remote, state>>
      BY <2>1 DEF vars
    <2>3. IInv'
      BY <2>1, IInvStep
    <2>4. StateGrows
      BY <2>2 DEF StateGrows
    <2>5. /\ others' \subseteq Strangers /\ moved' \in BOOLEAN
          /\ ~moved' => ~moved
          /\ apc = "list" /\ ~moved' => others \subseteq others'
      BY <1>0, <1>2 DEF Intrude, TidyUp, AuditTypeOK
    <2>6. apc = "list" /\ ~moved' => Present \subseteq Present'
      BY <2>2, <2>5 DEF Present
    <2>7. AuditTypes'
      BY <1>0, <2>1, <2>2, <2>5 DEF AuditTypes, AuditTypeOK
    <2> QED BY <2>1, <2>2, <2>3, <2>4, <2>5, <2>6, <2>7 DEF Holds
  <1>3. CASE Spoil
    <2>1. /\ UNCHANGED <<apc, hash, seen, listed, clean, vouched, before, others>>
          /\ steady' = FALSE /\ meddles' \in 0 .. MaxMeddles
          /\ UNCHANGED <<local, state, stLock, receipt, recLock, pc, mem, pos, tries,
                         ok, digest, faults>>
      BY <1>0, <1>3, AuditAssumption DEF Spoil, Meddle, reader, AuditTypeOK
    <2>2. IInv'
      BY <2>1, RemoteAside
    <2>3. StateGrows
      BY <2>1 DEF StateGrows
    <2>4. PICK n \in Names, c \in {Absent, Intruder} :
            /\ remote' = [remote EXCEPT ![n] = c]
            /\ moved' = (moved \/ (c = Absent /\ apc = "list"))
            /\ spoiled' = (spoiled \/ apc \in Late)
      BY <1>3 DEF Spoil, Set
    <2>5. /\ remote' \in [Names -> Contents]
          /\ c # Absent => \A m \in Names : remote[m] # Absent => remote'[m] # Absent
      BY <1>0, <2>4
    <2>6. apc = "list" /\ ~moved' => Present \subseteq Present'
      BY <2>1, <2>4, <2>5 DEF Present
    <2>7. AuditTypes'
      <3>1. moved' \in BOOLEAN /\ spoiled' \in BOOLEAN
        BY <1>0, <2>4 DEF AuditTypeOK
      <3> QED BY <1>0, <2>1, <2>5, <3>1 DEF AuditTypes, AuditTypeOK
    <2> QED BY <2>1, <2>2, <2>3, <2>4, <2>6, <2>7
  <1>4. CASE UNCHANGED <<vars, auditVars>>
    <2>1. /\ UNCHANGED <<local, remote, state, others, before, moved, spoiled, steady,
                         meddles, apc, hash, seen, listed, clean, vouched>>
          /\ UNCHANGED vars
      BY <1>4 DEF vars, auditVars, reader
    <2>2. IInv'
      BY <2>1, IInvStep
    <2>3. AuditTypes'
      BY <2>1 DEF AuditTypes, AuditTypeOK
    <2> QED BY <1>4, <2>1, <2>2, <2>3, SameListing DEF StateGrows, Holds
  <1> QED BY <1>1, <1>2, <1>3, <1>4 DEF Outside

LEMMA DoneLasts ==
  ASSUME RunTypes, RunTypes', StateGrows, state[Audited] = Done
  PROVE  state'[Audited] = Done
  <1>1. Audited \in Jobs /\ state'[Audited] \in States
    BY AuditAssumption DEF RunTypes
  <1>2. Names \subseteq state'[Audited].uploaded /\ state'[Audited].completed
    BY <1>1 DEF StateGrows, Done
  <1> QED BY <1>1, <1>2 DEF States, Done

LEMMA OutsideKeeps ==
  ASSUME IInv, AuditInv, Outside
  PROVE  IInv' /\ AuditInv' /\ (SingleJob /\ Intact => Intact')
  <1>0. AuditTypes /\ Covered /\ NothingMissed /\ Found /\ Passed /\ Calm
    BY DEF AuditInv
  <1>1. /\ IInv' /\ AuditTypes'
        /\ UNCHANGED <<apc, hash, seen, listed, clean, vouched, before>>
        /\ StateGrows /\ \A j \in Jobs : local'[j] \subseteq local[j]
        /\ ~moved' => ~moved
        /\ ~spoiled' => ~spoiled
    BY <1>0, OutsideIs
  <1>2. apc = "list" /\ ~moved' => Present \subseteq Present'
    BY <1>0, OutsideIs
  <1>3. SingleJob /\ apc \in Late /\ ~spoiled' =>
          \A n \in Names : Holds(Audited, n) => Holds(Audited, n)'
    BY <1>0, OutsideIs
  <1>4. ~steady' \/ UNCHANGED <<vars, auditVars>>
    BY <1>0, OutsideIs
  <1>5. Covered'
    <2> SUFFICES ASSUME apc' = "list", ~moved'
                 PROVE  /\ before' \subseteq Present'
                        /\ \A i \in 1 .. Len(Order) :
                             Order[i] \in before' => \/ Order[i] \in Range(listed')
                                                     \/ Place(i)' > Len(listed')
      BY DEF Covered, Place
    <2>1. /\ Present \subseteq Present' /\ before \subseteq Present
          /\ \A i \in 1 .. Len(Order) :
               Order[i] \in before => \/ Order[i] \in Range(listed)
                                      \/ Place(i) > Len(listed)
      BY <1>0, <1>1, <1>2 DEF Covered
    <2>2. ASSUME NEW i \in 1 .. Len(Order), Order[i] \in before,
                 Order[i] \notin Range(listed)
          PROVE  Place(i)' > Len(listed)
      <3>1. i \in There
        BY <2>1, <2>2 DEF There
      <3>2. Place(i) \in Nat /\ Place(i)' \in Nat /\ Place(i) <= Place(i)'
        BY <2>1, <3>1, PlaceShifts
      <3>3. Place(i) > Len(listed) /\ Len(listed) \in Nat
        BY <1>0, <2>1, <2>2 DEF AuditTypes, AuditTypeOK
      <3> QED BY <3>2, <3>3
    <2> QED BY <1>1, <2>1, <2>2
  <1>6. NothingMissed'
    BY <1>0, <1>1 DEF NothingMissed
  <1>7. Found'
    <2>1. Audited \in Jobs /\ RunTypes /\ RunTypes'
      BY <1>1, AuditAssumption DEF IInv
    <2>2. state[Audited] = Done => state'[Audited] = Done
      BY <1>1, <2>1, DoneLasts
    <2>3. local[Audited] = {} => local'[Audited] = {}
      BY <1>1, <2>1
    <2> QED BY <1>0, <1>1, <2>2, <2>3 DEF Found
  <1>8. Passed'
    BY <1>0, <1>1 DEF Passed
  <1>9. Calm'
    <2>1. CASE ~steady'
      BY <2>1 DEF Calm
    <2>2. CASE UNCHANGED <<vars, auditVars>>
      <3>1. UNCHANGED <<local, remote, state, receipt, others, hash, listed, clean,
                        vouched, apc, steady>>
        BY <2>2 DEF vars, auditVars, reader
      <3>2. Present' = Present /\ Listing' = Listing
        BY <3>1, SameListing
      <3>3. AllIsWell' = AllIsWell
        BY <3>1, <3>2 DEF AllIsWell, Holds, Accepted
      <3> QED BY <1>0, <3>1, <3>2, <3>3 DEF Calm
    <2> QED BY <1>4, <2>1, <2>2
  <1>10. SingleJob /\ Intact => Intact'
    BY <1>1, <1>3 DEF Intact, Holds
  <1> QED BY <1>1, <1>5, <1>6, <1>7, <1>8, <1>9, <1>10 DEF AuditInv

-----------------------------------------------------------------------------
(* The audit's own steps. *)

LEMMA StandStill ==
  ASSUME IInv, AuditInv, UNCHANGED vars, UNCHANGED others
  PROVE  /\ IInv'
         /\ UNCHANGED <<local, remote, state, receipt, pc>>
         /\ Present' = Present /\ There' = There /\ Listing' = Listing
         /\ AllIsWell' = AllIsWell
         /\ \A i : Place(i)' = Place(i)
  <1>1. UNCHANGED <<local, remote, state, receipt, pc>>
    BY DEF vars
  <1>2. /\ Present' = Present /\ There' = There /\ Listing' = Listing
        /\ \A i : Place(i)' = Place(i)
    BY <1>1, SameListing
  <1>3. AllIsWell' = AllIsWell
    BY <1>1, <1>2 DEF AllIsWell, Holds, Accepted
  <1>4. IInv'
    BY IInvStep
  <1> QED BY <1>1, <1>2, <1>3, <1>4

\* Where no page is read, nothing about the listing changes.
LEMMA NoPage ==
  ASSUME Covered, NothingMissed, UNCHANGED <<listed, before, moved>>,
         apc' # "list",
         apc' \in {"compare", "metadata"} \union Late =>
           apc \in {"compare", "metadata"} \union Late
  PROVE  Covered' /\ NothingMissed'
  BY DEF Covered, NothingMissed

LEMMA HashStateKeeps ==
  ASSUME IInv, AuditInv, HashState, UNCHANGED vars
  PROVE  AuditInv' /\ Intact'
  <1>0. AuditTypes /\ Covered /\ NothingMissed /\ Found /\ Passed /\ Calm
    BY DEF AuditInv
  <1>1. /\ apc = "off" /\ hash' = state[Audited] /\ apc' = "load"
        /\ steady' = (AllIsWell /\ \A r \in Runners : pc[r] = "idle")
        /\ UNCHANGED <<others, seen, listed, clean, vouched, before, moved, spoiled,
                       meddles>>
    BY DEF HashState
  <1>2. /\ UNCHANGED <<local, remote, state, receipt, pc>>
        /\ AllIsWell' = AllIsWell
    BY <1>1, StandStill
  <1>3. AuditTypes'
    <2>1. state[Audited] \in States
      BY AuditAssumption DEF IInv, RunTypes
    <2>2. steady' \in BOOLEAN
      BY <1>1
    <2> QED BY <1>0, <1>1, <1>2, <2>1, <2>2 DEF AuditTypes, AuditTypeOK
  <1>4. Covered' /\ NothingMissed'
    BY <1>1 DEF Covered, NothingMissed, Late
  <1>5. Found' /\ Passed' /\ Intact'
    BY <1>1 DEF Found, Passed, Intact, PastLoad, Late
  <1>6. Calm'
    BY <1>0, <1>1, <1>2 DEF Calm, AuditTypes
  <1> QED BY <1>3, <1>4, <1>5, <1>6 DEF AuditInv

LEMMA LoadAuditedKeeps ==
  ASSUME IInv, AuditInv, LoadAudited, UNCHANGED vars
  PROVE  AuditInv' /\ Intact'
  <1>0. AuditTypes /\ Covered /\ NothingMissed /\ Found /\ Passed /\ Calm
    BY DEF AuditInv
  <1>1. /\ apc = "load" /\ seen' = state[Audited] /\ before' = Present
        /\ clean' = (clean /\ seen'.completed /\ seen'.uploaded = Names
                           /\ Names \subseteq Expected)
        /\ apc' = "list"
        /\ UNCHANGED <<others, hash, listed, vouched, moved, spoiled, steady, meddles>>
    BY DEF LoadAudited, Note
  <1>2. /\ UNCHANGED <<local, remote, state, receipt, pc>>
        /\ AllIsWell' = AllIsWell /\ Present' = Present /\ Listing' = Listing
        /\ \A i : Place(i)' = Place(i)
    BY <1>1, StandStill
  <1>3. listed = <<>> /\ clean
    BY <1>0, <1>1 DEF AuditTypes
  <1>4. state[Audited] \in States
    BY AuditAssumption DEF IInv, RunTypes
  <1>5. AuditTypes'
    <2>1. Present \subseteq Names \union Strangers
      BY <1>0 DEF AuditTypes, AuditTypeOK, Present
    <2> QED BY <1>0, <1>1, <1>2, <1>4, <2>1 DEF AuditTypes, AuditTypeOK
  <1>6. Covered'
    <2>1. ASSUME NEW i \in 1 .. Len(Order), Order[i] \in Present
          PROVE  Place(i) > 0
      <3>1. i \in There
        BY <2>1 DEF There
      <3> QED BY <3>1, PlaceGrows, ThereIs
    <2> QED BY <1>1, <1>2, <1>3, <2>1 DEF Covered
  <1>7. NothingMissed' /\ Passed' /\ Intact'
    BY <1>1 DEF NothingMissed, Passed, Intact, Late
  <1>8. Found'
    <2>1. clean' => state[Audited] = Done
      BY <1>1, <1>4 DEF States, Done
    <2> QED BY <1>1, <1>2, <2>1 DEF Found, PastLoad, Late
  <1>9. Calm'
    <2> SUFFICES ASSUME steady PROVE Calm'
      BY <1>1 DEF Calm
    <2>1. AllIsWell /\ hash = state[Audited]
      BY <1>0 DEF Calm
    <2>2. clean'
      <3>1. seen' = Done /\ Names \subseteq Expected
        BY <1>1, <2>1 DEF AllIsWell, Done
      <3>2. seen'.completed /\ seen'.uploaded = Names
        BY <3>1 DEF Done
      <3> QED BY <1>1, <1>3, <3>1, <3>2
    <2>3. Len(Listing) \in Nat
      BY ListingIs, ThereIs
    <2> QED BY <1>1, <1>2, <1>3, <2>1, <2>2, <2>3 DEF Calm
  <1> QED BY <1>5, <1>6, <1>7, <1>8, <1>9 DEF AuditInv

LEMMA ListPageKeeps ==
  ASSUME IInv, AuditInv, ListPage, UNCHANGED vars
  PROVE  AuditInv' /\ Intact'
  <1>0. AuditTypes /\ Covered /\ NothingMissed /\ Found /\ Passed /\ Calm
    BY DEF AuditInv
  <1>1. /\ apc = "list" /\ apc' \in {"list", "compare"}
        /\ UNCHANGED <<others, hash, seen, clean, vouched, before, moved, spoiled,
                       steady, meddles>>
    BY DEF ListPage
  <1>2. /\ UNCHANGED <<local, remote, state, receipt, pc>>
        /\ AllIsWell' = AllIsWell /\ Present' = Present /\ Listing' = Listing
        /\ \A i : Place(i)' = Place(i)
    BY <1>1, StandStill
  <1> DEFINE off == Len(listed)
             N == Len(Listing)
             len == Len(listed')
  <1>3. PICK hi \in Nat :
          /\ hi = IF off + PageSize <= N THEN off + PageSize ELSE N
          /\ listed' \in Seq(AllNames)
          /\ len = IF off <= hi THEN hi ELSE off
          /\ \A p \in 1 .. off : listed'[p] = listed[p]
          /\ \A p \in off + 1 .. hi : listed'[p] = Listing[p]
          /\ apc' = IF off + PageSize <= N THEN "list" ELSE "compare"
    BY <1>0, PageIs DEF AuditTypes
  <1>4. /\ off \in Nat /\ N \in Nat /\ PageSize \in Nat \ {0} /\ len \in Nat
        /\ N <= Len(Order) /\ off <= Len(Order) /\ Len(Order) \in Nat
        /\ DOMAIN listed = 1 .. off /\ DOMAIN listed' = 1 .. len
    BY <1>0, <1>3, ListingIs, ThereIs, OrderIs, AuditAssumption
       DEF AuditTypes, AuditTypeOK
  <1> HIDE DEF off, N, len
  <1>5. AuditTypes'
    <2>1. len <= Len(Order)
      BY <1>3, <1>4
    <2>2. Len(listed') <= Len(Order)
      BY <2>1 DEF len
    <2> QED BY <1>0, <1>1, <1>2, <1>3, <2>2 DEF AuditTypes, AuditTypeOK, AllNames
  <1>6. ASSUME NEW i \in There, Order[i] \in Range(listed) \/ Place(i) > off
        PROVE  Order[i] \in Range(listed') \/ Place(i) > len
    <2>1. CASE Order[i] \in Range(listed)
      <3>1. PICK p \in 1 .. off : listed[p] = Order[i]
        BY <1>4, <2>1 DEF Range
      <3>2. p \in 1 .. len /\ listed'[p] = Order[i]
        BY <1>3, <1>4, <3>1
      <3> QED BY <1>4, <3>2 DEF Range
    <2>2. CASE Place(i) > off /\ Place(i) <= hi
      <3>1. Place(i) \in 1 .. N /\ Listing[Place(i)] = Order[i]
        BY ListingIs DEF N
      <3>2. Place(i) \in off + 1 .. hi /\ Place(i) \in 1 .. len
        BY <1>3, <1>4, <2>2, <3>1
      <3>3. listed'[Place(i)] = Order[i]
        BY <1>3, <3>1, <3>2
      <3> QED BY <1>4, <3>2, <3>3 DEF Range
    <2>3. CASE Place(i) > off /\ Place(i) > hi
      BY <1>3, <2>3
    <2>4. Place(i) \in Nat
      BY PlaceGrows, ThereIs
    <2> QED BY <1>3, <1>4, <1>6, <2>1, <2>2, <2>3, <2>4
  <1>7. ASSUME ~moved, NEW i \in 1 .. Len(Order), Order[i] \in before
        PROVE  /\ i \in There
               /\ Order[i] \in Range(listed') \/ Place(i) > len
    <2>1. /\ before \subseteq Present
          /\ Order[i] \in Range(listed) \/ Place(i) > off
      BY <1>0, <1>1, <1>7 DEF Covered, off
    <2>2. i \in There
      BY <1>7, <2>1 DEF There
    <2> QED BY <1>6, <2>1, <2>2
  <1>8. Covered'
    BY <1>0, <1>1, <1>2, <1>7 DEF Covered, len
  <1>9. NothingMissed'
    <2> SUFFICES ASSUME apc' = "compare", ~moved, NEW n \in before
                 PROVE  n \in Range(listed')
      BY <1>1 DEF NothingMissed, Late
    <2>1. PICK i \in 1 .. Len(Order) : Order[i] = n
      BY <1>0, OrderIs DEF AuditTypes, AuditTypeOK, AllNames
    <2>2. i \in There /\ (n \in Range(listed') \/ Place(i) > len)
      BY <1>7, <2>1
    <2>3. Place(i) \in 1 .. N
      BY <2>2, ListingIs DEF N
    <2>4. hi = N /\ len >= hi
      BY <1>3, <1>4
    <2> QED BY <1>4, <2>2, <2>3, <2>4
  <1>10. Found' /\ Passed' /\ Intact'
    BY <1>0, <1>1, <1>2 DEF Found, Passed, Intact, PastLoad, Late
  <1>11. Calm'
    <2> SUFFICES ASSUME steady PROVE Calm'
      BY <1>1 DEF Calm
    <2>1. /\ AllIsWell /\ clean /\ hash = state[Audited]
          /\ off <= N /\ \A p \in 1 .. off : listed[p] = Listing[p]
      BY <1>0, <1>1 DEF Calm, off, N
    <2>2. off <= hi /\ hi <= N /\ len = hi
      BY <1>3, <1>4, <2>1
    <2>3. \A p \in 1 .. len : listed'[p] = Listing[p]
      BY <1>3, <1>4, <2>1, <2>2
    <2>4. apc' = "compare" => listed' = Listing
      <3>1. SUFFICES ASSUME apc' = "compare" PROVE listed' = Listing
        OBVIOUS
      <3>2. len = N
        BY <1>3, <2>2, <3>1
      <3>3. listed' \in Seq(AllNames) /\ Listing \in Seq(AllNames)
            /\ Len(listed') = N /\ Len(Listing) = N
        BY <1>3, <3>2, ListingIs DEF len, N
      <3> QED BY <2>3, <3>2, <3>3
    <2>5. len <= N
      BY <1>4, <2>2
    <2> QED BY <1>1, <1>2, <2>1, <2>3, <2>4, <2>5 DEF Calm, len, N
  <1> QED BY <1>5, <1>8, <1>9, <1>10, <1>11 DEF AuditInv

LEMMA CompareKeeps ==
  ASSUME IInv, AuditInv, Compare, UNCHANGED vars
  PROVE  AuditInv' /\ Intact'
  <1>0. AuditTypes /\ Covered /\ NothingMissed /\ Found /\ Passed /\ Calm
    BY DEF AuditInv
  <1>1. /\ apc = "compare" /\ apc' = "metadata"
        /\ clean' = (clean /\ Range(listed) = Expected /\ IsInjective(listed))
        /\ UNCHANGED <<others, hash, seen, listed, vouched, before, moved, spoiled,
                       steady, meddles>>
    BY DEF Compare, Note
  <1>2. /\ UNCHANGED <<local, remote, state, receipt, pc>>
        /\ AllIsWell' = AllIsWell /\ Listing' = Listing
    BY <1>1, StandStill
  <1>3. AuditTypes'
    BY <1>0, <1>1, <1>2 DEF AuditTypes, AuditTypeOK
  <1>4. Covered' /\ NothingMissed'
    BY <1>0, <1>1, NoPage
  <1>5. Found' /\ Passed' /\ Intact'
    BY <1>0, <1>1, <1>2 DEF Found, Passed, Intact, PastLoad, Late
  <1>6. Calm'
    <2> SUFFICES ASSUME steady PROVE Calm'
      BY <1>1 DEF Calm
    <2>1. AllIsWell /\ clean /\ hash = state[Audited] /\ listed = Listing
      BY <1>0, <1>1 DEF Calm
    <2>2. Range(listed) = Expected /\ IsInjective(listed)
      BY <1>0, <2>1, ListingGives DEF AllIsWell, AuditTypes, AuditTypeOK
    <2> QED BY <1>1, <1>2, <2>1, <2>2 DEF Calm
  <1> QED BY <1>3, <1>4, <1>5, <1>6 DEF AuditInv

LEMMA MetadataKeeps ==
  ASSUME IInv, AuditInv, Metadata, UNCHANGED vars
  PROVE  AuditInv' /\ Intact'
  <1>0. AuditTypes /\ Covered /\ NothingMissed /\ Found /\ Passed /\ Calm
    BY DEF AuditInv
  <1>1. /\ apc = "metadata" /\ apc' = "local"
        /\ clean' = (clean /\ \A n \in Names \cap Range(listed) : Holds(Audited, n))
        /\ UNCHANGED <<others, hash, seen, listed, vouched, before, moved, spoiled,
                       steady, meddles>>
    BY DEF Metadata, Note
  <1>2. /\ UNCHANGED <<local, remote, state, receipt, pc>>
        /\ AllIsWell' = AllIsWell /\ Listing' = Listing
    BY <1>1, StandStill
  <1>3. AuditTypes'
    BY <1>0, <1>1, <1>2 DEF AuditTypes, AuditTypeOK, Late
  <1>4. Covered' /\ NothingMissed'
    BY <1>0, <1>1, NoPage
  <1>5. Found' /\ Passed'
    BY <1>0, <1>1, <1>2 DEF Found, Passed, PastLoad, Late
  <1>6. Intact'
    <2> SUFFICES ASSUME clean', NEW n \in Names PROVE Holds(Audited, n)'
      BY DEF Intact, Holds
    <2>1. Names \subseteq Expected /\ Range(listed) = Expected
      BY <1>0, <1>1 DEF Found, PastLoad
    <2>2. Holds(Audited, n)
      BY <1>1, <2>1
    <2> QED BY <1>2, <2>2 DEF Holds
  <1>7. Calm'
    <2> SUFFICES ASSUME steady PROVE Calm'
      BY <1>1 DEF Calm
    <2>1. AllIsWell /\ clean /\ hash = state[Audited]
      BY <1>0 DEF Calm
    <2>2. clean'
      BY <1>1, <2>1 DEF AllIsWell
    <2> QED BY <1>1, <1>2, <2>1, <2>2 DEF Calm
  <1> QED BY <1>3, <1>4, <1>5, <1>6, <1>7 DEF AuditInv

LEMMA GlobLocalKeeps ==
  ASSUME IInv, AuditInv, GlobLocal, UNCHANGED vars
  PROVE  AuditInv' /\ (Intact => Intact')
  <1>0. AuditTypes /\ Covered /\ NothingMissed /\ Found /\ Passed /\ Calm
    BY DEF AuditInv
  <1>1. /\ apc = "local" /\ apc' = "receipt"
        /\ clean' = (clean /\ local[Audited] = {})
        /\ UNCHANGED <<others, hash, seen, listed, vouched, before, moved, spoiled,
                       steady, meddles>>
    BY DEF GlobLocal, Note
  <1>2. /\ UNCHANGED <<local, remote, state, receipt, pc>>
        /\ AllIsWell' = AllIsWell /\ Listing' = Listing
    BY <1>1, StandStill
  <1>3. AuditTypes'
    BY <1>0, <1>1, <1>2 DEF AuditTypes, AuditTypeOK, Late
  <1>4. Covered' /\ NothingMissed'
    BY <1>0, <1>1, NoPage DEF Late
  <1>5. Found' /\ Passed' /\ (Intact => Intact')
    BY <1>0, <1>1, <1>2 DEF Found, Passed, Intact, Holds, PastLoad, Late
  <1>6. Calm'
    BY <1>0, <1>1, <1>2 DEF Calm, AllIsWell
  <1> QED BY <1>3, <1>4, <1>5, <1>6 DEF AuditInv

LEMMA LoadReceiptKeeps ==
  ASSUME IInv, AuditInv, LoadReceipt, UNCHANGED vars
  PROVE  AuditInv' /\ (Intact => Intact')
  <1>0. AuditTypes /\ Covered /\ NothingMissed /\ Found /\ Passed /\ Calm
    BY DEF AuditInv
  <1>1. /\ apc = "receipt" /\ apc' = "vouch" /\ vouched' = receipt[Audited]
        /\ UNCHANGED <<others, hash, seen, listed, clean, before, moved, spoiled,
                       steady, meddles>>
    BY DEF LoadReceipt
  <1>2. /\ UNCHANGED <<local, remote, state, receipt, pc>>
        /\ AllIsWell' = AllIsWell /\ Listing' = Listing
    BY <1>1, StandStill
  <1>3. AuditTypes'
    <2>1. receipt[Audited] \in Receipts
      BY AuditAssumption DEF IInv, RunTypes
    <2> QED BY <1>0, <1>1, <1>2, <2>1 DEF AuditTypes, AuditTypeOK, Late
  <1>4. Covered' /\ NothingMissed'
    BY <1>0, <1>1, NoPage DEF Late
  <1>5. Found' /\ Passed' /\ (Intact => Intact')
    BY <1>0, <1>1, <1>2 DEF Found, Passed, Intact, Holds, PastLoad, Late
  <1>6. Calm'
    BY <1>0, <1>1, <1>2 DEF Calm
  <1> QED BY <1>3, <1>4, <1>5, <1>6 DEF AuditInv

LEMMA VouchKeeps ==
  ASSUME IInv, AuditInv, Vouch, UNCHANGED vars
  PROVE  AuditInv' /\ (Intact => Intact')
  <1>0. AuditTypes /\ Covered /\ NothingMissed /\ Found /\ Passed /\ Calm
    BY DEF AuditInv
  <1>1. /\ apc = "vouch" /\ apc' = "verdict"
        /\ clean' = (clean /\ vouched.status = "succeeded"
                           /\ vouched.digest = state[Audited])
        /\ UNCHANGED <<others, hash, seen, listed, vouched, before, moved, spoiled,
                       steady, meddles>>
    BY DEF Vouch, Note
  <1>2. /\ UNCHANGED <<local, remote, state, receipt, pc>>
        /\ AllIsWell' = AllIsWell /\ Listing' = Listing
    BY <1>1, StandStill
  <1>3. AuditTypes'
    BY <1>0, <1>1, <1>2 DEF AuditTypes, AuditTypeOK, Late
  <1>4. Covered' /\ NothingMissed'
    BY <1>0, <1>1, NoPage DEF Late
  <1>5. Found' /\ Passed' /\ (Intact => Intact')
    BY <1>0, <1>1, <1>2 DEF Found, Passed, Intact, Holds, PastLoad, Late
  <1>6. Calm'
    <2> SUFFICES ASSUME steady PROVE Calm'
      BY <1>1 DEF Calm
    <2>1. AllIsWell /\ clean /\ hash = state[Audited] /\ vouched = receipt[Audited]
      BY <1>0, <1>1 DEF Calm
    <2>2. clean'
      BY <1>1, <2>1 DEF AllIsWell, Accepted
    <2> QED BY <1>1, <1>2, <2>1, <2>2 DEF Calm
  <1> QED BY <1>3, <1>4, <1>5, <1>6 DEF AuditInv

LEMMA ConcludeKeeps ==
  ASSUME IInv, AuditInv, Conclude, UNCHANGED vars
  PROVE  AuditInv' /\ (Intact => Intact')
  <1>0. AuditTypes /\ Covered /\ NothingMissed /\ Found /\ Passed /\ Calm
    BY DEF AuditInv
  <1>1. /\ apc = "verdict" /\ apc' \in {"passed", "failed"}
        /\ apc' = IF clean /\ hash = state[Audited] THEN "passed" ELSE "failed"
        /\ UNCHANGED <<others, hash, seen, listed, clean, vouched, before, moved,
                       spoiled, steady, meddles>>
    BY DEF Conclude
  <1>2. /\ UNCHANGED <<local, remote, state, receipt, pc>>
        /\ AllIsWell' = AllIsWell /\ Listing' = Listing
    BY <1>1, StandStill
  <1>3. AuditTypes'
    BY <1>0, <1>1, <1>2 DEF AuditTypes, AuditTypeOK, Late
  <1>4. Covered' /\ NothingMissed'
    BY <1>0, <1>1, NoPage DEF Late
  <1>5. Found' /\ (Intact => Intact')
    BY <1>0, <1>1, <1>2 DEF Found, Intact, Holds, PastLoad, Late
  <1>6. Passed'
    BY <1>0, <1>1, <1>2 DEF Passed, Found, PastLoad, Late
  <1>7. Calm'
    BY <1>0, <1>1, <1>2 DEF Calm
  <1> QED BY <1>3, <1>4, <1>5, <1>6, <1>7 DEF AuditInv

LEMMA AuditStopsKeeps ==
  ASSUME IInv, AuditInv, AuditStops, UNCHANGED vars
  PROVE  AuditInv' /\ Intact'
  <1>0. AuditTypes /\ Covered /\ NothingMissed /\ Found /\ Passed /\ Calm
    BY DEF AuditInv
  <1>1. /\ apc' = "stopped"
        /\ UNCHANGED <<others, hash, seen, listed, clean, vouched, before, moved,
                       spoiled, steady, meddles>>
    BY DEF AuditStops
  <1>2. /\ UNCHANGED <<local, remote, state, receipt, pc>>
        /\ AllIsWell' = AllIsWell /\ Listing' = Listing
    BY <1>1, StandStill
  <1>3. AuditTypes'
    BY <1>0, <1>1, <1>2 DEF AuditTypes, AuditTypeOK, Late
  <1>4. Covered' /\ NothingMissed' /\ Found' /\ Passed' /\ Intact'
    BY <1>1 DEF Covered, NothingMissed, Found, Passed, Intact, PastLoad, Late
  <1>5. Calm'
    BY <1>0, <1>1, <1>2 DEF Calm
  <1> QED BY <1>3, <1>4, <1>5 DEF AuditInv

-----------------------------------------------------------------------------
(* The theorems about the audit. *)

LEMMA AuditInitInv == AuditInit => IInv /\ AuditInv /\ Intact
  <1> SUFFICES ASSUME AuditInit PROVE IInv /\ AuditInv /\ Intact
    OBVIOUS
  <1>1. IInv
    BY IInvInit DEF AuditInit
  <1>2. /\ remote \in [Names -> Prior \union Jobs \union {Absent, Intruder}]
        /\ others \subseteq Strangers
        /\ apc = "off" /\ hash = Fresh /\ seen = Fresh /\ listed = <<>>
        /\ clean = TRUE /\ vouched = [status |-> "none", digest |-> Fresh]
        /\ before = {} /\ moved = FALSE /\ spoiled = FALSE /\ steady = FALSE
        /\ meddles = 0
    <2>1. remote \in [Names -> Prior]
      BY DEF AuditInit, Init
    <2> QED BY <2>1 DEF AuditInit
  <1>3. AuditTypes
    <2>1. Fresh \in States /\ [status |-> "none", digest |-> Fresh] \in Receipts
      BY FreshIsState DEF Receipts
    <2>2. listed \in Seq(Names \union Strangers) /\ Len(listed) <= Len(Order)
      BY <1>2, OrderIs
    <2>3. meddles \in 0 .. MaxMeddles
      BY <1>2, AuditAssumption
    <2>4. others \subseteq Strangers /\ before \subseteq Names \union Strangers
      BY <1>2
    <2>5. remote \in [Names -> Prior \union Jobs \union {Absent, Intruder}]
      BY <1>2
    <2>6. apc \in {"off", "load"} => listed = <<>> /\ clean
      BY <1>2
    <2> QED BY <1>2, <2>1, <2>2, <2>3, <2>4, <2>5, <2>6, Zenon DEF AuditTypes, AuditTypeOK
  <1>4. Covered /\ NothingMissed /\ Found /\ Passed /\ Calm /\ Intact
    BY <1>2 DEF Covered, NothingMissed, Found, Passed, Calm, Intact, PastLoad, Late
  <1> QED BY <1>1, <1>3, <1>4 DEF AuditInv

LEMMA AuditStep ==
  IInv /\ AuditInv /\ [AuditNext]_<<vars, auditVars>>
    => IInv' /\ AuditInv' /\ (SingleJob /\ Intact => Intact')
  <1> SUFFICES ASSUME IInv, AuditInv, [AuditNext]_<<vars, auditVars>>
               PROVE  IInv' /\ AuditInv' /\ (SingleJob /\ Intact => Intact')
    OBVIOUS
  <1>1. CASE Audit /\ UNCHANGED vars
    <2>1. IInv'
      BY <1>1, IInvStep
    <2>2. AuditInv' /\ (Intact => Intact')
      BY <1>1, HashStateKeeps, LoadAuditedKeeps, ListPageKeeps, CompareKeeps,
         MetadataKeeps, GlobLocalKeeps, LoadReceiptKeeps, VouchKeeps, ConcludeKeeps,
         AuditStopsKeeps DEF Audit
    <2> QED BY <2>1, <2>2
  <1>2. CASE Outside
    BY <1>2, OutsideKeeps
  <1> QED BY <1>1, <1>2 DEF AuditNext, Outside

LEMMA AuditAlways == AuditSpec => [](IInv /\ AuditInv)
  BY AuditInitInv, AuditStep, PTL DEF AuditSpec

LEMMA IntactAlways == SingleJob => (AuditSpec => []Intact)
  <1> SUFFICES ASSUME SingleJob PROVE AuditSpec => []Intact
    OBVIOUS
  <1>1. IInv /\ AuditInv /\ Intact /\ [AuditNext]_<<vars, auditVars>> => Intact'
    BY AuditStep
  <1> QED BY <1>1, AuditInitInv, AuditAlways, PTL DEF AuditSpec

\* What audit-batch reads and notes stays of its type, and ListDir's pages end: they
\* never hold more entries than there are names, though an entry that a new name
\* pushes behind the offset is given twice.
THEOREM AuditTypesHold == AuditSpec => []AuditTypeOK
  <1>1. AuditInv => AuditTypeOK
    BY DEF AuditInv, AuditTypes
  <1> QED BY <1>1, AuditAlways, PTL

\* ListDir leaves out no name that was there when its first page was read, unless
\* something is removed before its last page, whatever is added in between, for
\* every page size and every directory.
THEOREM NothingIsMissed == AuditSpec => []NothingMissed
  <1>1. AuditInv => NothingMissed
    BY DEF AuditInv
  <1> QED BY <1>1, AuditAlways, PTL

\* audit-batch never fails when all is well and nobody touches anything, for every
\* page size: a last page that is full, or empty, does no harm.
THEOREM AlarmsAreReal == AuditSpec => []NoFalseAlarm
  <1>1. AuditInv => NoFalseAlarm
    BY DEF AuditInv, Calm, NoFalseAlarm
  <1> QED BY <1>1, AuditAlways, PTL

\* In a remote directory of one job, an audit that passes is right, though it takes
\* no lock and reads one thing after the other while uploads and others go on.
THEOREM AuditIsSound == SingleJob => (AuditSpec => []AuditSound)
  <1> SUFFICES ASSUME SingleJob PROVE AuditSpec => []AuditSound
    OBVIOUS
  <1>1. ASSUME AuditInv, Intact PROVE AuditSound
    <2> SUFFICES ASSUME apc = "passed"
                 PROVE  /\ state[Audited] = Done /\ seen = hash
                        /\ vouched.digest = hash /\ local[Audited] = {}
                        /\ ~spoiled => \A n \in Names : Holds(Audited, n)
                        /\ ~moved => before \subseteq Expected
      BY DEF AuditSound, Done
    <2>1. /\ clean /\ hash = Done /\ seen = Done /\ state[Audited] = Done
          /\ Range(listed) = Expected /\ local[Audited] = {} /\ vouched.digest = Done
      BY <1>1 DEF AuditInv, Passed, Found, PastLoad, Late
    <2>2. ~spoiled => \A n \in Names : Holds(Audited, n)
      BY <1>1, <2>1 DEF Intact, Late
    <2>3. ~moved => before \subseteq Range(listed)
      BY <1>1 DEF AuditInv, NothingMissed, Late
    <2> QED BY <2>1, <2>2, <2>3
  <1>2. AuditInv /\ Intact => AuditSound
    BY <1>1
  <1> QED BY <1>2, AuditAlways, IntactAlways, PTL
=============================================================================
