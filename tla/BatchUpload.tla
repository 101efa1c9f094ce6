---------------------------- MODULE BatchUpload ----------------------------
(***************************************************************************)
(* panpack upload-batch: processes that upload a frozen set of sealed      *)
(* files, each under the flock of its run receipt and of its upload state, *)
(* deleting the local files as they go, while others may run on the same   *)
(* state or aim at the same remote directory.                              *)
(*                                                                         *)
(* A job is a state file with its source directory; a file's content is    *)
(* told by the job it belongs to.  Sealed files are not changed by others. *)
(* An absent state file is the Fresh value the first run freezes.  A state *)
(* file's SHA-256 is the state itself (timestamps and counters left out),  *)
(* so a digest matches here whenever it could.                             *)
(***************************************************************************)
EXTENDS Integers, Sequences

CONSTANTS Jobs,        \* state files, each with its source directory
          Runners,     \* processes
          JobOf,       \* the job each runner works on
          NoReceipt,   \* runners started with --receipt-file -
          Deleters,    \* runners started with --delete-after-verify
          Files,       \* the frozen names, in order, the same in every job
          Prior,       \* what remote names may hold beforehand
          Absent,      \* no remote file of that name
          Free,        \* a lock nobody holds
          MaxAttempts, \* --max-file-attempts
          MaxFaults    \* bound on kills, errors and failed requests

Names == {Files[k] : k \in 1 .. Len(Files)}

ASSUME BatchAssumption == /\ Files \in Seq(Names)
                          /\ JobOf \in [Runners -> Jobs]
                          /\ NoReceipt \subseteq Runners
                          /\ Deleters \subseteq Runners
                          /\ Free \notin Runners
                          /\ Absent \in Prior \ Jobs
                          /\ MaxAttempts \in Nat \ {0} /\ MaxFaults \in Nat

VARIABLES local,   \* per job, the names still in the source directory
          remote,  \* per name, whose content it holds remotely
          state,   \* per job, the upload state file
          stLock,  \* per job, the holder of <state>.lock
          receipt, \* per job, the run receipt
          recLock, \* per job, the holder of <receipt>.lock
          pc,      \* per runner, where it is
          mem,     \* per runner, its copy of the upload state
          pos,     \* per runner, the file it is at
          tries,   \* per runner, attempts made for that file
          ok,      \* per runner, whether batchupload.Run returned nil
          digest,  \* per runner, the state hash Finish has taken
          faults

vars == <<local, remote, state, stLock, receipt, recLock, pc, mem, pos, tries,
          ok, digest, faults>>

Fresh == [uploaded |-> {}, completed |-> FALSE]

States == [uploaded : SUBSET Names, completed : BOOLEAN]

Receipts == [status : {"none", "running", "succeeded", "failed"}, digest : States]

\* Between lockState and its deferred unlock.
Locked == {"load", "file", "attempt", "look", "put", "verify", "record",
           "remove", "complete"}

\* The name runner r is at.
Name(r) == Files[pos[r]]

\* Remote name n holds the content of job j's file.
Holds(j, n) == remote[n] = j

Set(f, x, v) == [f EXCEPT ![x] = v]

Goto(r, s) == pc' = Set(pc, r, s)

\* saveState: the whole copy replaces the file.
Save(r, m) == mem' = Set(mem, r, m) /\ state' = Set(state, JobOf[r], m)

Init == /\ local = [j \in Jobs |-> Names]
        /\ remote \in [Names -> Prior]
        /\ state = [j \in Jobs |-> Fresh]
        /\ stLock = [j \in Jobs |-> Free]
        /\ receipt = [j \in Jobs |-> [status |-> "none", digest |-> Fresh]]
        /\ recLock = [j \in Jobs |-> Free]
        /\ pc = [r \in Runners |-> "idle"]
        /\ mem = [r \in Runners |-> Fresh]
        /\ pos = [r \in Runners |-> 1]
        /\ tries = [r \in Runners |-> 0]
        /\ ok = [r \in Runners |-> FALSE]
        /\ digest = [r \in Runners |-> Fresh]
        /\ faults = 0

-----------------------------------------------------------------------------
(* The receipt is opened first and closed last. *)

\* runreceipt.Start: without the lock nothing is written.
Start(r) ==
  /\ pc[r] = "idle"
  /\ IF r \in NoReceipt
       THEN UNCHANGED <<recLock, receipt>>
       ELSE /\ recLock[JobOf[r]] = Free
            /\ recLock' = Set(recLock, JobOf[r], r)
            /\ receipt' = [receipt EXCEPT ![JobOf[r]] =
                             [status |-> "running", digest |-> Fresh]]
  /\ Goto(r, "lock")
  /\ UNCHANGED <<local, remote, state, stLock, mem, pos, tries, ok, digest, faults>>

\* Run returns: the state lock is dropped before the receipt is finished.
Return(r, good) ==
  /\ stLock' = IF stLock[JobOf[r]] = r THEN Set(stLock, JobOf[r], Free) ELSE stLock
  /\ ok' = Set(ok, r, good)
  /\ Goto(r, "finish")

\* Finish hashes the state file.
FinishHash(r) ==
  /\ pc[r] = "finish"
  /\ digest' = Set(digest, r, state[JobOf[r]])
  /\ Goto(r, "receipt")
  /\ UNCHANGED <<local, remote, state, stLock, receipt, recLock, mem, pos,
                 tries, ok, faults>>

\* Mutant: whatever Run returned.
MutVerdict(r) == [status |-> "succeeded", digest |-> digest[r]]

\* The receipt the run ends with.
Verdict(r) == [status |-> IF ok[r] THEN "succeeded" ELSE "failed",
               digest |-> digest[r]]

\* Mutant: the locks outlive the process.
MutGone(r) ==
  /\ UNCHANGED <<stLock, recLock>>
  /\ Goto(r, "idle")
  /\ mem' = Set(mem, r, Fresh) /\ pos' = Set(pos, r, 1)
  /\ tries' = Set(tries, r, 0)
  /\ ok' = Set(ok, r, FALSE) /\ digest' = Set(digest, r, Fresh)

\* The process is gone, and its locks with it.
Gone(r) ==
  /\ stLock' = IF stLock[JobOf[r]] = r THEN Set(stLock, JobOf[r], Free) ELSE stLock
  /\ recLock' = IF recLock[JobOf[r]] = r THEN Set(recLock, JobOf[r], Free) ELSE recLock
  /\ Goto(r, "idle")
  /\ mem' = Set(mem, r, Fresh) /\ pos' = Set(pos, r, 1)
  /\ tries' = Set(tries, r, 0)
  /\ ok' = Set(ok, r, FALSE) /\ digest' = Set(digest, r, Fresh)

\* The receipt is renamed into place, the lock dropped, the process exits.
FinishSave(r) ==
  /\ pc[r] = "receipt"
  /\ IF r \in NoReceipt
       THEN UNCHANGED receipt
       ELSE receipt' = Set(receipt, JobOf[r], Verdict(r))
  /\ Gone(r)
  /\ UNCHANGED <<local, remote, state, faults>>

-----------------------------------------------------------------------------
(* batchupload.Run and runWithClient. *)

\* Mutant: the lock is taken whoever holds it.
MutLockState(r) ==
  /\ pc[r] = "lock"
  /\ stLock' = Set(stLock, JobOf[r], r)
  /\ Goto(r, "load")
  /\ UNCHANGED <<local, remote, state, receipt, recLock, mem, pos, tries, ok,
                 digest, faults>>

LockState(r) ==
  /\ pc[r] = "lock"
  /\ IF stLock[JobOf[r]] = Free
       THEN /\ stLock' = Set(stLock, JobOf[r], r)
            /\ Goto(r, "load")
            /\ UNCHANGED ok
       ELSE Return(r, FALSE)
  /\ UNCHANGED <<local, remote, state, receipt, recLock, mem, pos, tries,
                 digest, faults>>

\* loadOrCreateState (a new state is saved), then validateStateFiles: pending
\* files must be there, and none be pending in a completed state.
Load(r) ==
  LET s == state[JobOf[r]]
  IN  /\ pc[r] = "load"
      /\ Save(r, s)
      /\ IF /\ Names \ s.uploaded \subseteq local[JobOf[r]]
            /\ s.completed => s.uploaded = Names
           THEN Goto(r, "file") /\ UNCHANGED <<stLock, ok>>
           ELSE Return(r, FALSE)
      /\ UNCHANGED <<local, remote, receipt, recLock, pos, tries, digest,
                     faults>>

\* On to the next file.
NextFile(r) == /\ pos' = Set(pos, r, pos[r] + 1)
               /\ tries' = Set(tries, r, 0)
               /\ Goto(r, "file")

\* --delete-after-verify
RemoveLocal(r) ==
  local' = IF r \in Deleters THEN [local EXCEPT ![JobOf[r]] = @ \ {Name(r)}]
                             ELSE local

\* Uploaded by an earlier run: only the local file may be left.
SkipUploaded(r) ==
  /\ pc[r] = "file" /\ pos[r] <= Len(Files)
  /\ Name(r) \in mem[r].uploaded
  /\ RemoveLocal(r)
  /\ NextFile(r)
  /\ UNCHANGED <<remote, state, stLock, receipt, recLock, mem, ok, digest,
                 faults>>

\* The file is there, of its size, and hashed; the hashes are saved.
Hash(r) ==
  /\ pc[r] = "file" /\ pos[r] <= Len(Files)
  /\ Name(r) \notin mem[r].uploaded
  /\ IF Name(r) \in local[JobOf[r]]
       THEN Save(r, mem[r]) /\ Goto(r, "attempt") /\ UNCHANGED <<stLock, ok>>
       ELSE Return(r, FALSE) /\ UNCHANGED <<mem, state>>
  /\ UNCHANGED <<local, remote, receipt, recLock, pos, tries, digest,
                 faults>>

\* Mutant: one attempt too many.
MutAttempt(r) ==
  /\ pc[r] = "attempt"
  /\ IF tries[r] <= MaxAttempts
       THEN /\ Save(r, mem[r])
            /\ tries' = Set(tries, r, tries[r] + 1)
            /\ Goto(r, "look")
            /\ UNCHANGED <<stLock, ok>>
       ELSE Return(r, FALSE) /\ UNCHANGED <<mem, state, tries>>
  /\ UNCHANGED <<local, remote, receipt, recLock, pos, digest, faults>>

\* The attempt loop: the count is saved before the attempt.
Attempt(r) ==
  /\ pc[r] = "attempt"
  /\ IF tries[r] < MaxAttempts
       THEN /\ Save(r, mem[r])
            /\ tries' = Set(tries, r, tries[r] + 1)
            /\ Goto(r, "look")
            /\ UNCHANGED <<stLock, ok>>
       ELSE Return(r, FALSE) /\ UNCHANGED <<mem, state, tries>>
  /\ UNCHANGED <<local, remote, receipt, recLock, pos, digest, faults>>

\* Mutant: a name that exists is taken for the file.
MutLook(r) ==
  /\ pc[r] = "look"
  /\ Goto(r, IF remote[Name(r)] = Absent THEN "put" ELSE "record")
  /\ UNCHANGED <<local, remote, state, stLock, receipt, recLock, mem, pos,
                 tries, ok, digest, faults>>

\* RemoteInfo: the same content is accepted, other content stops the run.
Look(r) ==
  /\ pc[r] = "look"
  /\ \/ /\ remote[Name(r)] = Absent
        /\ Goto(r, "put")
        /\ UNCHANGED <<stLock, ok>>
     \/ /\ Holds(JobOf[r], Name(r))
        /\ Goto(r, "record")
        /\ UNCHANGED <<stLock, ok>>
     \/ /\ remote[Name(r)] \notin {Absent, JobOf[r]}
        /\ Return(r, FALSE)
  /\ UNCHANGED <<local, remote, state, receipt, recLock, mem, pos, tries,
                 digest, faults>>

\* Precreate, blocks and create, with rtype 2: whatever the name holds by now
\* is overwritten.
Put(r) ==
  /\ pc[r] = "put"
  /\ remote' = Set(remote, Name(r), JobOf[r])
  /\ Goto(r, "verify")
  /\ UNCHANGED <<local, state, stLock, receipt, recLock, mem, pos, tries, ok,
                 digest, faults>>

\* The remote file is read back; a mismatch fails the attempt.
Verify(r) ==
  /\ pc[r] = "verify"
  /\ Goto(r, IF Holds(JobOf[r], Name(r)) THEN "record" ELSE "attempt")
  /\ UNCHANGED <<local, remote, state, stLock, receipt, recLock, mem, pos,
                 tries, ok, digest, faults>>

\* Mutant: the record is changed in memory and not saved.
MutRecord(r) ==
  /\ pc[r] = "record"
  /\ mem' = [mem EXCEPT ![r].uploaded = @ \union {Name(r)}]
  /\ Goto(r, "remove")
  /\ UNCHANGED <<local, remote, state, stLock, receipt, recLock, pos, tries, ok,
                 digest, faults>>

Record(r) ==
  /\ pc[r] = "record"
  /\ Save(r, [mem[r] EXCEPT !.uploaded = @ \union {Name(r)}])
  /\ Goto(r, "remove")
  /\ UNCHANGED <<local, remote, stLock, receipt, recLock, pos, tries, ok,
                 digest, faults>>

\* The local file goes once the record is saved.
Remove(r) ==
  /\ pc[r] = "remove"
  /\ RemoveLocal(r)
  /\ NextFile(r)
  /\ UNCHANGED <<remote, state, stLock, receipt, recLock, mem, ok, digest,
                 faults>>

Complete(r) ==
  /\ pc[r] = "file" /\ pos[r] > Len(Files)
  /\ Save(r, [mem[r] EXCEPT !.completed = TRUE])
  /\ Return(r, TRUE)
  /\ UNCHANGED <<local, remote, receipt, recLock, pos, tries, digest,
                 faults>>

-----------------------------------------------------------------------------
(* What can go wrong. *)

Fault == faults < MaxFaults /\ faults' = faults + 1

\* The process is killed; the receipt stays as it is.
Kill(r) == /\ pc[r] # "idle"
           /\ Fault
           /\ Gone(r)
           /\ UNCHANGED <<local, remote, state, receipt>>

\* A step fails (a save, a remove, the context): Run returns its error.
StepFails(r) == /\ pc[r] \in Locked
                /\ Fault
                /\ Return(r, FALSE)
                /\ UNCHANGED <<local, remote, state, receipt, recLock, mem, pos,
                               tries, digest>>

\* The preflight or the upload fails: the attempt is lost, and the remote file
\* may have been created all the same.
RequestFails(r) ==
  /\ pc[r] \in {"look", "put", "verify"}
  /\ Fault
  /\ remote' \in {remote} \union
                 IF pc[r] = "put" THEN {Set(remote, Name(r), JobOf[r])} ELSE {}
  /\ Goto(r, "attempt")
  /\ UNCHANGED <<local, state, stLock, receipt, recLock, mem, pos, tries, ok,
                 digest>>

-----------------------------------------------------------------------------
Step(r) == \/ Start(r) \/ LockState(r) \/ Load(r) \/ SkipUploaded(r) \/ Hash(r)
           \/ Attempt(r) \/ Look(r) \/ Put(r) \/ Verify(r) \/ Record(r)
           \/ Remove(r) \/ Complete(r) \/ FinishHash(r) \/ FinishSave(r)

Faults(r) == Kill(r) \/ StepFails(r) \/ RequestFails(r)

Next == \E r \in Runners : Step(r) \/ Faults(r)

Spec == Init /\ [][Next]_vars

\* Processes keep going, and are started again after they end.
FairSpec == Spec /\ \A r \in Runners : WF_vars(Step(r))

-----------------------------------------------------------------------------
\* Everything stays of its type.
TypeOK ==
  /\ local \in [Jobs -> SUBSET Names]
  /\ remote \in [Names -> Prior \union Jobs]
  /\ state \in [Jobs -> States]
  /\ stLock \in [Jobs -> Runners \union {Free}]
  /\ receipt \in [Jobs -> Receipts]
  /\ recLock \in [Jobs -> Runners \union {Free}]
  /\ pc \in [Runners -> Locked \union {"idle", "lock", "finish", "receipt"}]
  /\ mem \in [Runners -> States]
  /\ pos \in [Runners -> 1 .. Len(Files) + 1]
  /\ tries \in [Runners -> 0 .. MaxAttempts]
  /\ ok \in [Runners -> BOOLEAN] /\ digest \in [Runners -> States]
  /\ faults \in 0 .. MaxFaults

\* A local file that is gone is recorded as uploaded, and its content is what
\* the remote name holds: no crash, retry or rival run loses the last copy.
NoFileLost ==
  \A j \in Jobs : \A n \in Names \ local[j] : n \in state[j].uploaded /\ Holds(j, n)

\* A state that says completed, or a record that says uploaded, is true of the
\* remote directory.
RecordsAreTrue ==
  \A j \in Jobs : /\ \A n \in state[j].uploaded : Holds(j, n)
                  /\ state[j].completed => state[j].uploaded = Names

\* runreceipt.VerifySucceeded would accept job j's receipt.
Accepted(j) == receipt[j].status = "succeeded" /\ receipt[j].digest = state[j]

\* An accepted receipt belongs to a finished upload: a kill, a failure or a
\* rival run without a receipt cannot make one that vouches for less.
ReceiptVouches == \A j \in Jobs : Accepted(j) => state[j].completed

\* Upload states only ever grow: no run saves an older copy over a newer one.
StateNeverRegresses ==
  [][\A j \in Jobs : /\ state[j].uploaded \subseteq state'[j].uploaded
                     /\ state[j].completed => state'[j].completed]_vars

\* A remote file is never replaced by different content.
NeverOverwrites ==
  [][\A n \in Names : remote[n] # Absent => remote'[n] = remote[n]]_vars

\* Interrupted finitely often, a batch whose remote names are free or already
\* right is completed for good.
BatchCompletes ==
  (\A n \in Names : remote[n] \in {Absent} \union Jobs)
    => <>[](\A j \in Jobs : state[j].completed)
=============================================================================
