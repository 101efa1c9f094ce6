----------------------------- MODULE UploadFile -----------------------------
(***************************************************************************)
(* baidu.Client.upload and its callers: one process uploads file after     *)
(* file with precreate, blocks, create and verification, each call with    *)
(* retries, and adapts how many blocks it sends at once.  The caller is    *)
(* batchupload.runWithClient, which looks at the remote name first and     *)
(* tries a file several times, or backup.uploadOne, which does neither.    *)
(*                                                                         *)
(* What the service does with a call, and whether its answer is true, is   *)
(* open; what a listing says of a file is taken to be true.  uploadBlocks  *)
(* is one step, as UploadBlocks shows (nil only when all are stored).      *)
(* Failed calls and untrue answers are counted as faults.                  *)
(***************************************************************************)
EXTENDS ResourcePlan

CONSTANTS Files,           \* how many files there are
          Hosts,           \* memory and CPU a process may find
          Slice,           \* Limits.SliceSize
          Cap,             \* Limits.MaxUploadConcurrency
          MaxRetries,      \* Client.maxRetries
          MaxFileAttempts, \* Config.MaxFileAttempts of a batch
          MaxFaults        \* bound on faults

ASSUME UploadFileAssumption ==
  /\ Files \in Nat /\ Slice \in Nat \ {0} /\ Cap \in Nat \ {0}
  /\ MaxRetries \in Nat \ {0} /\ MaxFileAttempts \in Nat \ {0}
  /\ MaxFaults \in Nat
  /\ Hosts \subseteq [limit : Nat \ {0}, current : Nat, inactive : Nat,
                      cpu : (Nat \ {0}) \X (Nat \ {0})]

VARIABLES batch,   \* the caller is upload-batch, not backup
          remote,  \* what each remote name holds
          done,    \* files recorded as uploaded: 1 .. done
          pc,      \* where the process is
          host,    \* what it found when it started
          conc,    \* Client.concurrency
          session, \* the service's session for the uploadid in hand
          calls,   \* failed calls of the retry loop it is in
          retries, \* UploadStats.Retries
          limited, \* UploadStats.RateLimits > 0
          tries,   \* attempts at this file
          faults

vars == <<batch, remote, done, pc, host, conc, session, calls, retries,
          limited, tries, faults>>

Absent == "absent"
Mine == "mine"
Other == "other"

file == done + 1

-----------------------------------------------------------------------------
(* resource.Plan and New: how many blocks at once. *)

Memory(h) ==
  PlanMemory(CgroupAvailable(h.limit, h.current, h.inactive), h.limit, h.current)

Most(h) == MaxConcurrency(Memory(h), Slice, h.cpu, Cap)

Init == /\ batch \in BOOLEAN
        /\ remote \in [1 .. Files -> {Absent, Mine, Other}]
        /\ done = 0 /\ pc = "idle"
        /\ host \in Hosts /\ conc = 1
        /\ session = "none" /\ calls = 0
        /\ retries = 0 /\ limited = FALSE /\ tries = 0 /\ faults = 0

\* The command is run, or run again, on a host whose load has changed.
Start == /\ pc = "idle"
         /\ host' \in Hosts
         /\ conc' = InitialConcurrency(Most(host'))
         /\ tries' = 0
         /\ pc' = "next"
         /\ UNCHANGED <<batch, remote, done, session, calls, retries, limited,
                        faults>>

Exit == /\ pc = "next" /\ done = Files
        /\ pc' = "idle"
        /\ UNCHANGED <<batch, remote, done, host, conc, session, calls, retries,
                       limited, tries, faults>>

\* Nothing of an earlier call is left in the UploadStats of a new one.
BeginFile == /\ pc = "next" /\ done < Files
             /\ pc' = IF batch THEN "look" ELSE "precreate"
             /\ session' = "none" /\ calls' = 0
             /\ retries' = 0 /\ limited' = FALSE
             /\ tries' = tries + 1
             /\ UNCHANGED <<batch, remote, done, host, conc, faults>>

\* Mutants: a name that is taken is written over; it is always a collision.
MutLook == /\ pc = "look"
           /\ pc' = "precreate"
           /\ UNCHANGED <<batch, remote, done, host, conc, session, calls,
                          retries, limited, tries, faults>>

MutStrictLook == /\ pc = "look"
                 /\ pc' = IF remote[file] = Absent THEN "precreate" ELSE "idle"
                 /\ UNCHANGED <<batch, remote, done, host, conc, session, calls,
                                retries, limited, tries, faults>>

\* A batch uploads to a free name, accepts its own file, stops at another.
Look == /\ pc = "look"
        /\ pc' = CASE remote[file] = Absent -> "precreate"
                   [] remote[file] = Mine -> "record"
                   [] OTHER -> "idle"
        /\ UNCHANGED <<batch, remote, done, host, conc, session, calls, retries,
                       limited, tries, faults>>

-----------------------------------------------------------------------------
(* The calls. *)

Fault == faults < MaxFaults /\ faults' = faults + 1

\* Mutant: one call too many.
MutCallFailed(l) ==
  /\ limited' = (limited \/ l)
  /\ IF calls = MaxRetries
       THEN pc' = "failed" /\ UNCHANGED <<calls, retries>>
       ELSE pc' = pc /\ calls' = calls + 1 /\ retries' = retries + 1

\* retry: another call, unless MaxRetries have failed; l, a rate limit.
CallFailed(l) ==
  /\ limited' = (limited \/ l)
  /\ IF calls + 1 = MaxRetries
       THEN pc' = "failed" /\ UNCHANGED <<calls, retries>>
       ELSE pc' = pc /\ calls' = calls + 1 /\ retries' = retries + 1

\* ReturnType 2: the service has the content already and places it.
PrecreateRapid == /\ pc = "precreate"
                  /\ remote' = [remote EXCEPT ![file] = Mine]
                  /\ pc' = "rapid"
                  /\ UNCHANGED <<batch, done, host, conc, session, calls,
                                 retries, limited, tries, faults>>

PrecreateSession == /\ pc = "precreate"
                    /\ session' = "open"
                    /\ pc' = "blocks"
                    /\ UNCHANGED <<batch, remote, done, host, conc, calls,
                                   retries, limited, tries, faults>>

\* The call fails, having placed the content or not.
PrecreateFails == /\ pc = "precreate"
                  /\ Fault
                  /\ \E l \in BOOLEAN : CallFailed(l)
                  /\ remote' \in {remote, [remote EXCEPT ![file] = Mine]}
                  /\ UNCHANGED <<batch, done, host, conc, session, tries>>

\* An answer that is not true: rapid although the name holds something else,
\* no uploadid, or a block that the file does not have.
PrecreateLies == /\ pc = "precreate"
                 /\ Fault
                 /\ \/ pc' = "unheard" /\ UNCHANGED remote
                    \/ /\ pc' = "rapid"
                       /\ remote' \in {remote, [remote EXCEPT ![file] = Other]}
                 /\ UNCHANGED <<batch, done, host, conc, session, calls,
                                retries, limited, tries>>

\* All missing blocks are stored, after k retries of any of them.
Blocks == /\ pc = "blocks"
          /\ \E k \in 0 .. MaxFaults - faults :
               /\ faults' = faults + k
               /\ retries' = retries + k
               /\ limited' \in {limited, limited \/ k > 0}
          /\ calls' = 0
          /\ pc' = "create"
          /\ UNCHANGED <<batch, remote, done, host, conc, session, tries>>

\* A block cannot be read, or its last call fails.
BlocksFail == /\ pc = "blocks" /\ faults < MaxFaults
              /\ \E k \in 0 .. MaxFaults - faults - 1 :
                   /\ faults' = faults + k + 1
                   /\ retries' = retries + k
              /\ limited' \in BOOLEAN /\ (limited => limited')
              /\ pc' = "failed"
              /\ UNCHANGED <<batch, remote, done, host, conc, session, calls,
                             tries>>

\* The service puts the file together; a second call with the same uploadid
\* is answered like the first or refused.
Create == /\ pc = "create"
          /\ \/ /\ session = "open"
                /\ remote' = [remote EXCEPT ![file] = Mine]
                /\ session' = "used"
             \/ session = "used" /\ UNCHANGED <<remote, session>>
          /\ pc' = "verify"
          /\ UNCHANGED <<batch, done, host, conc, calls, retries, limited,
                         tries, faults>>

CreateRefused == /\ pc = "create" /\ session = "used"
                 /\ CallFailed(FALSE)
                 /\ UNCHANGED <<batch, remote, done, host, conc, session, tries,
                                faults>>

\* The call fails, with the file created or not.
CreateFails == /\ pc = "create" /\ session = "open"
               /\ Fault
               /\ \E l \in BOOLEAN : CallFailed(l)
               /\ \/ UNCHANGED <<remote, session>>
                  \/ /\ remote' = [remote EXCEPT ![file] = Mine]
                     /\ session' = "used"
               /\ UNCHANGED <<batch, done, host, conc, tries>>

\* A file of another size or checksum is created; the answer shows it or not.
CreateDamages == /\ pc = "create" /\ session = "open"
                 /\ Fault
                 /\ remote' = [remote EXCEPT ![file] = Other]
                 /\ session' = "used"
                 /\ pc' \in {"failed", "verify"}
                 /\ UNCHANGED <<batch, done, host, conc, calls, retries,
                                limited, tries>>

-----------------------------------------------------------------------------
(* The end of an attempt. *)

\* Mutant: the maximum is forgotten when the concurrency grows.
MutFeedback ==
  conc' = IF limited \/ retries >= Larger(2, conc \div 2)
            THEN Larger(1, conc \div 2) ELSE IF retries = 0 THEN conc + 1 ELSE conc

\* Half as many blocks at once after trouble, one more after none.
Feedback ==
  conc' = IF limited \/ retries >= Larger(2, conc \div 2)
            THEN Larger(1, conc \div 2)
          ELSE IF retries = 0 /\ conc < Most(host) THEN conc + 1
          ELSE conc

\* Mutant: a rapid upload is believed.
MutVerify == /\ pc \in {"rapid", "verify"}
             /\ pc' = IF pc = "rapid" \/ remote[file] = Mine THEN "record" ELSE "failed"
             /\ IF pc' = "record" THEN Feedback ELSE UNCHANGED conc
             /\ UNCHANGED <<batch, remote, done, host, session, calls, retries,
                            limited, tries, faults>>

\* The remote file is read back.
Verify == /\ pc \in {"rapid", "verify"}
          /\ pc' = IF remote[file] = Mine THEN "record" ELSE "failed"
          /\ IF pc' = "record" THEN Feedback ELSE UNCHANGED conc
          /\ UNCHANGED <<batch, remote, done, host, session, calls, retries,
                         limited, tries, faults>>

\* It cannot be read, by Verify or by the preflight (which gives no feedback).
LookFails == /\ pc \in {"look", "rapid", "verify"}
             /\ Fault
             /\ pc' = IF pc = "look" THEN "unheard" ELSE "failed"
             /\ UNCHANGED <<batch, remote, done, host, conc, session, calls,
                            retries, limited, tries>>

\* The caller records the file (uploaded, verified) and goes on.
Record == /\ pc = "record"
          /\ done' = done + 1
          /\ tries' = 0
          /\ pc' = "next"
          /\ UNCHANGED <<batch, remote, host, conc, session, calls, retries,
                         limited, faults>>

\* The attempt failed: a batch tries again, MaxFileAttempts times in all.
AttemptOver ==
  /\ pc \in {"failed", "unheard"}
  /\ IF pc = "failed" THEN Feedback ELSE UNCHANGED conc
  /\ pc' = IF batch /\ tries < MaxFileAttempts THEN "next" ELSE "idle"
  /\ UNCHANGED <<batch, remote, done, host, session, calls, retries, limited,
                 tries, faults>>

\* The process is killed or its context cancelled; a call that was under way
\* has its effect or not.
Interrupt == /\ pc # "idle"
             /\ Fault
             /\ remote' \in {remote} \union
                  IF pc \in {"precreate", "create"} /\ session # "used"
                    THEN {[remote EXCEPT ![file] = Mine]} ELSE {}
             /\ pc' = "idle"
             /\ UNCHANGED <<batch, done, host, conc, session, calls, retries,
                            limited, tries>>

-----------------------------------------------------------------------------
Step == \/ Start \/ Exit \/ BeginFile \/ Look
        \/ PrecreateRapid \/ PrecreateSession \/ Blocks \/ Create
        \/ CreateRefused \/ Verify \/ Record \/ AttemptOver

Faults == \/ PrecreateFails \/ PrecreateLies \/ BlocksFail \/ CreateFails
          \/ CreateDamages \/ LookFails \/ Interrupt

Next == Step \/ Faults

Spec == Init /\ [][Next]_vars

\* The process keeps going, and is run again when it has ended.
FairSpec == Spec /\ WF_vars(Step)

-----------------------------------------------------------------------------
\* Everything stays of its type; a file is tried no more than MaxFileAttempts
\* times by a process, a call made no more than MaxRetries times.
TypeOK ==
  /\ batch \in BOOLEAN
  /\ remote \in [1 .. Files -> {Absent, Mine, Other}]
  /\ done \in 0 .. Files
  /\ pc \in {"idle", "next", "look", "precreate", "blocks", "create", "rapid",
             "verify", "record", "failed", "unheard"}
  /\ host \in Hosts
  /\ conc \in 1 .. Cap
  /\ session \in {"none", "open", "used"}
  /\ calls \in 0 .. MaxRetries - 1
  /\ retries \in Nat /\ limited \in BOOLEAN
  /\ tries \in 0 .. MaxFileAttempts
  /\ faults \in 0 .. MaxFaults

\* However the concurrency was adapted, several workers never need more than a
\* third of what the host's memory limit allows, unless all of it is in use and
\* none reclaimable (then Plan assumes 512 MiB), nor more than sixteen for each
\* CPU.
BuffersFit ==
  pc # "idle" /\ conc > 1 =>
    /\ conc * PerWorker(Slice) <=
         (IF host.current < host.limit \/ host.inactive > 0 THEN host.limit
                                                            ELSE 512 * MiB) \div 3
    /\ conc <= CeilDiv(16 * host.cpu[1], host.cpu[2])

\* A recorded file is what its remote name holds, whatever the service
\* answered and however often a call was repeated.
RecordedMeansStored == \A f \in 1 .. done : remote[f] = Mine

\* What a name holds between two attempts of a batch it holds for good: a file
\* whose answer was lost is found again and not sent twice, and neither foreign
\* nor damaged content is replaced.
NamesSettle ==
  \A f \in 1 .. Files : \A c \in {Mine, Other} :
    [](batch /\ pc \in {"idle", "next"} /\ remote[f] = c => [](remote[f] = c))

\* After finitely many faults every file is recorded, unless a batch has met a
\* name that holds something else, be it damage of its own making.
UploadedAtLast == <>(done = Files \/ (batch /\ remote[file] = Other))
=============================================================================
