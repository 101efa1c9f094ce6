-------------------------- MODULE UploadFileProofs --------------------------
(***************************************************************************)
(* Theorems about UploadFile, for any number of files, retries and faults, *)
(* any hosts and any limits.                                               *)
(***************************************************************************)
EXTENDS UploadFile, TLAPS

\* From BeginFile to its record or failure there is a file in hand, and an
\* attempt at it is counted; an attempt is only begun when one is left.
InHand ==
  /\ pc \notin {"idle", "next"} => done < Files
  /\ pc = "next" => tries < MaxFileAttempts
  /\ ~batch /\ pc = "next" => tries = 0

\* The concurrency stays within what the running process has planned.
WithinPlan == pc # "idle" => conc <= Most(host)

\* Only a file that was read back, or found in place, is about to be recorded.
ReadBack == pc = "record" => remote[file] = Mine

IInv == /\ TypeOK /\ InHand
        /\ WithinPlan
        /\ RecordedMeansStored /\ ReadBack

-----------------------------------------------------------------------------
(* What resource.Plan computes. *)

LEMMA DivTimes ==
  ASSUME NEW a \in Nat, NEW b \in Nat \ {0}, NEW q \in Nat, q <= a \div b
  PROVE  q * b <= a
  <1>1. (a \div b) * b <= a
    OBVIOUS
  <1>2. q * b <= (a \div b) * b
    OBVIOUS
  <1> QED BY <1>1, <1>2

LEMMA DivMonotone ==
  ASSUME NEW a \in Int, NEW b \in Int, a <= b
  PROVE  a \div 3 <= b \div 3
  OBVIOUS

\* At least one worker, and no more than the configured cap.
LEMMA MostIsPositive ==
  ASSUME NEW h \in Hosts PROVE Most(h) \in 1 .. Cap
  <1>1. /\ Slice \in Nat \ {0} /\ Cap \in Nat \ {0}
        /\ h.limit \in Nat \ {0} /\ h.current \in Nat /\ h.inactive \in Nat
        /\ h.cpu[1] \in Nat \ {0} /\ h.cpu[2] \in Nat \ {0}
    BY UploadFileAssumption
  <1>2. PerWorker(Slice) \in Nat \ {0}
    BY <1>1 DEF PerWorker, MiB
  <1>3. Memory(h) \in Nat
    BY <1>1 DEF Memory, PlanMemory, CgroupAvailable, Smaller, Larger, MiB
  <1>4. (Memory(h) \div 3) \div PerWorker(Slice) \in Nat
    BY <1>2, <1>3
  <1>5. CeilDiv(16 * h.cpu[1], h.cpu[2]) \in Nat
    BY <1>1, SMTT(30) DEF CeilDiv
  <1> HIDE DEF Memory, PerWorker, CeilDiv
  <1> QED BY <1>1, <1>4, <1>5 DEF Most, MaxConcurrency, Smaller, Larger

\* The memory that is planned with is no more than the limit, unless all is in
\* use and none reclaimable.
LEMMA MemoryIsThere ==
  ASSUME NEW h \in Hosts
  PROVE  /\ Memory(h) \in Nat
         /\ Memory(h) <= IF h.current < h.limit \/ h.inactive > 0
                           THEN h.limit ELSE 512 * MiB
  <1>1. h.limit \in Nat \ {0} /\ h.current \in Nat /\ h.inactive \in Nat
    BY UploadFileAssumption
  <1> QED BY <1>1 DEF Memory, PlanMemory, CgroupAvailable, Smaller, Larger, MiB

\* What several workers need fits.
LEMMA MostFits ==
  ASSUME NEW h \in Hosts, NEW q \in Nat, q > 1, q <= Most(h)
  PROVE  /\ q * PerWorker(Slice) <=
              (IF h.current < h.limit \/ h.inactive > 0 THEN h.limit
                                                       ELSE 512 * MiB) \div 3
         /\ q <= CeilDiv(16 * h.cpu[1], h.cpu[2])
  <1> DEFINE budget == IF h.current < h.limit \/ h.inactive > 0
                         THEN h.limit ELSE 512 * MiB
             byMemory == (Memory(h) \div 3) \div PerWorker(Slice)
             byCpu == CeilDiv(16 * h.cpu[1], h.cpu[2])
  <1>1. /\ Slice \in Nat \ {0} /\ Cap \in Nat \ {0} /\ h.limit \in Nat \ {0}
        /\ h.cpu[1] \in Nat \ {0} /\ h.cpu[2] \in Nat \ {0}
    BY UploadFileAssumption
  <1>2. PerWorker(Slice) \in Nat \ {0}
    BY <1>1 DEF PerWorker, MiB
  <1>3. Memory(h) \in Nat /\ budget \in Nat /\ Memory(h) <= budget
    BY <1>1, MemoryIsThere DEF MiB
  <1>4. byMemory \in Nat
    BY <1>2, <1>3
  <1>5. byCpu \in Nat
    BY <1>1, SMTT(30) DEF CeilDiv
  <1>6. q <= byMemory /\ q <= byCpu
    <2>1. Most(h) = Smaller(Cap, Smaller(Larger(1, byMemory), Larger(1, byCpu)))
      BY DEF Most, MaxConcurrency
    <2> HIDE DEF byMemory, byCpu
    <2> QED BY <1>1, <1>4, <1>5, <2>1 DEF Smaller, Larger
  <1>7. q * PerWorker(Slice) <= Memory(h) \div 3
    <2>1. Memory(h) \div 3 \in Nat
      BY <1>3
    <2> QED BY <1>2, <1>6, <2>1, DivTimes
  <1>8. q * PerWorker(Slice) \in Int /\ Memory(h) \div 3 \in Int /\ budget \div 3 \in Int
    BY <1>2, <1>3
  <1>9. Memory(h) \div 3 <= budget \div 3
    BY <1>3, DivMonotone
  <1>10. q * PerWorker(Slice) <= budget \div 3
    BY <1>7, <1>8, <1>9
  <1> QED BY <1>6, <1>10

-----------------------------------------------------------------------------
\* Feedback moves within what is planned.
LEMMA FeedbackStays ==
  ASSUME TypeOK, WithinPlan, pc # "idle", Feedback
  PROVE  conc' \in 1 .. Cap /\ conc' <= Most(host)
  <1>1. /\ conc \in 1 .. Cap /\ Most(host) \in 1 .. Cap /\ conc <= Most(host)
        /\ Cap \in Nat
    BY MostIsPositive, UploadFileAssumption DEF TypeOK, WithinPlan
  <1>2. conc \div 2 \in Nat /\ conc \div 2 <= conc
    BY <1>1
  <1>3. \/ conc' = Larger(1, conc \div 2)
        \/ conc < Most(host) /\ conc' = conc + 1
        \/ conc' = conc
    BY DEF Feedback
  <1> QED BY <1>1, <1>2, <1>3 DEF Larger

LEMMA IInvInit == Init => IInv
  <1> SUFFICES ASSUME Init PROVE IInv
    OBVIOUS
  <1> USE UploadFileAssumption DEF Init
  <1>1. TypeOK
    <2>1. /\ conc \in 1 .. Cap /\ calls \in 0 .. MaxRetries - 1
          /\ tries \in 0 .. MaxFileAttempts /\ faults \in 0 .. MaxFaults
          /\ done \in 0 .. Files /\ retries \in Nat
      OBVIOUS
    <2>2. batch \in BOOLEAN /\ limited \in BOOLEAN /\ host \in Hosts
      OBVIOUS
    <2> QED BY <2>1, <2>2 DEF TypeOK
  <1>2. InHand /\ WithinPlan /\ RecordedMeansStored /\ ReadBack
    BY DEF InHand, WithinPlan, RecordedMeansStored, ReadBack
  <1> QED BY <1>1, <1>2 DEF IInv

LEMMA TypeStep ==
  TypeOK /\ InHand /\ WithinPlan /\ [Next]_vars
    => TypeOK' /\ InHand' /\ WithinPlan'
  <1> SUFFICES ASSUME TypeOK, InHand, WithinPlan, [Next]_vars
               PROVE  TypeOK' /\ InHand' /\ WithinPlan'
    OBVIOUS
  <1> USE UploadFileAssumption DEF TypeOK, InHand, WithinPlan
  <1>0. host' = host => Most(host)' = Most(host)
    BY DEF Most, Memory
  <1>1. CASE Start
    <2>1. Most(host') \in 1 .. Cap
      BY <1>1, MostIsPositive DEF Start
    <2>2. conc' \in 1 .. Cap /\ conc' <= Most(host')
      BY <1>1, <2>1 DEF Start, InitialConcurrency, Smaller
    <2>3. Most(host)' = Most(host')
      BY DEF Most, Memory
    <2> HIDE DEF WithinPlan
    <2>4. TypeOK' /\ InHand'
      BY <1>1, <2>2 DEF Start
    <2>5. WithinPlan'
      BY <2>2, <2>3 DEF WithinPlan
    <2> QED BY <2>4, <2>5
  <1>2. CASE Exit
    BY <1>0, <1>2 DEF Exit
  <1>3. CASE BeginFile
    <2>1. tries' \in 0 .. MaxFileAttempts /\ done < Files
      BY <1>3 DEF BeginFile
    <2>2. /\ pc' \in {"look", "precreate"} /\ calls' = 0 /\ retries' = 0
          /\ limited' = FALSE /\ session' = "none"
          /\ UNCHANGED <<batch, remote, done, host, conc, faults>> /\ pc = "next"
      BY <1>3 DEF BeginFile
    <2>3. calls' \in 0 .. MaxRetries - 1 /\ retries' \in Nat
      BY <2>2
    <2>4. Most(host)' = Most(host)
      BY <1>0, <2>2
    <2> HIDE DEF WithinPlan
    <2>5. TypeOK' /\ InHand'
      BY <2>1, <2>2, <2>3
    <2>6. WithinPlan'
      BY <2>2, <2>4 DEF WithinPlan
    <2> QED BY <2>5, <2>6
  <1>4. CASE Look
    <2>1. pc' \in {"precreate", "record", "idle"} /\ pc = "look"
      BY <1>0, <1>4 DEF Look
    <2> QED BY <1>0, <1>4, <2>1 DEF Look
  <1>5. CASE PrecreateRapid \/ PrecreateSession
    BY <1>0, <1>5 DEF PrecreateRapid, PrecreateSession, Mine
  <1>6. CASE Blocks
    <2>1. faults' \in 0 .. MaxFaults /\ retries' \in Nat /\ limited' \in BOOLEAN
      <3>1. PICK k \in 0 .. MaxFaults - faults :
              faults' = faults + k /\ retries' = retries + k
        BY <1>6 DEF Blocks
      <3>2. limited' \in BOOLEAN
        BY <1>6 DEF Blocks
      <3>3. faults \in Nat /\ faults <= MaxFaults /\ MaxFaults \in Nat
            /\ retries \in Nat
        OBVIOUS
      <3>4. faults' \in 0 .. MaxFaults /\ retries' \in Nat
        BY <3>1, <3>3
      <3> QED BY <3>2, <3>4
    <2> QED BY <1>0, <1>6, <2>1 DEF Blocks
  <1>7. CASE Create
    BY <1>0, <1>7 DEF Create, Mine
  <1>8. CASE CreateRefused
    BY <1>0, <1>8 DEF CreateRefused, CallFailed
  <1>9. CASE Verify
    <2>1. (conc' \in 1 .. Cap /\ conc' <= Most(host)) \/ conc' = conc
      BY <1>0, <1>9, FeedbackStays DEF Verify
    <2>2. pc' \in {"record", "failed"}
      BY <1>0, <1>9 DEF Verify
    <2> QED BY <1>0, <1>9, <2>1, <2>2 DEF Verify
  <1>10. CASE Record
    BY <1>0, <1>10 DEF Record, file
  <1>11. CASE AttemptOver
    <2>1. (conc' \in 1 .. Cap /\ conc' <= Most(host)) \/ conc' = conc
      BY <1>0, <1>11, FeedbackStays DEF AttemptOver
    <2> QED BY <1>0, <1>11, <2>1 DEF AttemptOver
  <1>12. CASE PrecreateFails
    <2>1. /\ calls' \in 0 .. MaxRetries - 1 /\ retries' \in Nat
          /\ limited' \in BOOLEAN /\ pc' \in {pc, "failed"}
      BY <1>12 DEF PrecreateFails, CallFailed
    <2>2. faults' \in 0 .. MaxFaults
      BY <1>12 DEF PrecreateFails, Fault
    <2>3. remote' \in [1 .. Files -> {Absent, Mine, Other}]
      BY <1>12 DEF PrecreateFails
    <2> QED BY <1>0, <1>12, <2>1, <2>2, <2>3 DEF PrecreateFails
  <1>13. CASE PrecreateLies
    BY <1>0, <1>13 DEF PrecreateLies, Fault, Other
  <1>14. CASE BlocksFail
    BY <1>0, <1>14 DEF BlocksFail
  <1>15. CASE CreateFails
    <2>1. /\ calls' \in 0 .. MaxRetries - 1 /\ retries' \in Nat
          /\ limited' \in BOOLEAN /\ pc' \in {pc, "failed"}
      BY <1>15 DEF CreateFails, CallFailed
    <2>2. faults' \in 0 .. MaxFaults
      BY <1>15 DEF CreateFails, Fault
    <2>3. remote' \in [1 .. Files -> {Absent, Mine, Other}]
      BY <1>15 DEF CreateFails
    <2> QED BY <1>0, <1>15, <2>1, <2>2, <2>3 DEF CreateFails
  <1>16. CASE CreateDamages
    <2>1. faults' \in 0 .. MaxFaults
      BY <1>16 DEF CreateDamages, Fault
    <2>2. remote' \in [1 .. Files -> {Absent, Mine, Other}]
      BY <1>16 DEF CreateDamages
    <2> QED BY <1>0, <1>16, <2>1, <2>2 DEF CreateDamages
  <1>17. CASE LookFails
    BY <1>0, <1>17 DEF LookFails, Fault
  <1>18. CASE Interrupt
    BY <1>0, <1>18 DEF Interrupt, Fault, Mine
  <1>19. CASE UNCHANGED vars
    BY <1>0, <1>19 DEF vars
  <1> QED BY <1>1, <1>2, <1>3, <1>4, <1>5, <1>6, <1>7, <1>8, <1>9, <1>10, <1>11,
             <1>12, <1>13, <1>14, <1>15, <1>16, <1>17, <1>18, <1>19
          DEF Next, Step, Faults

\* Recorded files.
LEMMA StoredStep ==
  TypeOK /\ InHand /\ RecordedMeansStored /\ ReadBack /\ [Next]_vars
    => RecordedMeansStored' /\ ReadBack'
  <1> SUFFICES ASSUME TypeOK, InHand, RecordedMeansStored, ReadBack, [Next]_vars
               PROVE  RecordedMeansStored' /\ ReadBack'
    OBVIOUS
  <1> USE DEF RecordedMeansStored, ReadBack, Absent, Mine, Other
  <1>0. done \in 0 .. Files /\ Files \in Nat
    BY UploadFileAssumption DEF TypeOK
  \* Only the name of the file in hand gets new content.
  <1>1. ASSUME \/ remote' = remote
               \/ \E c : remote' = [remote EXCEPT ![file] = c],
               done' = done, pc' # "record"
        PROVE  RecordedMeansStored' /\ ReadBack'
    BY <1>0, <1>1 DEF file, TypeOK
  <1>2. CASE Start \/ Exit \/ BeginFile
    BY <1>1, <1>2 DEF Start, Exit, BeginFile
  <1>3. CASE Look
    BY <1>3 DEF Look, file
  <1>4. CASE PrecreateRapid \/ PrecreateSession \/ Blocks
    BY <1>1, <1>4 DEF PrecreateRapid, PrecreateSession, Blocks
  <1>5. CASE Create
    BY <1>1, <1>5 DEF Create
  <1>6. CASE CreateRefused
    BY <1>1, <1>6 DEF CreateRefused, CallFailed
  <1>7. CASE Verify
    BY <1>7 DEF Verify, file
  <1>8. CASE Record
    <2>1. ASSUME NEW f \in 1 .. done' PROVE remote[f] = Mine
      <3>1. f \in 1 .. done \/ f = file
        BY <1>0, <1>8, <2>1 DEF Record, file
      <3> QED BY <1>8, <3>1 DEF Record
    <2> QED BY <1>8, <2>1 DEF Record
  <1>9. CASE AttemptOver
    BY <1>1, <1>9 DEF AttemptOver
  <1>10. CASE PrecreateFails
    BY <1>1, <1>10 DEF PrecreateFails, CallFailed
  <1>11. CASE PrecreateLies \/ BlocksFail
    BY <1>1, <1>11 DEF PrecreateLies, BlocksFail
  <1>12. CASE CreateFails
    BY <1>1, <1>12 DEF CreateFails, CallFailed
  <1>13. CASE CreateDamages
    BY <1>1, <1>13 DEF CreateDamages
  <1>14. CASE LookFails \/ Interrupt
    BY <1>1, <1>14 DEF LookFails, Interrupt
  <1>15. CASE UNCHANGED vars
    BY <1>15 DEF vars, file
  <1> QED BY <1>2, <1>3, <1>4, <1>5, <1>6, <1>7, <1>8, <1>9, <1>10, <1>11, <1>12,
             <1>13, <1>14, <1>15 DEF Next, Step, Faults

LEMMA Inductive == Spec => []IInv
  <1>1. Init => IInv
    BY IInvInit
  <1>2. IInv /\ [Next]_vars => IInv'
    BY TypeStep, StoredStep DEF IInv
  <1> QED BY <1>1, <1>2, PTL DEF Spec

\* Every value stays of its type; no process tries a file more than
\* MaxFileAttempts times, no call is made more than MaxRetries times.
THEOREM TypeCorrect == Spec => []TypeOK
  <1>1. IInv => TypeOK
    BY DEF IInv
  <1> QED BY <1>1, Inductive, PTL

\* However updateConcurrency moves the concurrency, on any host the buffers of
\* several workers fit into a third of the memory and the requests into what
\* the CPUs allow.
THEOREM BuffersAlwaysFit == Spec => []BuffersFit
  <1>1. IInv => BuffersFit
    <2> SUFFICES ASSUME IInv, pc # "idle", conc > 1 PROVE BuffersFit
      BY DEF BuffersFit
    <2>1. host \in Hosts /\ conc \in Nat /\ conc <= Most(host)
      BY UploadFileAssumption DEF IInv, TypeOK, WithinPlan
    <2> QED BY <2>1, MostFits DEF BuffersFit
  <1> QED BY <1>1, Inductive, PTL

\* A recorded file is what its remote name holds, whatever the service did with a
\* call, answered or failed to answer.
THEOREM RecordedStored == Spec => []RecordedMeansStored
  <1>1. IInv => RecordedMeansStored
    BY DEF IInv
  <1> QED BY <1>1, Inductive, PTL

-----------------------------------------------------------------------------
(* What a batch leaves alone. *)

\* A batch that has looked writes to a free name only.
Settled(f, c) == /\ batch /\ remote[f] = c
                 /\ pc \in {"precreate", "blocks", "create"} => file # f

LEMMA SettledStep ==
  ASSUME TypeOK, NEW f \in 1 .. Files, NEW c \in {Mine, Other}, Settled(f, c),
         [Next]_vars
  PROVE  Settled(f, c)'
  <1> USE DEF Settled, Absent, Mine, Other, file
  <1>1. CASE Start \/ Exit \/ BeginFile
    BY <1>1 DEF Start, Exit, BeginFile
  <1>2. CASE Look
    BY <1>2 DEF Look
  <1>3. CASE PrecreateRapid \/ PrecreateSession \/ Blocks
    BY <1>3 DEF PrecreateRapid, PrecreateSession, Blocks, TypeOK
  <1>4. CASE Create
    BY <1>4 DEF Create, TypeOK
  <1>5. CASE CreateRefused
    BY <1>5 DEF CreateRefused, CallFailed
  <1>6. CASE Verify \/ Record \/ AttemptOver
    BY <1>6 DEF Verify, Record, AttemptOver
  <1>7. CASE PrecreateFails
    BY <1>7 DEF PrecreateFails, CallFailed, TypeOK
  <1>8. CASE PrecreateLies \/ BlocksFail
    BY <1>8 DEF PrecreateLies, BlocksFail, TypeOK
  <1>9. CASE CreateFails
    BY <1>9 DEF CreateFails, CallFailed, TypeOK
  <1>10. CASE CreateDamages
    BY <1>10 DEF CreateDamages, TypeOK
  <1>11. CASE LookFails \/ Interrupt
    BY <1>11 DEF LookFails, Interrupt, TypeOK
  <1>12. CASE UNCHANGED vars
    BY <1>12 DEF vars
  <1> QED BY <1>1, <1>2, <1>3, <1>4, <1>5, <1>6, <1>7, <1>8, <1>9, <1>10, <1>11,
             <1>12 DEF Next, Step, Faults

\* What a name holds between two attempts of a batch it holds for good: the
\* preflight of runWithClient sends nothing to a name that is taken.
THEOREM NamesAlwaysSettle == Spec => NamesSettle
  <1>1. ASSUME NEW f \in 1 .. Files, NEW c \in {Mine, Other}
        PROVE  Spec => [](batch /\ pc \in {"idle", "next"} /\ remote[f] = c
                            => [](remote[f] = c))
    <2>1. batch /\ pc \in {"idle", "next"} /\ remote[f] = c => Settled(f, c)
      BY DEF Settled
    <2>2. TypeOK /\ Settled(f, c) /\ [Next]_vars => Settled(f, c)'
      BY SettledStep
    <2>3. Settled(f, c) => remote[f] = c
      BY DEF Settled
    <2> QED BY <2>1, <2>2, <2>3, TypeCorrect, PTL DEF Spec
  <1> QED BY <1>1 DEF NamesSettle
=============================================================================
