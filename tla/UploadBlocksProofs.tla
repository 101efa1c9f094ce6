------------------------- MODULE UploadBlocksProofs -------------------------
(***************************************************************************)
(* Theorems about UploadBlocks, for every number of blocks and attempts    *)
(* and every set of workers.                                               *)
(***************************************************************************)
EXTENDS UploadBlocks, FiniteSetTheorems, TLAPS

\* workCtx is cancelled only by the caller or after an error is in errCh, and
\* only Return, which cancels it last, takes the error out.
WorkHasCause == work /\ disp # "returned" => parent \/ errCh # None

\* An error on its way to errCh is real; it is the context's only if the
\* caller cancelled or an earlier error is already there.
ErrorsHaveCause ==
  /\ errCh = Cancelled => parent
  /\ \A w \in Workers :
       /\ st[w] = "report" => /\ why[w] # None
                              /\ why[w] = Cancelled => parent \/ errCh # None
       /\ st[w] = "cancel" => errCh # None

\* Unless the pool is cancelled, a block that was handed out is stored or in
\* a worker's hands.
BlocksAccounted ==
  ~work => \A b \in 1 .. next - 1 :
             b \in stored \/ \E w \in Workers : Busy(w) /\ held[w] = b

\* The dispatcher leaves its loop early only after a cancellation, and a
\* worker is handed nothing that does not exist.
LoopLeft == /\ disp \in {"wait", "returned"} => next = Blocks + 1 \/ work
            /\ disp = "sent" => next > 1
            /\ \A w \in Workers : /\ Busy(w) => held[w] \in 1 .. Blocks
                                  /\ st[w] \in {"got", "ready", "wait"}
                                       => tries[w] < MaxAttempts

\* The wait group counts the goroutines that have not returned.
Running == {w \in Workers : st[w] # "exit"}

Counted == wg = Cardinality(Running)

\* So none is left when uploadBlocks returns and closes the file.
QuietOnReturn == disp = "returned" => \A w \in Workers : st[w] = "exit"

\* A worker fails once; its error goes to errCh unless another is there, and
\* what is in errCh came from a worker.
FailuresKept ==
  /\ errCh # None => errCh \in Failures
  /\ \A w \in Workers :
       why[w] # None => /\ st[w] \in {"report", "cancel", "exit"}
                        /\ st[w] = "report" \/ errCh # None

IInv == /\ TypeOK
        /\ Counted
        /\ WorkHasCause
        /\ ErrorsHaveCause
        /\ BlocksAccounted
        /\ LoopLeft
        /\ QuietOnReturn
        /\ RootCause
        /\ NilMeansAllStored
        /\ FailuresKept
        /\ NoErrorLost

-----------------------------------------------------------------------------
LEMMA IInvInit == Init => IInv
  <1> SUFFICES ASSUME Init PROVE IInv
    OBVIOUS
  <1> USE UploadAssumption DEF Init, None, Failed, Cancelled
  <1>1. TypeOK
    <2>1. parent \in BOOLEAN /\ work \in BOOLEAN
      BY Zenon
    <2>2. /\ st \in [Workers -> WorkerStates]
          /\ held \in [Workers -> 0 .. Blocks]
          /\ tries \in [Workers -> 0 .. MaxAttempts]
          /\ why \in [Workers -> {Failed, Cancelled, None}]
      BY DEF WorkerStates
    <2>3. wg \in 0 .. Cardinality(Workers)
      BY FS_CardinalityType
    <2> QED BY <2>1, <2>2, <2>3 DEF TypeOK
  <1>2. BlocksAccounted
    BY DEF BlocksAccounted
  <1>3. WorkHasCause /\ ErrorsHaveCause /\ LoopLeft
    BY DEF WorkHasCause, ErrorsHaveCause, LoopLeft, Busy
  <1>4. QuietOnReturn /\ RootCause /\ NilMeansAllStored
    BY DEF QuietOnReturn, RootCause, NilMeansAllStored
  <1>5. Counted
    <2>1. Running = Workers
      BY DEF Running
    <2> QED BY <2>1 DEF Counted
  <1>6. FailuresKept /\ NoErrorLost
    BY DEF FailuresKept, NoErrorLost
  <1> QED BY <1>1, <1>2, <1>3, <1>4, <1>5, <1>6 DEF IInv

\* A counter of zero means that no goroutine runs.
LEMMA ZeroMeansNone ==
  ASSUME Counted, wg = 0 PROVE \A w \in Workers : st[w] = "exit"
  <1>1. IsFiniteSet(Running)
    BY UploadAssumption, FS_Subset DEF Running
  <1>2. Running = {}
    BY <1>1, FS_EmptySet DEF Counted
  <1> QED BY <1>2 DEF Running

\* The deferred Done keeps the count.
LEMMA LeaveCounts ==
  ASSUME TypeOK, Counted, NEW w \in Workers, st[w] # "exit", Leave(w)
  PROVE  Counted'
  <1>1. IsFiniteSet(Running) /\ w \in Running
    BY UploadAssumption, FS_Subset DEF Running
  <1>2. Running' = Running \ {w}
    BY DEF Leave, Go, Running, TypeOK
  <1>3. Cardinality(Running \ {w}) = Cardinality(Running) - 1
    BY <1>1, FS_RemoveElement
  <1> QED BY <1>2, <1>3 DEF Counted, Leave

\* A step that moves no goroutine to its exit keeps it too.
LEMMA StayCounts ==
  ASSUME TypeOK, Counted, NEW w \in Workers, NEW s \in WorkerStates \ {"exit"},
         st[w] # "exit", Go(w, s), UNCHANGED wg
  PROVE  Counted'
  <1>1. Running' = Running
    BY DEF Go, Running, TypeOK
  <1> QED BY <1>1 DEF Counted

\* No step loses count of the goroutines.
LEMMA CountStep == TypeOK /\ Counted /\ [Next]_vars => Counted'
  <1> SUFFICES ASSUME TypeOK, Counted, [Next]_vars PROVE Counted'
    OBVIOUS
  <1>1. CASE UNCHANGED <<st, wg>>
    BY <1>1 DEF Counted, Running
  <1>2. CASE \/ CancelParent \/ Propagate \/ SendAborted \/ SendChecked
             \/ SendFinished \/ Return \/ UNCHANGED vars
    <2>1. UNCHANGED <<st, wg>>
      BY <1>2 DEF CancelParent, Propagate, SendAborted, SendChecked,
                  SendFinished, Return, vars
    <2> QED BY <1>1, <2>1
  <1>3. ASSUME NEW w \in Workers, Send(w) PROVE Counted'
    BY <1>3, StayCounts DEF Send, WorkerStates
  <1>4. ASSUME NEW w \in Workers, NoMoreJobs(w) \/ Drop(w) \/ Cancel(w)
        PROVE  Counted'
    BY <1>4, LeaveCounts DEF NoMoreJobs, Drop, Cancel
  <1>5. ASSUME NEW w \in Workers,
               \/ Read(w) \/ ReadFails(w) \/ Attempt(w) \/ ReplyOk(w)
               \/ ReplyError(w) \/ WaitOver(w) \/ WaitAborted(w) \/ Report(w)
        PROVE  Counted'
    <2>1. /\ st[w] # "exit"
          /\ \E s \in WorkerStates \ {"exit"} : Go(w, s)
          /\ UNCHANGED wg
      BY <1>5 DEF Read, ReadFails, Attempt, ReplyOk, ReplyError, WaitOver,
                  WaitAborted, Report, Fail, WorkerStates
    <2> QED BY <2>1, StayCounts
  <1> QED BY <1>2, <1>3, <1>4, <1>5 DEF Next, Dispatcher, Worker

\* The types and the dispatcher's loop.
LEMMA TypeStep ==
  TypeOK /\ LoopLeft /\ Counted' /\ [Next]_vars => TypeOK' /\ LoopLeft'
  <1> SUFFICES ASSUME TypeOK, LoopLeft, Counted', [Next]_vars
               PROVE  TypeOK' /\ LoopLeft'
    OBVIOUS
  <1>0. wg' \in 0 .. Cardinality(Workers)
    <2>1. /\ Cardinality(Running') \in Nat
          /\ Cardinality(Workers) \in Nat
          /\ Cardinality(Running') <= Cardinality(Workers)
      BY UploadAssumption, FS_Subset, FS_CardinalityType DEF Running
    <2> QED BY <2>1 DEF Counted
  <1> USE <1>0, UploadAssumption
      DEF TypeOK, LoopLeft, WorkerStates, None, Failed, Cancelled, Busy, Go, Fail,
          Leave
  <1>1. CASE CancelParent \/ Propagate
    BY <1>1 DEF CancelParent, Propagate
  <1>2. ASSUME NEW w \in Workers, Send(w) PROVE TypeOK' /\ LoopLeft'
    BY <1>2 DEF Send
  <1>3. CASE SendAborted \/ SendChecked \/ SendFinished
    <2>1. CASE SendAborted
      BY <2>1 DEF SendAborted
    <2>2. CASE SendChecked
      BY <2>2 DEF SendChecked
    <2>3. CASE SendFinished
      BY <2>3 DEF SendFinished
    <2> QED BY <1>3, <2>1, <2>2, <2>3
  <1>4. CASE Return
    BY <1>4 DEF Return, Outcome
  <1>5. ASSUME NEW w \in Workers, NoMoreJobs(w) \/ Drop(w) \/ Read(w) \/ ReadFails(w)
        PROVE  TypeOK' /\ LoopLeft'
    <2>1. CASE NoMoreJobs(w) \/ Drop(w)
      BY <2>1, ZenonT(60) DEF NoMoreJobs, Drop
    <2>2. CASE Read(w)
      BY <2>2 DEF Read
    <2>3. CASE ReadFails(w)
      BY <2>3 DEF ReadFails
    <2> QED BY <1>5, <2>1, <2>2, <2>3
  <1>6. ASSUME NEW w \in Workers, Attempt(w) PROVE TypeOK' /\ LoopLeft'
    BY <1>6 DEF Attempt
  <1>7. ASSUME NEW w \in Workers, ReplyOk(w) PROVE TypeOK' /\ LoopLeft'
    BY <1>7 DEF ReplyOk
  <1>8. ASSUME NEW w \in Workers, ReplyError(w) PROVE TypeOK' /\ LoopLeft'
    <2>1. CASE tries[w] = MaxAttempts
      BY <1>8, <2>1 DEF ReplyError
    <2>2. CASE tries[w] # MaxAttempts
      BY <1>8, <2>2 DEF ReplyError
    <2> QED BY <2>1, <2>2
  <1>9. ASSUME NEW w \in Workers, WaitOver(w) \/ WaitAborted(w)
        PROVE  TypeOK' /\ LoopLeft'
    BY <1>9, ZenonT(60) DEF WaitOver, WaitAborted
  <1>10. ASSUME NEW w \in Workers, Report(w) \/ Cancel(w)
         PROVE  TypeOK' /\ LoopLeft'
    BY <1>10, ZenonT(60) DEF Report, Cancel
  <1>11. CASE UNCHANGED vars
    BY <1>11 DEF vars
  <1> QED BY <1>1, <1>2, <1>3, <1>4, <1>5, <1>6, <1>7, <1>8, <1>9, <1>10, <1>11
          DEF Next, Dispatcher, Worker

\* Causes of errors and cancellations.
LEMMA CauseStep ==
  IInv /\ [Next]_vars => (WorkHasCause /\ ErrorsHaveCause /\ RootCause)'
  <1> SUFFICES ASSUME IInv, [Next]_vars
               PROVE  (WorkHasCause /\ ErrorsHaveCause /\ RootCause)'
    OBVIOUS
  <1>0. /\ TypeOK /\ WorkHasCause /\ ErrorsHaveCause /\ RootCause
        /\ QuietOnReturn
    BY DEF IInv
  <1> USE DEF WorkHasCause, ErrorsHaveCause, RootCause, TypeOK, Go, Fail, Leave,
              None, Failed, Cancelled
  <1>1. CASE CancelParent \/ Propagate
    BY <1>0, <1>1 DEF CancelParent, Propagate
  <1>2. ASSUME NEW w \in Workers, Send(w)
        PROVE  (WorkHasCause /\ ErrorsHaveCause /\ RootCause)'
    BY <1>0, <1>2 DEF Send
  <1>3. CASE SendAborted \/ SendChecked \/ SendFinished
    BY <1>0, <1>3 DEF SendAborted, SendChecked, SendFinished
  <1>4. CASE Return
    BY <1>0, <1>4 DEF Return, Outcome
  <1>5. ASSUME NEW w \in Workers,
               \/ NoMoreJobs(w) \/ Drop(w) \/ Read(w) \/ ReplyOk(w)
               \/ WaitOver(w)
        PROVE  (WorkHasCause /\ ErrorsHaveCause /\ RootCause)'
    BY <1>0, <1>5 DEF NoMoreJobs, Drop, Read, ReplyOk, WaitOver
  <1>6. ASSUME NEW w \in Workers, ReadFails(w)
        PROVE  (WorkHasCause /\ ErrorsHaveCause /\ RootCause)'
    BY <1>0, <1>6 DEF ReadFails
  \* A worker that sees the cancellation finds its cause in place.
  <1>7. ASSUME NEW w \in Workers, Attempt(w) \/ ReplyError(w) \/ WaitAborted(w)
        PROVE  (WorkHasCause /\ ErrorsHaveCause /\ RootCause)'
    <2>1. work => parent \/ errCh # None
      BY <1>0, <1>7 DEF QuietOnReturn, Attempt, ReplyError, WaitAborted
    <2>2. CASE Attempt(w)
      BY <1>0, <2>1, <2>2 DEF Attempt
    <2>3. CASE ReplyError(w)
      <3>1. CASE tries[w] = MaxAttempts
        BY <1>0, <2>1, <2>3, <3>1 DEF ReplyError
      <3>2. CASE tries[w] # MaxAttempts
        BY <1>0, <2>3, <3>2 DEF ReplyError
      <3> QED BY <3>1, <3>2
    <2>4. CASE WaitAborted(w)
      BY <1>0, <2>1, <2>4 DEF WaitAborted
    <2> QED BY <1>7, <2>2, <2>3, <2>4
  <1>8. ASSUME NEW w \in Workers, Report(w)
        PROVE  (WorkHasCause /\ ErrorsHaveCause /\ RootCause)'
    BY <1>0, <1>8 DEF Report
  <1>9. ASSUME NEW w \in Workers, Cancel(w)
        PROVE  (WorkHasCause /\ ErrorsHaveCause /\ RootCause)'
    BY <1>0, <1>9 DEF Cancel
  <1>10. CASE UNCHANGED vars
    BY <1>0, <1>10 DEF vars
  <1> QED BY <1>1, <1>2, <1>3, <1>4, <1>5, <1>6, <1>7, <1>8, <1>9, <1>10
          DEF Next, Dispatcher, Worker

\* No block is forgotten, and nil is returned only when all are stored.
LEMMA StoredStep ==
  IInv /\ [Next]_vars => (BlocksAccounted /\ NilMeansAllStored /\ QuietOnReturn)'
  <1> DEFINE Goal == (BlocksAccounted /\ NilMeansAllStored /\ QuietOnReturn)'
  <1> SUFFICES ASSUME IInv, [Next]_vars PROVE Goal
    OBVIOUS
  <1>0. /\ TypeOK /\ WorkHasCause /\ BlocksAccounted /\ NilMeansAllStored
        /\ QuietOnReturn /\ LoopLeft /\ ErrorsHaveCause /\ Counted
    BY DEF IInv
  <1>1. CASE CancelParent \/ Propagate
    BY <1>0, <1>1 DEF CancelParent, Propagate, BlocksAccounted, Busy,
                      NilMeansAllStored, QuietOnReturn
  <1>2. ASSUME NEW w \in Workers, Send(w) PROVE Goal
    <2>1. BlocksAccounted'
      <3> SUFFICES ASSUME ~work, NEW b \in 1 .. next
                   PROVE  \/ b \in stored
                          \/ \E x \in Workers : Busy(x)' /\ held'[x] = b
        BY <1>0, <1>2 DEF Send, BlocksAccounted, TypeOK
      <3>1. CASE b = next
        BY <1>0, <1>2, <3>1 DEF Send, Go, Busy, TypeOK
      <3>2. CASE b \in 1 .. next - 1
        <4>1. CASE b \in stored
          BY <4>1
        <4>2. CASE b \notin stored
          <5>1. PICK x \in Workers : Busy(x) /\ held[x] = b
            BY <1>0, <3>2, <4>2 DEF BlocksAccounted
          <5>2. x # w
            BY <1>2, <5>1 DEF Send, Busy
          <5> QED BY <1>0, <1>2, <5>1, <5>2 DEF Send, Go, Busy, TypeOK
        <4> QED BY <4>1, <4>2
      <3> QED BY <1>0, <3>1, <3>2 DEF TypeOK
    <2> QED BY <1>0, <1>2, <2>1 DEF Send, NilMeansAllStored, QuietOnReturn
  <1>3. CASE SendAborted \/ SendChecked \/ SendFinished
    BY <1>0, <1>3 DEF SendAborted, SendChecked, SendFinished, BlocksAccounted,
                      Busy, NilMeansAllStored, QuietOnReturn
  <1>4. CASE Return
    <2>0. \A w \in Workers : st[w] = "exit"
      BY <1>0, <1>4, ZeroMeansNone DEF Return, AllDone
    <2>1. result' = "nil" => stored = 1 .. Blocks
      <3> SUFFICES ASSUME result' = "nil" PROVE stored = 1 .. Blocks
        OBVIOUS
      <3>1. errCh = None /\ ~parent
        BY <1>0, <1>4 DEF Return, Outcome, TypeOK, None, Failed, Cancelled
      <3>2. ~work
        BY <1>0, <1>4, <3>1 DEF Return, WorkHasCause
      <3>3. next = Blocks + 1
        BY <1>0, <1>4, <3>2 DEF Return, LoopLeft
      <3>4. \A w \in Workers : ~Busy(w)
        BY <2>0 DEF Busy
      <3>5. \A b \in 1 .. Blocks : b \in stored
        BY <1>0, <3>2, <3>3, <3>4, UploadAssumption DEF BlocksAccounted
      <3> QED BY <1>0, <3>5 DEF TypeOK
    <2> QED BY <1>4, <2>0, <2>1
            DEF Return, BlocksAccounted, NilMeansAllStored, QuietOnReturn
  \* A worker's step: a block it settles is stored, or the pool is cancelled.
  <1>5. ASSUME NEW w \in Workers, Worker(w) PROVE Goal
    <2>1. /\ UNCHANGED <<disp, next, held, result>>
          /\ \E s \in WorkerStates : st' = [st EXCEPT ![w] = s]
          /\ stored' \in {stored, stored \union {held[w]}}
          /\ st[w] # "exit"
          /\ work => work'
      BY <1>5 DEF Worker, NoMoreJobs, Drop, Read, ReadFails, Attempt, ReplyOk,
                  ReplyError, WaitOver, WaitAborted, Report, Cancel, Go, Fail,
                  Leave, WorkerStates
    <2>2. Busy(w) /\ ~work' => held[w] \in stored' \/ Busy(w)'
      BY <1>0, <1>5
         DEF Worker, NoMoreJobs, Drop, Read, ReadFails, Attempt, ReplyOk,
             ReplyError, WaitOver, WaitAborted, Report, Cancel, Go, Fail,
             Leave, Busy, TypeOK
    <2>3. BlocksAccounted'
      <3> SUFFICES ASSUME ~work', NEW b \in 1 .. next - 1
                   PROVE  \/ b \in stored'
                          \/ \E x \in Workers : Busy(x)' /\ held[x] = b
        BY <2>1 DEF BlocksAccounted
      <3>1. CASE b \in stored
        BY <2>1, <3>1
      <3>2. CASE b \notin stored
        <4>1. PICK x \in Workers : Busy(x) /\ held[x] = b
          BY <1>0, <2>1, <3>2 DEF BlocksAccounted
        <4>2. CASE x = w
          BY <2>2, <4>1, <4>2
        <4>3. CASE x # w
          BY <1>0, <2>1, <4>1, <4>3 DEF Busy, TypeOK
        <4> QED BY <4>2, <4>3
      <3> QED BY <3>1, <3>2
    <2>4. disp # "returned"
      BY <1>0, <2>1 DEF QuietOnReturn
    <2>5. NilMeansAllStored'
      <3>1. held[w] \in 1 .. Blocks \/ stored' = stored
        BY <1>0, <1>5
           DEF Worker, NoMoreJobs, Drop, Read, ReadFails, Attempt, ReplyOk,
               ReplyError, WaitOver, WaitAborted, Report, Cancel, LoopLeft, Busy
      <3> QED BY <1>0, <2>1, <3>1 DEF NilMeansAllStored
    <2> QED BY <2>1, <2>3, <2>4, <2>5 DEF QuietOnReturn
  <1>6. CASE UNCHANGED vars
    BY <1>0, <1>6 DEF vars, BlocksAccounted, Busy, NilMeansAllStored, QuietOnReturn
  <1> QED BY <1>1, <1>2, <1>3, <1>4, <1>5, <1>6 DEF Next, Dispatcher

\* Every error is kept until uploadBlocks returns it or an earlier one.
LEMMA FailureStep == IInv /\ [Next]_vars => (FailuresKept /\ NoErrorLost)'
  <1> DEFINE Goal == (FailuresKept /\ NoErrorLost)'
  <1> SUFFICES ASSUME IInv, [Next]_vars PROVE Goal
    OBVIOUS
  <1>0. TypeOK /\ Counted /\ QuietOnReturn /\ FailuresKept /\ NoErrorLost
        /\ ErrorsHaveCause
    BY DEF IInv
  <1>1. CASE CancelParent \/ Propagate \/ UNCHANGED vars
    BY <1>0, <1>1 DEF CancelParent, Propagate, vars, FailuresKept, NoErrorLost,
                      Failures
  <1>2. CASE SendAborted \/ SendChecked \/ SendFinished
    BY <1>0, <1>2 DEF SendAborted, SendChecked, SendFinished, FailuresKept,
                      NoErrorLost, Failures
  <1>3. ASSUME NEW w \in Workers, Send(w) PROVE Goal
    BY <1>0, <1>3 DEF Send, Go, FailuresKept, NoErrorLost, Failures, TypeOK
  <1>4. CASE Return
    <2>1. \A w \in Workers : st[w] = "exit"
      BY <1>0, <1>4, ZeroMeansNone DEF Return, AllDone
    <2>2. Failures # {} => errCh # None
      BY <1>0, <2>1 DEF FailuresKept, Failures
    <2>3. errCh # None => errCh \in Failures
      BY <1>0 DEF FailuresKept
    <2>4. UNCHANGED <<Failures, parent>> /\ result' = Outcome
      BY <1>4 DEF Return, Failures
    <2>5. NoErrorLost'
      <3>1. CASE errCh # None
        BY <2>3, <2>4, <3>1 DEF NoErrorLost, Outcome
      <3>2. CASE errCh = None
        BY <2>2, <2>4, <3>2 DEF NoErrorLost, Outcome
      <3> QED BY <3>1, <3>2
    <2>6. FailuresKept'
      BY <1>0, <1>4, <2>4 DEF Return, FailuresKept
    <2> QED BY <2>5, <2>6
  \* A worker's step: nobody has returned yet.
  <1>5. ASSUME NEW w \in Workers, Worker(w) PROVE Goal
    <2>1. disp' = disp /\ st[w] # "exit"
      BY <1>5 DEF Worker, NoMoreJobs, Drop, Read, ReadFails, Attempt, ReplyOk,
                  ReplyError, WaitOver, WaitAborted, Report, Cancel
    <2>2. NoErrorLost'
      BY <1>0, <2>1 DEF QuietOnReturn, NoErrorLost
    <2>3. CASE NoMoreJobs(w) \/ Drop(w) \/ Read(w) \/ ReplyOk(w) \/ WaitOver(w)
               \/ Cancel(w)
      <3>1. /\ UNCHANGED <<why, errCh>>
            /\ \E s \in WorkerStates : st' = [st EXCEPT ![w] = s]
            /\ \/ st[w] \in {"recv", "got", "call", "wait"}
               \/ st[w] = "cancel" /\ st'[w] = "exit"
        BY <1>0, <2>3 DEF NoMoreJobs, Drop, Read, ReplyOk, WaitOver, Cancel, Leave,
                          Go, WorkerStates, TypeOK
      <3>2. FailuresKept'
        BY <1>0, <3>1 DEF FailuresKept, Failures, TypeOK
      <3> QED BY <2>2, <3>2
    <2>4. CASE \/ ReadFails(w) \/ Attempt(w) \/ ReplyError(w) \/ WaitAborted(w)
      <3>1. /\ UNCHANGED errCh
            /\ st[w] \in {"got", "ready", "call", "wait"}
            /\ \/ \E e \in {Failed, Cancelled} : Fail(w, e)
               \/ \E s \in WorkerStates : Go(w, s) /\ UNCHANGED why
        BY <2>4 DEF ReadFails, Attempt, ReplyError, WaitAborted, WorkerStates
      <3>2. why[w] = None
        BY <1>0, <3>1 DEF FailuresKept
      <3>3. FailuresKept'
        <4>1. ASSUME NEW e \in {Failed, Cancelled}, Fail(w, e) PROVE FailuresKept'
          <5>1. \A f \in Failures : f \in Failures'
            BY <1>0, <3>2, <4>1 DEF Fail, Failures, TypeOK
          <5> QED BY <1>0, <3>1, <4>1, <5>1 DEF Fail, Go, FailuresKept, TypeOK
        <4>2. ASSUME NEW s \in WorkerStates, Go(w, s), UNCHANGED why
              PROVE  FailuresKept'
          BY <1>0, <3>1, <3>2, <4>2 DEF Go, FailuresKept, Failures, TypeOK
        <4> QED BY <3>1, <4>1, <4>2
      <3> QED BY <2>2, <3>3
    <2>5. CASE Report(w)
      <3>1. why[w] # None /\ why[w] \in Failures
        BY <1>0, <2>5 DEF Report, ErrorsHaveCause, Failures
      <3>2. FailuresKept'
        BY <1>0, <2>5, <3>1 DEF Report, Go, FailuresKept, Failures, TypeOK
      <3> QED BY <2>2, <3>2
    <2> QED BY <1>5, <2>3, <2>4, <2>5 DEF Worker
  <1> QED BY <1>1, <1>2, <1>3, <1>4, <1>5 DEF Next, Dispatcher

LEMMA IInvAlways == Spec => []IInv
  <1>1. IInv /\ [Next]_vars => IInv'
    BY CountStep, TypeStep, CauseStep, StoredStep, FailureStep DEF IInv
  <1> QED BY <1>1, IInvInit, PTL DEF Spec

-----------------------------------------------------------------------------
\* The types hold, and no block is sent more than MaxAttempts times.
THEOREM TypeCorrect == Spec => []TypeOK
  <1>1. IInv => TypeOK
    BY DEF IInv
  <1> QED BY <1>1, IInvAlways, PTL

\* nil from uploadBlocks means that the server holds every missing block.
THEOREM NilAllStored == Spec => []NilMeansAllStored
  <1>1. IInv => NilMeansAllStored
    BY DEF IInv
  <1> QED BY <1>1, IInvAlways, PTL

\* uploadBlocks returns the context's error only if its caller cancelled.
THEOREM RootCauseReported == Spec => []RootCause
  <1>1. IInv => RootCause
    BY DEF IInv
  <1> QED BY <1>1, IInvAlways, PTL

\* uploadBlocks returns the error of a worker that failed whenever one did, and
\* no worker fails after it has returned.
THEOREM ErrorsAreReported == Spec => []NoErrorLost
  <1>1. IInv => NoErrorLost
    BY DEF IInv
  <1> QED BY <1>1, IInvAlways, PTL
=============================================================================
