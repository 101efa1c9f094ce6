---------------------------- MODULE UploadBlocks ----------------------------
(***************************************************************************)
(* baidu.Client.uploadBlocks: a dispatcher feeds the missing blocks of one *)
(* file to a pool of goroutines over an unbuffered channel; the first      *)
(* error is kept in a one-place channel and cancels the others.  The       *)
(* caller's context may be cancelled at any moment.  Every block goes      *)
(* through Client.retry: up to MaxAttempts calls, with back-off waits.     *)
(*                                                                         *)
(* Blocks are 1..Blocks in the order they are dispatched (missing is       *)
(* sorted).  Which error a call fails with is kept only as far as it       *)
(* matters: the context's (Cancelled) or the call's own (Failed).          *)
(***************************************************************************)
EXTENDS Integers, FiniteSets

CONSTANTS Blocks,      \* number of missing blocks, at least one
          Workers,     \* the goroutines started, at most one per block
          MaxAttempts  \* Client.maxRetries

ASSUME UploadAssumption == /\ Blocks \in Nat \ {0}
                           /\ IsFiniteSet(Workers)
                           /\ MaxAttempts \in Nat \ {0}

VARIABLES parent,   \* ctx is cancelled
          work,     \* workCtx is cancelled
          disp,     \* where the dispatching goroutine is
          next,     \* next block it sends
          st,       \* where each worker is
          held,     \* the block each worker took last, 0 before any
          tries,    \* calls each worker has made for that block
          why,      \* the error each worker is about to report
          errCh,    \* what errCh holds
          wg,       \* the counter of the wait group
          stored,   \* blocks the server has stored with a matching md5
          result    \* what uploadBlocks returned

vars == <<parent, work, disp, next, st, held, tries, why, errCh, wg, stored,
          result>>

Failed == "failed"
Cancelled == "cancelled"
None == "none"

WorkerStates == {"recv", "got", "ready", "call", "wait", "report", "cancel",
                 "exit"}

\* A worker that has taken a block and not settled it.
Busy(w) == st[w] \in {"got", "ready", "call", "wait", "report", "cancel"}

Init == /\ parent \in BOOLEAN
        /\ work = FALSE
        /\ disp = "send" /\ next = 1
        /\ st = [w \in Workers |-> "recv"]
        /\ held = [w \in Workers |-> 0]
        /\ tries = [w \in Workers |-> 0]
        /\ why = [w \in Workers |-> None]
        /\ errCh = None
        /\ wg = Cardinality(Workers)
        /\ stored = {}
        /\ result = None

Go(w, s) == st' = [st EXCEPT ![w] = s]

\* Worker w is about to report error e.
Fail(w, e) == Go(w, "report") /\ why' = [why EXCEPT ![w] = e]

\* Mutant: a worker that drops a block calls Done itself, besides the deferred
\* call.
MutLeave(w) == /\ Go(w, "exit")
               /\ wg' = wg - (IF st[w] = "got" THEN 2 ELSE 1)

\* The goroutine returns, and its deferred wg.Done() runs.
Leave(w) == Go(w, "exit") /\ wg' = wg - 1

-----------------------------------------------------------------------------
(* Contexts. *)

CancelParent == /\ ~parent /\ disp # "returned"
                /\ parent' = TRUE
                /\ UNCHANGED <<work, disp, next, st, held, tries, why, errCh,
                               wg, stored, result>>

\* Cancelling ctx reaches the derived workCtx a moment later.
Propagate == /\ parent /\ ~work
             /\ work' = TRUE
             /\ UNCHANGED <<parent, disp, next, st, held, tries, why, errCh,
                            wg, stored, result>>

-----------------------------------------------------------------------------
(* The dispatcher. *)

\* jobs <- index meets a worker's receive.
Send(w) == /\ disp = "send" /\ next <= Blocks
           /\ st[w] = "recv"
           /\ Go(w, "got")
           /\ held' = [held EXCEPT ![w] = next]
           /\ tries' = [tries EXCEPT ![w] = 0]
           /\ next' = next + 1
           /\ disp' = "sent"
           /\ UNCHANGED <<parent, work, why, errCh, wg, stored, result>>

\* <-workCtx.Done() wins the select, and ends the loop.
SendAborted == /\ disp = "send" /\ next <= Blocks
               /\ work
               /\ disp' = "wait"
               /\ UNCHANGED <<parent, work, next, st, held, tries, why, errCh,
                              wg, stored, result>>

\* After each send, workCtx.Err() decides whether the loop goes on.
SendChecked == /\ disp = "sent"
               /\ disp' = IF work THEN "wait" ELSE "send"
               /\ UNCHANGED <<parent, work, next, st, held, tries, why, errCh,
                              wg, stored, result>>

\* Every block has been handed out: jobs is closed.
SendFinished == /\ disp = "send" /\ next > Blocks
                /\ disp' = "wait"
                /\ UNCHANGED <<parent, work, next, st, held, tries, why,
                               errCh, wg, stored, result>>

\* wg.Wait() returns.
AllDone == wg = 0

\* Mutant: errCh is not looked at.
MutOutcome == IF parent THEN Cancelled ELSE "nil"

\* The error in errCh if there is one, else ctx.Err().
Outcome == IF errCh # None THEN errCh
           ELSE IF parent THEN Cancelled ELSE "nil"

\* The last select; then workCtx is cancelled and the file closed.
Return == /\ disp = "wait"
          /\ AllDone
          /\ result' = Outcome
          /\ work' = TRUE
          /\ disp' = "returned"
          /\ UNCHANGED <<parent, next, st, held, tries, why, errCh, wg,
                         stored>>

-----------------------------------------------------------------------------
(* A worker.  jobs is closed once the dispatcher is past its loop. *)

JobsClosed == disp \in {"wait", "returned"}

\* range jobs ends.
NoMoreJobs(w) == /\ st[w] = "recv" /\ JobsClosed
                 /\ Leave(w)
                 /\ UNCHANGED <<parent, work, disp, next, held, tries, why,
                                errCh, stored, result>>

\* A block taken after the cancellation is dropped, without an error.
Drop(w) == /\ st[w] = "got" /\ work
           /\ Leave(w)
           /\ UNCHANGED <<parent, work, disp, next, held, tries, why, errCh,
                          stored, result>>

\* uploadBlock reads the block; its md5 is still the expected one.
Read(w) == /\ st[w] = "got" /\ ~work
           /\ Go(w, "ready")
           /\ UNCHANGED <<parent, work, disp, next, held, tries, why, errCh,
                          wg, stored, result>>

\* The block cannot be read, or the local file has changed.
ReadFails(w) == /\ st[w] = "got" /\ ~work
                /\ Fail(w, Failed)
                /\ UNCHANGED <<parent, work, disp, next, held, tries, errCh,
                               wg, stored, result>>

\* The top of retry's loop.
Attempt(w) == /\ st[w] = "ready"
              /\ IF work THEN Fail(w, Cancelled) /\ UNCHANGED tries
                         ELSE /\ Go(w, "call")
                              /\ tries' = [tries EXCEPT ![w] = @ + 1]
                              /\ UNCHANGED why
              /\ UNCHANGED <<parent, work, disp, next, held, errCh, wg,
                             stored, result>>

\* The server answers with the expected md5.
ReplyOk(w) == /\ st[w] = "call"
              /\ stored' = stored \union {held[w]}
              /\ Go(w, "recv")
              /\ UNCHANGED <<parent, work, disp, next, held, tries, why,
                             errCh, wg, result>>

\* Mutant: one attempt more than maxRetries.
MutReplyError(w) ==
  /\ st[w] = "call"
  /\ stored' \in {stored, stored \union {held[w]}}
  /\ IF tries[w] > MaxAttempts THEN Fail(w, Failed)
                               ELSE Go(w, "wait") /\ UNCHANGED why
  /\ UNCHANGED <<parent, work, disp, next, held, tries, errCh, wg, result>>

\* The call fails; the block may have been stored, the answer being lost.
\* A call can also fail because workCtx was cancelled under it.
ReplyError(w) ==
  /\ st[w] = "call"
  /\ stored' \in {stored, stored \union {held[w]}}
  /\ IF tries[w] = MaxAttempts
       THEN \E e \in {Failed} \union (IF work THEN {Cancelled} ELSE {}) : Fail(w, e)
       ELSE Go(w, "wait") /\ UNCHANGED why
  /\ UNCHANGED <<parent, work, disp, next, held, tries, errCh, wg, result>>

\* The back-off timer fires, or the cancellation ends the wait first.
WaitOver(w) == /\ st[w] = "wait"
               /\ Go(w, "ready")
               /\ UNCHANGED <<parent, work, disp, next, held, tries, why,
                              errCh, wg, stored, result>>

WaitAborted(w) == /\ st[w] = "wait" /\ work
                  /\ Fail(w, Cancelled)
                  /\ UNCHANGED <<parent, work, disp, next, held, tries, errCh,
                                 wg, stored, result>>

\* Mutant: the pool is cancelled before the error is put into errCh.
MutReport(w) ==
  /\ st[w] = "report"
  /\ IF work THEN /\ errCh' = (IF errCh = None THEN why[w] ELSE errCh)
                  /\ Leave(w)
                  /\ UNCHANGED work
             ELSE work' = TRUE /\ UNCHANGED <<errCh, st, wg>>
  /\ UNCHANGED <<parent, disp, next, held, tries, why, stored, result>>

\* errCh <- err, unless an earlier error fills it.
Report(w) == /\ st[w] = "report"
             /\ errCh' = IF errCh = None THEN why[w] ELSE errCh
             /\ Go(w, "cancel")
             /\ UNCHANGED <<parent, work, disp, next, held, tries, why, wg,
                            stored, result>>

\* Mutant: a failing worker leaves without cancelling the pool.
MutCancel(w) == /\ st[w] = "cancel"
                /\ Leave(w)
                /\ UNCHANGED <<parent, work, disp, next, held, tries, why,
                               errCh, stored, result>>

Cancel(w) == /\ st[w] = "cancel"
             /\ work' = TRUE
             /\ Leave(w)
             /\ UNCHANGED <<parent, disp, next, held, tries, why, errCh,
                            stored, result>>

-----------------------------------------------------------------------------
Dispatcher == (\E w \in Workers : Send(w)) \/ SendAborted \/ SendChecked
              \/ SendFinished \/ Return

Worker(w) == \/ NoMoreJobs(w) \/ Drop(w) \/ Read(w) \/ ReadFails(w)
             \/ Attempt(w) \/ ReplyOk(w) \/ ReplyError(w)
             \/ WaitOver(w) \/ WaitAborted(w) \/ Report(w) \/ Cancel(w)

Next == CancelParent \/ Propagate \/ Dispatcher \/ \E w \in Workers : Worker(w)

Spec == Init /\ [][Next]_vars

\* Goroutines are scheduled, timers fire and every call comes back, with an
\* answer or an error.  Nobody is obliged to cancel ctx.
FairSpec == /\ Spec
            /\ WF_vars(Propagate)
            /\ WF_vars(Dispatcher)
            /\ \A w \in Workers : WF_vars(Worker(w))

-----------------------------------------------------------------------------
\* Everything stays of its type, no block is called for more than MaxAttempts
\* times.
TypeOK ==
  /\ parent \in BOOLEAN /\ work \in BOOLEAN
  /\ disp \in {"send", "sent", "wait", "returned"}
  /\ next \in 1 .. Blocks + 1
  /\ st \in [Workers -> WorkerStates]
  /\ held \in [Workers -> 0 .. Blocks]
  /\ tries \in [Workers -> 0 .. MaxAttempts]
  /\ why \in [Workers -> {Failed, Cancelled, None}]
  /\ errCh \in {Failed, Cancelled, None}
  /\ wg \in 0 .. Cardinality(Workers)
  /\ stored \subseteq 1 .. Blocks
  /\ result \in {Failed, Cancelled, None, "nil"}

\* A nil result means that the server has stored every missing block: blocks
\* dropped by cancelled workers or never handed out are never mistaken for
\* uploaded ones, and upload may go on to create the file.
NilMeansAllStored == result = "nil" => stored = 1 .. Blocks

\* The error of the failing call is the one reported: uploadBlocks returns the
\* context's error only when its caller cancelled, never one that a sibling's
\* failure caused.
RootCause == result = Cancelled => parent

\* The last select finds the error of every worker that failed: once
\* uploadBlocks has returned, no worker fails any more, and its result is the
\* error of one that did if there is one, else ctx.Err().
Failures == {why[w] : w \in Workers} \ {None}

NoErrorLost ==
  disp = "returned" =>
    IF Failures # {} THEN result \in Failures
                     ELSE result = IF parent THEN Cancelled ELSE "nil"

\* uploadBlocks returns, whatever the answers and whenever it is cancelled.
Terminates == <>(disp = "returned")
=============================================================================
