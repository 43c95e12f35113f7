----------------------------- MODULE CheckQueue -----------------------------
(***************************************************************************)
(* The script-check queue of src/src/checkqueue.h as ConnectBlock uses it  *)
(* (src/src/main.cpp): one master pushes the script checks of a block,     *)
(* worker threads run them in batches, and at the end the master joins the *)
(* workers until every check is done and collects one verdict.             *)
(*                                                                         *)
(* Every access to the shared state happens with `mutex' held and is one   *)
(* step here, from the lock to the unlock or to the wait on a condition    *)
(* variable.  A waiter that has been notified still has to get the mutex:  *)
(* it is "woken" until it does, and anyone may come first.                 *)
(*                                                                         *)
(* The queue holds check identities; the code uses a stack and says that   *)
(* the order does not matter, so a batch is any part of it of the right    *)
(* size.  fQuit is never set by the program.                               *)
(***************************************************************************)
EXTENDS Integers, FiniteSets

CONSTANTS Workers,   \* threads running CCheckQueue::Thread
          Master,    \* the thread that connects blocks
          Checks,    \* script checks
          Good,      \* the checks that succeed
          nBatchSize

Threads == Workers \cup {Master}

ASSUME MasterIsNoWorker == Master \notin Workers
ASSUME FiniteThreads == IsFiniteSet(Workers)
ASSUME FiniteChecks == IsFiniteSet(Checks)
ASSUME BatchSizePositive == nBatchSize \in Nat \ {0}

VARIABLES queue, nIdle, nTotal, fAllOk, nTodo,  \* members of CCheckQueue
          pc,          \* where each thread is in Loop
          batch,       \* its vChecks
          fOk,         \* its fOk
          verdict,     \* what the last Wait returned
          fUnwinding,  \* the control is waiting in its destructor
          added,       \* the checks pushed for the current block
          alive,       \* ConnectBlock's precomTxData, which checks point to, exists
          interrupted, \* threads boost has interrupted
          nLeaked      \* waits the master left by an interruption

queueVars == <<queue, nIdle, nTotal, fAllOk, nTodo>>
blockVars == <<verdict, fUnwinding, added, alive>>
vars == <<queueVars, pc, batch, fOk, blockVars, interrupted, nLeaked>>

Init ==
    /\ queue = {}
    /\ nIdle = 0
    /\ nTotal = 0
    /\ fAllOk = TRUE
    /\ nTodo = 0
    /\ pc = [t \in Threads |-> IF t = Master THEN "outside" ELSE "first"]
    /\ batch = [t \in Threads |-> {}]
    /\ fOk = [t \in Threads |-> TRUE]
    /\ verdict = TRUE
    /\ fUnwinding = FALSE
    /\ added = {}
    /\ alive = FALSE
    /\ interrupted = {}
    /\ nLeaked = 0
-----------------------------------------------------------------------------
(* Loop, from the top of its critical section.                             *)

ReturnsEarly(t, todo) == t = Master

\* The `while (queue.empty())' part, entered with the counters the clean-up or
\* the wake-up before it has left: return, wait, or take a batch.
Returns(t, todo) == t = Master /\ todo = 0

BatchFor(size, total, idle) ==
    LET share == size \div (total + idle + 1)
        most == IF share < nBatchSize THEN share ELSE nBatchSize
    IN  IF most < 1 THEN 1 ELSE most

ReturnWithoutReset(t, p, idle, total, todo, ok) ==
    /\ queue = {}
    /\ Returns(t, todo)
    /\ nTotal' = total - 1
    /\ verdict' = ok
    /\ fAllOk' = ok
    /\ pc' = [p EXCEPT ![t] = "returned"]
    /\ nIdle' = idle
    /\ nTodo' = todo
    /\ UNCHANGED <<queue, fOk>>

Return(t, p, idle, total, todo, ok) ==
    /\ queue = {}
    /\ Returns(t, todo)
    /\ nTotal' = total - 1
    /\ verdict' = ok
    /\ fAllOk' = TRUE
    /\ pc' = [p EXCEPT ![t] = "returned"]
    /\ nIdle' = idle
    /\ nTodo' = todo
    /\ UNCHANGED <<queue, fOk>>

Wait(t, p, idle, total, todo, ok) ==
    /\ queue = {}
    /\ ~Returns(t, todo)
    /\ nIdle' = idle + 1
    /\ pc' = [p EXCEPT ![t] = "waiting"]
    /\ nTotal' = total
    /\ nTodo' = todo
    /\ fAllOk' = ok
    /\ UNCHANGED <<queue, fOk, verdict>>

\* Work taken while the verdict is already known is not run: fOk = fAllOk.
Take(t, p, idle, total, todo, ok) ==
    /\ queue # {}
    /\ \E S \in SUBSET queue :
          /\ Cardinality(S) = BatchFor(Cardinality(queue), total, idle)
          /\ queue' = queue \ S
          /\ batch' = [batch EXCEPT ![t] = S]
    /\ fOk' = [fOk EXCEPT ![t] = ok]
    /\ pc' = [p EXCEPT ![t] = "exec"]
    /\ nIdle' = idle
    /\ nTotal' = total
    /\ nTodo' = todo
    /\ fAllOk' = ok
    /\ UNCHANGED verdict

Continue(t, p, idle, total, todo, ok) ==
    \/ Return(t, p, idle, total, todo, ok) /\ batch' = [batch EXCEPT ![t] = {}]
    \/ Wait(t, p, idle, total, todo, ok) /\ batch' = [batch EXCEPT ![t] = {}]
    \/ Take(t, p, idle, total, todo, ok)

\* First iteration.
EnterLoop(t) ==
    /\ pc[t] = "first"
    /\ Continue(t, pc, nIdle, nTotal + 1, nTodo, fAllOk)
    /\ UNCHANGED <<fUnwinding, added, alive, interrupted, nLeaked>>

\* cond.wait returns with the mutex held again.
Resume(t) ==
    /\ pc[t] = "woken"
    /\ Continue(t, pc, nIdle - 1, nTotal, nTodo, fAllOk)
    /\ UNCHANGED <<fUnwinding, added, alive, interrupted, nLeaked>>

\* condMaster.notify_one: only the master waits on condMaster.
NotifyMaster(p) ==
    IF p[Master] = "waiting" THEN [p EXCEPT ![Master] = "woken"] ELSE p

CleanUpSilently(t) ==
    /\ pc[t] = "ran"
    /\ Continue(t, pc, nIdle, nTotal, nTodo - Cardinality(batch[t]), fAllOk /\ fOk[t])
    /\ UNCHANGED <<fUnwinding, added, alive, interrupted, nLeaked>>

CleanUpOverwriting(t) ==
    /\ pc[t] = "ran"
    /\ LET todo == nTodo - Cardinality(batch[t])
           p == IF todo = 0 /\ t # Master THEN NotifyMaster(pc) ELSE pc
       IN  Continue(t, p, nIdle, nTotal, todo, fOk[t])
    /\ UNCHANGED <<fUnwinding, added, alive, interrupted, nLeaked>>

\* Clean-up of the batch just run; the one who finishes the last check of
\* all tells the master.
CleanUp(t) ==
    /\ pc[t] = "ran"
    /\ LET todo == nTodo - Cardinality(batch[t])
           p == IF todo = 0 /\ t # Master THEN NotifyMaster(pc) ELSE pc
       IN  Continue(t, p, nIdle, nTotal, todo, fAllOk /\ fOk[t])
    /\ UNCHANGED <<fUnwinding, added, alive, interrupted, nLeaked>>

\* The checks of a batch, outside the mutex; the first failure stops it.
Run(t) ==
    /\ pc[t] = "exec"
    /\ fOk' = [fOk EXCEPT ![t] = fOk[t] /\ batch[t] \subseteq Good]
    /\ pc' = [pc EXCEPT ![t] = "ran"]
    /\ UNCHANGED <<queueVars, batch, blockVars, interrupted, nLeaked>>

\* A condition variable may wake a waiter that nobody notified.
SpuriousWake(t) ==
    /\ pc[t] = "waiting"
    /\ pc' = [pc EXCEPT ![t] = "woken"]
    /\ UNCHANGED <<queueVars, batch, fOk, blockVars, interrupted, nLeaked>>
-----------------------------------------------------------------------------
(* ConnectBlock and its CCheckQueueControl.                                *)

IsIdle == nTotal = nIdle /\ nTodo = 0 /\ fAllOk

\* CCheckQueueControl's constructor, which asserts IsIdle.
BeginBlock ==
    /\ pc[Master] = "outside"
    /\ pc' = [pc EXCEPT ![Master] = "adding"]
    /\ added' = {}
    /\ alive' = TRUE
    /\ UNCHANGED <<queueVars, batch, fOk, verdict, fUnwinding, interrupted, nLeaked>>

\* condWorker.notify_one or notify_all.
Notified(n) ==
    LET asleep == {w \in Workers : pc[w] = "waiting"}
    IN  CASE n = 0 \/ asleep = {} -> {{}}
          [] n = 1 /\ asleep # {} -> {{w} : w \in asleep}
          [] n > 1 /\ asleep # {} -> {asleep}

\* control.Add(vChecks), once per transaction.
Add(S) ==
    /\ pc[Master] = "adding"
    /\ S \cap added = {}
    /\ queue' = queue \cup S
    /\ nTodo' = nTodo + Cardinality(S)
    /\ added' = added \cup S
    /\ \E W \in Notified(Cardinality(S)) :
          pc' = [t \in Threads |-> IF t \in W THEN "woken" ELSE pc[t]]
    /\ UNCHANGED <<nIdle, nTotal, fAllOk, batch, fOk, verdict, fUnwinding, alive, interrupted, nLeaked>>

\* control.Wait() after the last transaction.
CallWait ==
    /\ pc[Master] = "adding"
    /\ pc' = [pc EXCEPT ![Master] = "first"]
    /\ fUnwinding' = FALSE
    /\ UNCHANGED <<queueVars, batch, fOk, verdict, added, alive, interrupted, nLeaked>>

\* ConnectBlock fails before control.Wait(): its locals are destroyed in
\* reverse order of declaration, precomTxData first, then the control, whose
\* destructor waits.
FailBlock ==
    /\ pc[Master] = "adding"
    /\ pc' = [pc EXCEPT ![Master] = "first"]
    /\ fUnwinding' = TRUE
    /\ alive' = FALSE
    /\ UNCHANGED <<queueVars, batch, fOk, verdict, added, interrupted, nLeaked>>

\* ConnectBlock returns.
EndBlock ==
    /\ pc[Master] = "returned"
    /\ pc' = [pc EXCEPT ![Master] = "outside"]
    /\ alive' = FALSE
    /\ fUnwinding' = FALSE
    /\ UNCHANGED <<queueVars, batch, fOk, verdict, added, interrupted, nLeaked>>

\* threadGroup.interrupt_all() at shutdown: cond.wait throws.  nIdle and
\* nTotal keep counting the worker.
InterruptWorker(w) ==
    /\ w \notin interrupted
    /\ pc[w] \in {"waiting", "woken"}
    /\ pc' = [pc EXCEPT ![w] = "stopped"]
    /\ interrupted' = interrupted \cup {w}
    /\ UNCHANGED <<queueVars, batch, fOk, blockVars, nLeaked>>

\* The same for a master that belongs to the group (block import, staking):
\* the exception unwinds ConnectBlock and the control's destructor waits again.
InterruptMaster ==
    /\ Master \notin interrupted
    /\ ~fUnwinding
    /\ pc[Master] \in {"waiting", "woken"}
    /\ pc' = [pc EXCEPT ![Master] = "first"]
    /\ interrupted' = interrupted \cup {Master}
    /\ nLeaked' = nLeaked + 1
    /\ fUnwinding' = TRUE
    /\ alive' = FALSE
    /\ UNCHANGED <<queueVars, batch, fOk, verdict, added>>

LoopStep(t) == EnterLoop(t) \/ Resume(t) \/ CleanUp(t) \/ Run(t)

Next ==
    \/ \E t \in Threads : LoopStep(t)
    \/ \E t \in Threads : SpuriousWake(t)
    \/ BeginBlock
    \/ \E S \in SUBSET Checks : Add(S)
    \/ CallWait
    \/ FailBlock
    \/ EndBlock
    \/ \E w \in Workers : InterruptWorker(w)
    \/ InterruptMaster

Spec == Init /\ [][Next]_vars

\* Each thread is scheduled again and again and gets the mutex in the end.
\* Nothing is assumed of the block's content, of wake-ups or of interrupts.
FairSpec == Spec /\ \A t \in Threads : WF_vars(LoopStep(t))
-----------------------------------------------------------------------------
Idle == {t \in Threads : pc[t] \in {"waiting", "woken", "stopped"}}
Counted == {t \in Threads : pc[t] \in {"waiting", "woken", "stopped", "exec", "ran"}}
InHand == UNION {batch[t] : t \in Threads}

\* The counters stay in their ranges (they are unsigned in the code), and the
\* threads are at places of Loop.
TypeOK ==
    /\ queue \subseteq Checks
    /\ nIdle \in Nat /\ nTotal \in Nat /\ nTodo \in Nat
    /\ fAllOk \in BOOLEAN
    /\ pc \in [Threads -> {"outside", "adding", "first", "waiting", "woken",
                           "exec", "ran", "returned", "stopped"}]
    /\ batch \in [Threads -> SUBSET Checks]
    /\ fOk \in [Threads -> BOOLEAN]
    /\ verdict \in BOOLEAN /\ fUnwinding \in BOOLEAN /\ alive \in BOOLEAN
    /\ added \subseteq Checks
    /\ interrupted \subseteq Threads
    /\ nLeaked \in Nat

\* assert(isIdle) in CCheckQueueControl never fails: between two blocks no
\* thread holds a check, every counted thread is idle and the verdict is reset,
\* whatever failed, was interrupted or woke up in the blocks before.
ControlFindsQueueIdle == pc[Master] = "outside" => IsIdle

\* Wait returns the truth about exactly the checks of this block: TRUE iff all
\* of them succeed, although checks are skipped once one has failed.
VerdictIsExact ==
    pc[Master] = "returned" => verdict = (added \subseteq Good)

\* `guarantees the passed queue is finished before continuing': when Wait or
\* the destructor returns, no check of the block is queued or in a batch.
NothingLeftBehind ==
    pc[Master] \in {"returned", "outside"} =>
        queue = {} /\ \A t \in Threads : batch[t] = {}

\* nTodo counts exactly the checks that are queued or in some batch.
TodoIsExact == nTodo = Cardinality(queue) + Cardinality(InHand)

\* precomTxData outlives the checks that point into it, unless ConnectBlock is
\* left early: then it is destroyed before the control that waits for them.
ChecksHaveTheirData ==
    (\E t \in Threads : pc[t] = "exec" /\ fOk[t] /\ batch[t] # {}) => alive \/ fUnwinding

\* The master always gets its verdict: no wake-up is lost, even when every
\* worker has been interrupted.
WaitReturns == (pc[Master] \in {"first", "waiting", "woken", "exec", "ran"})
                   ~> (pc[Master] = "returned")
=============================================================================
