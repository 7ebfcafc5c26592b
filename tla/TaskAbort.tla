----------------------------- MODULE TaskAbort -----------------------------
(***************************************************************************)
(* src/task_abort.rs: the cancellation flag behind every CoreSession,      *)
(* listener stop token and connection abort guard.  trigger() sets an      *)
(* AtomicBool and then wakes the tasks parked on a tokio Notify;           *)
(* cancelled() creates its Notified future, reads the flag, and only then  *)
(* parks.  Each atomic operation of either side is one action.             *)
(***************************************************************************)
EXTENDS Naturals

CONSTANTS Waiters,   \* tasks that await cancelled()
          Triggers   \* tasks that call trigger()

VARIABLES done,   \* the AtomicBool
          calls,  \* how often notify_waiters has run (Notify's own counter)
          wpc,    \* where each waiter is inside cancelled()
          seen,   \* the counter value its Notified future captured
          tpc     \* where each caller is inside trigger()

vars == <<done, calls, wpc, seen, tpc>>

WaiterPc  == {"start", "created", "unparked", "parked", "returned"}
TriggerPc == {"start", "notify", "finished"}

TypeOK ==
    /\ done \in BOOLEAN
    /\ calls \in 0..1
    /\ wpc \in [Waiters -> WaiterPc]
    /\ seen \in [Waiters -> 0..1]
    /\ tpc \in [Triggers -> TriggerPc]

Init ==
    /\ done = FALSE
    /\ calls = 0
    /\ wpc = [w \in Waiters |-> "start"]
    /\ seen = [w \in Waiters |-> 0]
    /\ tpc = [t \in Triggers |-> "start"]

----------------------------------------------------------------------------
(* cancelled() *)

\* let notified = self.notify.notified();
CreateNotified(w) ==
    /\ wpc[w] = "start"
    /\ seen' = [seen EXCEPT ![w] = calls]
    /\ wpc' = [wpc EXCEPT ![w] = "created"]
    /\ UNCHANGED <<done, calls, tpc>>

\* A check that takes the flag for set.
CheckDoneEagerly(w) ==
    /\ wpc[w] = "created"
    /\ wpc' = [wpc EXCEPT ![w] = "returned"]
    /\ UNCHANGED <<done, calls, seen, tpc>>

\* if self.done.load(Acquire) { return; }
CheckDone(w) ==
    /\ wpc[w] = "created"
    /\ wpc' = [wpc EXCEPT ![w] = IF done THEN "returned" ELSE "unparked"]
    /\ UNCHANGED <<done, calls, seen, tpc>>

\* A first poll that forgets what notified() captured: the wake-up that came
\* between its creation and its poll is lost.
FirstPollForgetful(w) ==
    /\ wpc[w] = "unparked"
    /\ wpc' = [wpc EXCEPT ![w] = "parked"]
    /\ UNCHANGED <<done, calls, seen, tpc>>

\* notified.await, first poll: tokio completes the future at once if
\* notify_waiters has run since it was created, and queues it otherwise.
FirstPoll(w) ==
    /\ wpc[w] = "unparked"
    /\ wpc' = [wpc EXCEPT ![w] = IF calls # seen[w] THEN "returned" ELSE "parked"]
    /\ UNCHANGED <<done, calls, seen, tpc>>

\* The caller waits inside tokio::select!: when another branch wins, the
\* pending future is dropped and the next loop iteration starts afresh.
DropFuture(w) ==
    /\ wpc[w] = "parked"
    /\ wpc' = [wpc EXCEPT ![w] = "start"]
    /\ UNCHANGED <<done, calls, seen, tpc>>

----------------------------------------------------------------------------
(* trigger() *)

\* if !self.done.swap(true, Release) { ... }
Swap(t) ==
    /\ tpc[t] = "start"
    /\ done' = TRUE
    /\ tpc' = [tpc EXCEPT ![t] = IF done THEN "finished" ELSE "notify"]
    /\ UNCHANGED <<calls, wpc, seen>>

\* self.notify.notify_waiters(): every queued future completes, and futures
\* that exist but are not queued yet see that the counter has moved.
NotifyWaiters(t) ==
    /\ tpc[t] = "notify"
    /\ calls' = calls + 1
    /\ wpc' = [w \in Waiters |-> IF wpc[w] = "parked" THEN "returned" ELSE wpc[w]]
    /\ tpc' = [tpc EXCEPT ![t] = "finished"]
    /\ UNCHANGED <<done, seen>>

----------------------------------------------------------------------------
WaiterStep(w) == CreateNotified(w) \/ CheckDone(w) \/ FirstPoll(w)

TriggerStep(t) == Swap(t) \/ NotifyWaiters(t)

Next ==
    \/ \E w \in Waiters : WaiterStep(w) \/ DropFuture(w)
    \/ \E t \in Triggers : TriggerStep(t)

Spec == Init /\ [][Next]_vars

\* A task that is runnable is scheduled: tokio polls every woken future, and
\* trigger() has no await point between the swap and the wake-up.  Nothing
\* obliges anyone to call trigger() at all.
FairSpec ==
    /\ Spec
    /\ \A w \in Waiters : WF_vars(WaiterStep(w))
    /\ \A t \in Triggers : WF_vars(NotifyWaiters(t))

----------------------------------------------------------------------------
(* Properties *)

\* cancelled() never sleeps through the trigger: a task parked (or about to
\* park) after the flag was set still has its wake-up coming, because the
\* caller that set the flag has yet to run notify_waiters, or because the
\* Notified future it holds will notice that the counter moved.
NoLostWakeup ==
    \A w \in Waiters :
        /\ done /\ wpc[w] = "parked" => \E t \in Triggers : tpc[t] = "notify"
        /\ done /\ wpc[w] = "unparked" =>
              calls # seen[w] \/ \E t \in Triggers : tpc[t] = "notify"

\* TaskAbort implements the latch: fired is the AtomicBool, and a waiter is
\* released when cancelled() returns to it.  In particular cancelled() never
\* returns before trigger(), and under fair scheduling every task that waits
\* is let through once trigger() has been called, however often its select!
\* loop dropped and recreated the future before.
released == {w \in Waiters : wpc[w] = "returned"}
L == INSTANCE Latch WITH fired <- done
LatchSafety == L!Spec
LatchImplemented == L!FairSpec
=============================================================================
