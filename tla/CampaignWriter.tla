---------------------------- MODULE CampaignWriter ----------------------------
(***************************************************************************)
(* Who writes to the evidence store of a campaign, and who still does when *)
(* the campaign gives its lock back: the pipeline, which awaits each of    *)
(* its events (investigation-runner-internals.ts), the shutdown hook of    *)
(* its lock (campaign-lock.ts), and the timers of model calls, which       *)
(* append without being awaited (heartbeat.ts, timeout.ts and retry.ts in  *)
(* the providers, judge-panel.ts).                                         *)
(*                                                                         *)
(* One process of the campaign runs at a time (CampaignLock is about two); *)
(* a signal while the pipeline prepares the store is left out, and so is   *)
(* what the events say.  How often a call is retried is left open.         *)
(***************************************************************************)
EXTENDS EvidenceStore

CONSTANT Judges     \* the members of a panel

VARIABLES
    writer,     \* where the pipeline stands
    lock,       \* "free", "held", or "stale": its owner died with it
    callers,    \* who enqueued each operation of writeQueue
    hook,       \* where the lock's shutdown hook stands
    undrained,  \* operations the hook's drain still waits for
    listener,   \* the provider timeout listener is set
    calls,      \* each judge's call
    why         \* history: what this life has met that lets others write late

writerVars == <<writer, lock, callers, hook, undrained, listener, calls, why>>
stage == <<lock, hook, undrained, listener, why>>

Callers == {"pipeline", "hook", "timer"}

Writers ==
    { "starting",   \* before acquire
      "reclaiming", \* in acquire: the event of a reclaimed lock is awaited
      "locked",     \* the lock is held, the state not yet read
      "preparing",  \* prepare of the store is awaited
      "resuming",   \* the listener is set, nothing has been asked of a model
      "announcing", \* an event about the target is awaited
      "running",
      "awaiting",   \* an event of a stage is awaited
      "calling",    \* a model call with a heartbeat is awaited
      "judging",    \* a panel's calls are awaited
      "finishing",  \* the last event is awaited
      "throwing",   \* in the catch, before its event
      "failing",    \* the catch's event is awaited
      "releasing",  \* before the release of the finally, or of the normal end
      "over" }      \* the pipeline has returned or thrown

NoCalls == [j \in Judges |-> "none"]

WriterInit ==
    /\ Init
    /\ writer = "starting" /\ lock = "free"
    /\ callers = <<>>
    /\ hook = "none" /\ undrained = 0
    /\ listener = FALSE
    /\ calls = NoCalls
    /\ why = {}

\* appendEvent or a summary writer is called by one of the three.
Call(caller, op) ==
    /\ Enqueue(op)
    /\ callers' = Append(callers, caller)

-----------------------------------------------------------------------------
(* The pipeline.                                                           *)

\* acquire, of a lock that is free or left by a dead process; the latter is
\* told in an event that acquire awaits.
Acquire ==
    /\ running /\ writer = "starting"
    /\ lock' = "held"
    /\ \/ /\ lock = "free"
          /\ writer' = "locked"
          /\ UNCHANGED <<vars, callers>>
       \/ /\ lock = "stale"
          /\ writer' = "reclaiming"
          /\ Call("pipeline", "append")
    /\ UNCHANGED <<hook, undrained, listener, calls, why>>

\* The listener is set as soon as the store is prepared.
SetListener == writer' = "resuming" /\ listener' = TRUE

\* initializeCampaign reads the state, or throws, and then there is no state to
\* record the failure in; prepare returns at once after a reclaim.
InitializeCampaign ==
    /\ running /\ writer = "locked"
    /\ \/ writer' = "releasing" /\ UNCHANGED <<vars, callers, listener>>
       \/ ~prepared /\ writer' = "preparing" /\ Call("pipeline", "prepare") /\ UNCHANGED listener
       \/ prepared /\ SetListener /\ UNCHANGED <<vars, callers>>
    /\ UNCHANGED <<lock, hook, undrained, calls, why>>

\* Coverage gaps and the sentinel's result are events.
AnnounceTarget ==
    /\ writer = "resuming"
    /\ writer' = "announcing"
    /\ Call("pipeline", "append")
    /\ UNCHANGED <<stage, calls>>

\* A campaign that was completed before returns, and leaves the listener set.
ReturnAlreadyCompleted ==
    /\ running /\ writer = "resuming"
    /\ writer' = "releasing"
    /\ why' = why \cup {"returned_early"}
    /\ UNCHANGED <<vars, lock, callers, hook, undrained, listener, calls>>

\* investigation_started.
Begin ==
    /\ writer = "resuming"
    /\ writer' = "awaiting"
    /\ Call("pipeline", "append")
    /\ UNCHANGED <<stage, calls>>

\* A stage appends an event or writes a summary, the last stage its last event.
AppendEvent(op) ==
    /\ writer = "running"
    /\ writer' \in {"awaiting", "finishing"}
    /\ Call("pipeline", op)
    /\ UNCHANGED <<stage, calls>>

\* A planner or a judge is asked under a heartbeat, a panel all at once
\* without one.
InvokeModels ==
    /\ running /\ writer = "running"
    /\ calls = NoCalls
    /\ \/ \E j \in Judges : writer' = "calling" /\ calls' = [calls EXCEPT ![j] = "racing"]
       \/ writer' = "judging" /\ calls' = [j \in Judges |-> "racing"]
    /\ UNCHANGED <<vars, stage, callers>>

\* Anything a stage does outside the calls and events shown here throws.
Throw ==
    /\ running /\ writer \in {"resuming", "running"}
    /\ writer' = "throwing"
    /\ UNCHANGED <<vars, stage, callers, calls>>

\* The catch: setFailed has written the state, now the event.
RecordFailure ==
    /\ writer = "throwing"
    /\ writer' = "failing"
    /\ Call("pipeline", "append")
    /\ UNCHANGED <<stage, calls>>

\* release: nothing to do when the shutdown hook has released it already.
Release ==
    /\ running /\ writer = "releasing"
    /\ writer' = "over"
    /\ lock' = "free"
    /\ UNCHANGED <<vars, callers, hook, undrained, listener, calls, why>>

-----------------------------------------------------------------------------
(* Model calls.                                                            *)

Waits == writer \in {"calling", "judging"}

\* A call settles for good; the pipeline goes on when no call is left to wait
\* for, and a call that fails takes it out of the panel while the others of
\* the panel go on.
SettleCall(j, failed) ==
    /\ calls' = [calls EXCEPT ![j] = "none"]
    /\ IF ~Waits THEN UNCHANGED <<writer, why>>
       ELSE IF failed
       THEN /\ writer' = "throwing"
            /\ why' = IF calls' = NoCalls THEN why ELSE why \cup {"calls_abandoned"}
       ELSE /\ writer' = IF calls' = NoCalls THEN "running" ELSE writer
            /\ UNCHANGED why

\* The request is answered, or fails in a way that is not retried.
Answer(j) ==
    /\ running /\ calls[j] = "racing"
    /\ \E failed \in BOOLEAN : SettleCall(j, failed)
    /\ UNCHANGED <<vars, lock, callers, hook, undrained, listener>>

\* withRequestTimeout: the listener, if any, is told and appends without
\* being awaited; the call is retried after a delay or fails.
TimeOut(j) ==
    /\ running /\ calls[j] = "racing"
    /\ IF listener THEN Call("timer", "append") ELSE UNCHANGED <<vars, callers>>
    /\ \/ calls' = [calls EXCEPT ![j] = "delayed"] /\ UNCHANGED <<writer, why>>
       \/ SettleCall(j, TRUE)
    /\ UNCHANGED <<lock, hook, undrained, listener>>

\* withRetry: the delay is over, another request races its timer.
Retry(j) ==
    /\ running /\ calls[j] = "delayed"
    /\ calls' = [calls EXCEPT ![j] = "racing"]
    /\ UNCHANGED <<vars, stage, writer, callers>>

\* withHeartbeat around a call, or around a whole lane, which awaits events of
\* its own: the interval's events end with what they are about.
Heartbeat ==
    /\ writer \in {"running", "awaiting", "calling"}
    /\ Call("timer", "append")
    /\ UNCHANGED <<stage, writer, calls>>

-----------------------------------------------------------------------------
(* The signal handler of the lock.                                         *)

\* The first signal: the hook appends an event and awaits it.
Signal ==
    /\ lock = "held" /\ (prepared \/ writer = "reclaiming")
    /\ hook = "none"
    /\ hook' = "appending"
    /\ Call("hook", "append")
    /\ UNCHANGED <<writer, lock, undrained, listener, calls, why>>

\* drain has seen the queue it found to its end; the listener is cleared.
Drained ==
    /\ running /\ hook = "draining" /\ undrained = 0
    /\ hook' = "ended"
    /\ listener' = FALSE
    /\ UNCHANGED <<vars, writer, lock, callers, undrained, calls, why>>

\* SHUTDOWN_TIMEOUT_MS is over.
HookTimesOut ==
    /\ running /\ hook \in {"appending", "draining"}
    /\ hook' = "ended"
    /\ why' = why \cup {"hook_cut_short"}
    /\ UNCHANGED <<vars, writer, lock, callers, undrained, listener, calls>>

\* The hook has ended in one way or another; process.exit follows.
ReleaseOnSignal ==
    /\ running /\ hook = "ended" /\ lock = "held"
    /\ lock' = "free"
    /\ UNCHANGED <<vars, writer, callers, hook, undrained, listener, calls, why>>

-----------------------------------------------------------------------------
(* The store settles operations, and those who await them go on.           *)

\* Where the pipeline goes when what it awaits resolves or rejects: a rejected
\* event takes it to the catch.  An acquire whose event is rejected throws with
\* the lock held and no one to release it but the exit.
Continuation(resolved) ==
    CASE writer = "failing"                       -> "releasing"
      [] writer = "reclaiming" /\ resolved        -> "locked"
      [] writer = "reclaiming" /\ ~resolved       -> "over"
      [] writer = "finishing" /\ resolved         -> "releasing"
      [] writer = "awaiting" /\ resolved          -> "running"
      [] writer \in {"preparing", "announcing"} /\ resolved -> "resuming"
      [] OTHER                                    -> "throwing"

\* Bug: the listener is never cleared.
PipelineGoesOnUncleared(resolved) ==
    /\ writer' = Continuation(resolved)
    /\ listener' = (listener \/ (writer = "preparing" /\ resolved))
    /\ why' = IF writer = "failing" /\ ~resolved
              THEN why \cup {"failure_not_recorded"} ELSE why

\* The listener is set behind prepare, and cleared behind the last event and
\* behind that of the catch, which throws past it when it is rejected.
PipelineGoesOn(resolved) ==
    /\ writer' = Continuation(resolved)
    /\ listener' = IF resolved /\ writer \in {"finishing", "failing"} THEN FALSE
                   ELSE listener \/ (writer = "preparing" /\ resolved)
    /\ why' = IF writer = "failing" /\ ~resolved
              THEN why \cup {"failure_not_recorded"} ELSE why

\* The operation at the head settles: its caller goes on, and a drain that
\* waits for it has one less to wait for.
CallerGoesOn(resolved) ==
    /\ callers' = Tail(callers)
    /\ IF Head(callers) = "pipeline" THEN PipelineGoesOn(resolved)
       ELSE IF Head(callers) = "hook" /\ hook = "appending" /\ ~resolved
       THEN why' = why \cup {"hook_cut_short"} /\ UNCHANGED <<writer, listener>>
       ELSE UNCHANGED <<writer, listener, why>>
    /\ IF Head(callers) = "hook" /\ hook = "appending"
       THEN IF resolved THEN hook' = "draining" /\ undrained' = Len(callers')
                        ELSE hook' = "ended" /\ UNCHANGED undrained
       ELSE /\ undrained' = IF undrained > 0 THEN undrained - 1 ELSE 0
            /\ UNCHANGED hook
    /\ UNCHANGED <<lock, calls>>

OperationWorks ==
    /\ Load \/ Repair \/ ComputeNext \/ WritePart \/ WriteRest
    /\ writeQueue' = writeQueue
    /\ UNCHANGED writerVars
OperationResolves == (Commit \/ WriteManifest \/ PrepareReturns) /\ CallerGoesOn(TRUE)
OperationRejects ==
    /\ Load \/ RepairFails \/ WriteFails \/ WriteManifestFails
    /\ writeQueue' # writeQueue
    /\ CallerGoesOn(FALSE)

\* The process goes: killed, by a second signal, or by process.exit after the
\* hook or the end of the pipeline.  Only a kill leaves the lock.
ProcessEnds ==
    /\ Crash
    /\ lock' \in (IF lock = "held" THEN {"free", "stale"} ELSE {lock})
    /\ lock' = "free" => lock = "free" \/ hook # "none" \/ writer = "over"
    /\ writer' = "starting"
    /\ callers' = <<>>
    /\ hook' = "none" /\ undrained' = 0
    /\ listener' = FALSE
    /\ calls' = NoCalls
    /\ why' = {}

NextProcess == Restart /\ UNCHANGED writerVars

WriterNext ==
    \/ Acquire \/ InitializeCampaign \/ AnnounceTarget \/ ReturnAlreadyCompleted \/ Begin
    \/ \E op \in {"append", "manifest"} : AppendEvent(op)
    \/ InvokeModels \/ Throw \/ RecordFailure \/ Release
    \/ \E j \in Judges : Answer(j) \/ TimeOut(j) \/ Retry(j)
    \/ Heartbeat
    \/ Signal \/ Drained \/ HookTimesOut \/ ReleaseOnSignal
    \/ OperationWorks \/ OperationResolves \/ OperationRejects
    \/ ProcessEnds \/ NextProcess

WriterSpec ==
    WriterInit /\ [][WriterNext]_<<vars, writerVars>>
    /\ WF_<<vars, writerVars>>(OperationWorks \/ OperationResolves \/ OperationRejects)

-----------------------------------------------------------------------------

\* With the lock given back and no signal, nothing is left to write but time
\* out events of calls that a failed panel has abandoned, and none can be added
\* unless the failure could not be recorded or the campaign had been completed
\* before.  With a signal, a hook that ran to its end has seen its own event
\* and all events before it settled (executeCampaignPipeline's finally, onSignal).
LateWritesAreKnown ==
    /\ running /\ lock = "free" /\ writer = "over" /\ hook = "none" =>
          /\ \A i \in 1..Len(callers) : callers[i] = "timer"
          /\ callers # <<>> => "calls_abandoned" \in why
          /\ listener => why \cap {"failure_not_recorded", "returned_early"} # {}
    /\ hook = "ended" /\ "hook_cut_short" \notin why =>
          \A i \in 1..Len(callers) : callers[i] # "hook"

=============================================================================
