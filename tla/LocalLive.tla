------------------------------ MODULE LocalLive ------------------------------
(***************************************************************************)
(* The local-live lane (runLocalLiveLane and runAdaptiveExploration in     *)
(* investigation-runner-local-live.ts, and verification/local-live/): it   *)
(* starts a local target, sends it canaries, then rounds of probes for     *)
(* packets of hypotheses, then the probes of the Mythos sub-lane, and      *)
(* shuts the target down.                                                  *)
(*                                                                         *)
(* One process runs the lane; the operator may create the stop file of the *)
(* campaign between any two steps.  The policy looks at that file when a   *)
(* probe is authorised, and probes are authorised long before the last of  *)
(* the requests they lead to is sent.  An action is what the lane does     *)
(* between two awaits.                                                     *)
(***************************************************************************)
EXTENDS RateLimiter, ProbePolicy, Sequences

CONSTANTS
    Environment,       \* the target's environment
    Profiles,          \* the commands that the target's profile may name
    Canaries,          \* the canary probes: [method, hasBody]
    Translations,      \* what the probes of a round may be
    Followups,         \* what the follow-ups of a surprise may be
    WorkerProbes,      \* what a Mythos worker may submit
    MaxProbes,         \* probes of a round, and of a surprise
    Identities,        \* identities of the target
    MutationsAllowed,  \* allowMutations, and no --dry-run-mutations
    PacketLimit,       \* resolveVerificationHypothesisLimit
    Rounds,            \* resolveLocalLiveRounds
    Invocations,       \* mythosConfig.invocationsPerCampaign
    ProbeBudget,       \* mythosConfig.probeBudget
    MaxCalls           \* bound: tool calls of a worker's output

Probes == [method : STRING, hasBody : BOOLEAN]

Commands == {"localStartup", "localShutdown"}

ASSUME LocalConstants ==
    /\ Profiles \subseteq SUBSET Commands
    /\ MaxProbes \in Nat \ {0} /\ Identities \in Nat
    /\ Canaries \in Seq(Probes) /\ WorkerProbes \subseteq Probes
    /\ Translations \cup Followups \subseteq Seq(Probes)
    /\ \A probes \in Translations \cup Followups : Len(probes) <= MaxProbes
    /\ MutationsAllowed \in BOOLEAN
    /\ PacketLimit \in Nat /\ Rounds \in Nat \ {0}
    /\ Invocations \in Nat /\ ProbeBudget \in Nat /\ MaxCalls \in Nat

VARIABLES
    pc,          \* where the lane stands
    stopFile,    \* the stop file of the campaign exists
    commands,    \* the commands that its profile names; they do not change
    target,      \* the lane has started the target, and it runs
    shutdown,    \* its shutdown command has been run
    limiter,     \* the lane's rate limiter
    queued,      \* packets in packetQueue
    packet,      \* packets begun (packetIndex, processedPackets)
    round,       \* the round of the packet
    undecided,   \* probes still to be authorised
    batch,       \* which probes are sent
    work,        \* probes authorised and not yet sent
    executable,  \* executableHttpProbes
    surprises,   \* answers of the round still to be looked at
    sublane,     \* the Mythos sub-lane: [invocations, calls, probes]
    failing,     \* the lane will throw
    pending,     \* fetches whose results are in roundResults or probesExecuted
    sent,        \* history: fetches of probes
    counted,     \* fetches in summary.attempted
    lost,        \* history: fetches a failed sub-lane did not report
    late         \* history: fetches after the stop file

world == <<stopFile, commands, target, shutdown>>
plan == <<queued, packet, round>>
probing == <<undecided, batch, work, executable, surprises>>
account == <<pending, sent, counted, lost, late>>
vars == <<pc, world, limiter, plan, probing, sublane, failing, account>>

Batches == {"canaries", "round", "sequence", "differential", "followups", "mythos"}
Sending == {"probe", "waiting", "inflight"}
Guarded == {"decide", "record", "packets", "translate", "chain", "compare",
            "surprise", "invoke", "call", "return"} \cup Sending
Ended == {"done", "threw"}
Stages == {"idle", "start", "prepared", "stopping", "stopped"} \cup Guarded \cup Ended

Init ==
    /\ commands \in Profiles
    /\ pc = "idle" /\ stopFile = FALSE /\ target = FALSE /\ shutdown = FALSE
    /\ limiter = NewLimiter
    /\ queued = 0 /\ packet = 0 /\ round = 0
    /\ undecided = <<>> /\ batch = "canaries" /\ work = <<>> /\ executable = <<>>
    /\ surprises = 0
    /\ sublane = [invocations |-> 0, calls |-> 0, probes |-> 0]
    /\ failing = FALSE
    /\ pending = 0 /\ sent = 0 /\ counted = 0 /\ lost = 0 /\ late = 0

-----------------------------------------------------------------------------
(* The target.                                                             *)

\* No --live-target, or one without a base URL; the event that says so may fail.
Skip ==
    /\ pc = "idle"
    /\ pc' \in Ended
    /\ UNCHANGED <<world, limiter, plan, probing, sublane, failing, account>>

\* prepareLocalTargetSession: the identities are issued, a docker target is reset,
\* and the startup command runs, if the profile names one; or one of the first two
\* fails.
Prepare ==
    /\ pc = "idle"
    /\ \/ pc' = "start" /\ target' = ("localStartup" \in commands)
       \/ pc' \in Ended /\ UNCHANGED target
    /\ UNCHANGED <<stopFile, commands, shutdown, limiter, plan, probing, sublane, failing, account>>

\* The target is ready, and events say that it runs.
Ready ==
    /\ pc = "start"
    /\ pc' = "prepared"
    /\ UNCHANGED <<world, limiter, plan, probing, sublane, failing, account>>

\* The target is not ready in time, or an event cannot be written: the lane returns,
\* or throws when it cannot write that either.  Nobody stops the target.
StartFails ==
    /\ pc = "start"
    /\ pc' \in Ended
    /\ UNCHANGED <<world, limiter, plan, probing, sublane, failing, account>>

\* stop() of the session: the shutdown command, which may fail, and may leave the
\* target running.  A profile need not name one, whether it names a startup command
\* or not; then stop() does nothing.
RunShutdown ==
    IF "localShutdown" \in commands
    THEN shutdown' = TRUE /\ target' \in {target, FALSE}
    ELSE UNCHANGED <<target, shutdown>>

\* The lane is required and incomplete: an event, then stop().  Either may fail.
GiveUp ==
    /\ pc = "prepared"
    /\ \/ RunShutdown /\ pc' \in Ended
       \/ UNCHANGED <<target, shutdown>> /\ pc' = "threw"
    /\ UNCHANGED <<stopFile, commands, limiter, plan, probing, sublane, failing, account>>

\* The events and the artifact before the try: one fails.
SetupFails ==
    /\ pc = "prepared"
    /\ pc' = "threw"
    /\ UNCHANGED <<world, limiter, plan, probing, sublane, failing, account>>

\* executeLiveProbeBatch is called for these probes.
Send(probes, as) == work' = probes /\ batch' = as /\ pc' = "probe"

\* The try begins: buildVerificationPackets, then the canaries.  The runtime probes
\* that follow name no command, which the policy requires, and no browser launcher
\* is ever configured: neither reaches the target.
Enter ==
    /\ pc = "prepared"
    /\ queued' \in 0..PacketLimit
    /\ Send(Canaries, "canaries")
    /\ UNCHANGED <<world, limiter, packet, round, undecided, executable, surprises,
                   sublane, failing, account>>

-----------------------------------------------------------------------------
(* Policy.                                                                 *)

Target == [environment |-> Environment]
Allowed(probe) == authorizeProbe(stopFile, Target, HttpProbe(probe))

\* The probes of a round, or of a surprise, are authorised before one is sent.
\* A blocked one is an event.
\* Bug: a probe like one of an earlier packet is taken to be authorised.
DecideOnce ==
    /\ pc = "decide" /\ undecided # <<>>
    /\ undecided' = Tail(undecided)
    /\ work' = IF packet > 1 \/ Allowed(Head(undecided))
               THEN Append(work, Head(undecided)) ELSE work
    /\ UNCHANGED <<pc, world, limiter, plan, batch, executable, surprises, sublane,
                   failing, account>>
Decide ==
    /\ pc = "decide" /\ undecided # <<>>
    /\ undecided' = Tail(undecided)
    /\ work' = IF Allowed(Head(undecided)) THEN Append(work, Head(undecided)) ELSE work
    /\ UNCHANGED <<pc, world, limiter, plan, batch, executable, surprises, sublane,
                   failing, account>>

Decided ==
    /\ pc = "decide" /\ undecided = <<>>
    /\ executable' = IF batch = "round" THEN work ELSE executable
    /\ pc' = "probe"
    /\ UNCHANGED <<world, limiter, plan, undecided, batch, work, surprises, sublane,
                   failing, account>>

-----------------------------------------------------------------------------
(* executeLiveProbe.                                                       *)

IsMutation(probe) == probe.method \in {"POST", "PUT", "PATCH", "DELETE"}

\* A batch, a sequence and a differential end when the limiter is stopped.
AtProbe == pc = "probe" /\ work # <<>> /\ ~limiter.stopped

\* Only the canaries bring the policy along.
Gated(probe) == batch = "canaries" /\ ~Allowed(probe)

\* The verdicts that end a sequence.
AfterFailure == work' = IF batch = "sequence" THEN <<>> ELSE Tail(work)

\* The policy blocks the probe, a parameter cannot be filled in, its identity is
\* missing, or it is a mutation nobody opted in to: a result without a request.
Withhold ==
    /\ AtProbe
    /\ work' = Tail(work) \/ AfterFailure
    /\ UNCHANGED <<pc, world, limiter, plan, undecided, batch, executable, surprises,
                   sublane, failing, account>>

Sendable(probe) == ~Gated(probe) /\ (IsMutation(probe) => MutationsAllowed)

\* RateLimiter.acquire refuses, or waits for a slot.
Refuse ==
    /\ AtProbe /\ Sendable(Head(work)) /\ Refuses(limiter)
    /\ limiter' = Refused(limiter)
    /\ AfterFailure
    /\ UNCHANGED <<pc, world, plan, undecided, batch, executable, surprises, sublane,
                   failing, account>>

acquire ==
    /\ AtProbe /\ Sendable(Head(work)) /\ ~Refuses(limiter)
    /\ pc' = "waiting"
    /\ UNCHANGED <<world, limiter, plan, probing, sublane, failing, account>>

\* The wait is over; fetch, which is what `sent` counts.  A redirect is followed
\* within it (the call names no `redirect`), and the target then takes more requests
\* than one.
Fetch ==
    /\ pc = "waiting"
    /\ limiter' = Acquired(limiter)
    /\ sent' = sent + 1
    /\ late' = IF stopFile THEN late + 1 ELSE late
    /\ pc' = "inflight"
    /\ UNCHANGED <<world, plan, probing, sublane, failing, pending, counted, lost>>

\* The result joins those of the batch.
Result == pending' = pending + 1 /\ pc' = "probe"

Respond ==
    /\ pc = "inflight"
    /\ \E serverError \in BOOLEAN : limiter' \in Recorded(limiter, serverError)
    /\ Result
    /\ work' = Tail(work)
    /\ UNCHANGED <<world, plan, undecided, batch, executable, surprises, sublane,
                   failing, sent, counted, lost, late>>

\* runtime_error: the limiter does not hear of it.
TimeOut ==
    /\ pc = "inflight"
    /\ Result
    /\ AfterFailure
    /\ UNCHANGED <<world, limiter, plan, undecided, batch, executable, surprises,
                   sublane, failing, sent, counted, lost, late>>

-----------------------------------------------------------------------------
(* What throws.                                                            *)

\* The sub-lane catches what is thrown in it, and reports no probes.
InSublane == pc = "call" \/ (batch = "mythos" /\ pc \in Sending)

Throw ==
    IF InSublane
    THEN lost' = lost + pending /\ pending' = 0 /\ pc' = "return" /\ UNCHANGED failing
    ELSE failing' = TRUE /\ pc' = "stopping" /\ UNCHANGED <<lost, pending>>

\* The path of a probe leads away from the target (resolveRequestUrl): its slot is
\* taken.
BadUrl ==
    /\ pc = "waiting"
    /\ limiter' = Acquired(limiter)
    /\ Throw
    /\ UNCHANGED <<world, plan, probing, sublane, sent, counted, late>>

\* An event cannot be written, or a model's answer cannot be stored.
Fail ==
    /\ pc \in Guarded \ {"packets", "record", "waiting", "inflight"}
    /\ Throw
    /\ UNCHANGED <<world, limiter, plan, probing, sublane, sent, counted, late>>

-----------------------------------------------------------------------------
(* Rounds.                                                                 *)

\* Packets are taken in order; more may join the queue while it is worked off.
NextPacket ==
    /\ pc = "packets"
    /\ IF packet < queued /\ packet < PacketLimit
       THEN packet' = packet + 1 /\ round' = 1 /\ pc' = "translate"
       ELSE pc' = "invoke" /\ UNCHANGED <<packet, round>>
    /\ UNCHANGED <<world, limiter, queued, probing, sublane, failing, account>>

\* buildTranslatedLocalProbes and deduplicateLiveProbes: no probe ends the packet.
Translate ==
    /\ pc = "translate"
    /\ \E probes \in Translations :
        /\ undecided' = probes /\ work' = <<>> /\ batch' = "round"
        /\ pc' = IF probes = <<>> THEN "packets" ELSE "decide"
    /\ UNCHANGED <<world, limiter, plan, executable, surprises, sublane, failing, account>>

\* A batch is over; what is left of it is not sent.
BatchEnds ==
    /\ pc = "probe" /\ (work = <<>> \/ limiter.stopped)
    /\ pc' = CASE batch = "canaries" -> "record"
               [] batch = "round"    -> "chain"
               [] batch = "sequence" -> "compare"
               [] batch \in {"differential", "followups"} -> "surprise"
               [] batch = "mythos"   -> "call"
    /\ surprises' = IF batch = "round" THEN Len(executable) - Len(work) ELSE surprises
    /\ work' = <<>>
    /\ UNCHANGED <<world, limiter, plan, undecided, batch, executable, sublane,
                   failing, account>>

\* executeProbeSequence for a hypothesis of two signals or more: the probes of the
\* round once more, on the same authorisation.
Chain ==
    /\ pc = "chain"
    /\ \/ Len(executable) >= 2 /\ ~limiter.stopped /\ Send(executable, "sequence")
       \/ pc' = "compare" /\ UNCHANGED <<work, batch>>
    /\ UNCHANGED <<world, limiter, plan, undecided, executable, surprises, sublane,
                   failing, account>>

\* executeIdentityDifferentialProbe for a hypothesis with a privilege delta: its
\* first probe for each identity, on the same authorisation.
Compare ==
    /\ pc = "compare"
    /\ \/ /\ executable # <<>> /\ Identities >= 2 /\ ~limiter.stopped
          /\ Send([i \in 1..Identities |-> executable[1]], "differential")
       \/ pc' = "surprise" /\ UNCHANGED <<work, batch>>
    /\ UNCHANGED <<world, limiter, plan, undecided, executable, surprises, sublane,
                   failing, account>>

Unsurprised ==
    /\ pc = "surprise" /\ surprises > 0
    /\ surprises' = surprises - 1
    /\ UNCHANGED <<pc, world, limiter, plan, undecided, batch, work, executable,
                   sublane, failing, account>>

\* generateFollowupProbes, cut to what the limiter has left.
FollowUp ==
    /\ pc = "surprise" /\ surprises > 0 /\ remainingBudget(limiter) > 0
    /\ surprises' = surprises - 1
    /\ \E probes \in Followups :
        undecided' = IF Len(probes) <= remainingBudget(limiter) THEN probes
                     ELSE SubSeq(probes, 1, remainingBudget(limiter))
    /\ work' = <<>> /\ batch' = "followups" /\ pc' = "decide"
    /\ UNCHANGED <<world, limiter, plan, executable, sublane, failing, account>>

Surprised ==
    /\ pc = "surprise" /\ surprises = 0
    /\ pc' = "record"
    /\ UNCHANGED <<world, limiter, plan, probing, sublane, failing, account>>

\* recordResults: each result counts as an attempt and becomes an experiment.
\* Bug: the results of the follow-ups are not those of the round.
RecordInitial ==
    /\ pc = "record"
    /\ counted' = IF batch = "followups" THEN counted ELSE counted + pending
    /\ pending' = 0
    /\ IF batch = "canaries"
       THEN pc' = "packets" /\ UNCHANGED <<queued, round>>
       ELSE /\ queued' \in queued..PacketLimit
            /\ \/ round < Rounds /\ round' = round + 1 /\ pc' = "translate"
               \/ pc' = "packets" /\ UNCHANGED round
    /\ UNCHANGED <<world, limiter, packet, probing, sublane, failing, sent, lost, late>>
\* New hypotheses become packets as far as the limit goes; a new signal or a failed
\* probe leads to another round.
Record ==
    /\ pc = "record"
    /\ counted' = counted + pending
    /\ pending' = 0
    /\ IF batch = "canaries"
       THEN pc' = "packets" /\ UNCHANGED <<queued, round>>
       ELSE /\ queued' \in queued..PacketLimit
            /\ \/ round < Rounds /\ round' = round + 1 /\ pc' = "translate"
               \/ pc' = "packets" /\ UNCHANGED round
    /\ UNCHANGED <<world, limiter, packet, probing, sublane, failing, sent, lost, late>>

\* An experiment, or the event of the round, cannot be written.
RecordFails ==
    /\ pc = "record"
    /\ \E n \in 0..pending : counted' = counted + n /\ pending' = pending - n
    /\ failing' = TRUE /\ pc' = "stopping"
    /\ UNCHANGED <<world, limiter, plan, probing, sublane, sent, lost, late>>

-----------------------------------------------------------------------------
(* The Mythos sub-lane.                                                    *)

\* Bug: an invocation is not counted.
InvokeUncounted ==
    /\ pc = "invoke"
    /\ IF sublane.invocations < Invocations /\ remainingBudget(limiter) > 0
       THEN /\ sublane' = [sublane EXCEPT !.calls = 0, !.probes = 0]
            /\ pc' = "call"
       ELSE pc' = "stopping" /\ UNCHANGED sublane
    /\ UNCHANGED <<world, limiter, plan, probing, failing, account>>
\* A worker is asked, as often as configured and while the limiter has requests left.
Invoke ==
    /\ pc = "invoke"
    /\ IF sublane.invocations < Invocations /\ remainingBudget(limiter) > 0
       THEN /\ sublane' = [invocations |-> sublane.invocations + 1,
                           calls |-> 0, probes |-> 0]
            /\ pc' = "call"
       ELSE pc' = "stopping" /\ UNCHANGED sublane
    /\ UNCHANGED <<world, limiter, plan, probing, failing, account>>

\* submitProbe: authorised on its own, and sent as a batch of one.
Submit ==
    /\ pc = "call" /\ sublane.calls < MaxCalls
    /\ sublane.probes < ProbeBudget /\ remainingBudget(limiter) > 0
    /\ \E probe \in WorkerProbes :
        IF Allowed(probe)
        THEN /\ sublane' = [sublane EXCEPT !.calls = @ + 1, !.probes = @ + 1]
             /\ Send(<<probe>>, "mythos")
        ELSE /\ sublane' = [sublane EXCEPT !.calls = @ + 1]
             /\ UNCHANGED <<pc, work, batch>>
    /\ UNCHANGED <<world, limiter, plan, undecided, executable, surprises, failing, account>>

\* The output ends, or the time or a budget does.
CallsEnd ==
    /\ pc = "call"
    /\ pc' = "return"
    /\ UNCHANGED <<world, limiter, plan, probing, sublane, failing, account>>

Return ==
    /\ pc = "return"
    /\ counted' = counted + pending /\ pending' = 0
    /\ pc' = "invoke"
    /\ UNCHANGED <<world, limiter, plan, probing, sublane, failing, sent, lost, late>>

-----------------------------------------------------------------------------
(* The end.                                                                *)

\* Bug: the target is stopped after the try, not in a finally.
StopUnlessFailing ==
    /\ pc = "stopping"
    /\ IF failing THEN UNCHANGED <<target, shutdown>> ELSE RunShutdown
    /\ pc' = "stopped"
    /\ UNCHANGED <<stopFile, commands, limiter, plan, probing, sublane, failing, account>>
\* The finally; a failure of stop() is ignored.  The mutation journal is empty: no probe is ever entered in it, so
\* nothing is rolled back.
StopTarget ==
    /\ pc = "stopping"
    /\ RunShutdown
    /\ pc' = "stopped"
    /\ UNCHANGED <<stopFile, commands, limiter, plan, probing, sublane, failing, account>>

\* local_target_stopped, then verification_local_live and the summary.
Close ==
    /\ pc = "stopped"
    /\ pc' \in IF failing THEN {"threw"} ELSE Ended
    /\ UNCHANGED <<world, limiter, plan, probing, sublane, failing, account>>

-----------------------------------------------------------------------------
\* The operator.
CreateStopFile ==
    /\ ~stopFile
    /\ stopFile' = TRUE
    /\ UNCHANGED <<pc, commands, target, shutdown, limiter, plan, probing, sublane, failing, account>>

Lane ==
    \/ Skip \/ Prepare \/ Ready \/ StartFails \/ GiveUp \/ SetupFails \/ Enter
    \/ Decide \/ Decided \/ Withhold \/ Refuse \/ acquire \/ Fetch \/ Respond \/ TimeOut
    \/ BadUrl \/ Fail
    \/ NextPacket \/ Translate \/ BatchEnds \/ Chain \/ Compare
    \/ Unsurprised \/ FollowUp \/ Surprised \/ Record \/ RecordFails
    \/ Invoke \/ Submit \/ CallsEnd \/ Return
    \/ StopTarget \/ Close

Next == Lane \/ CreateStopFile

\* Every await of the lane settles: its requests and its model calls time out, and
\* the evidence store answers.
Spec == Init /\ [][Next]_vars /\ WF_vars(Lane)

-----------------------------------------------------------------------------
(* Properties.                                                             *)

\* The variables keep their types.
TypeOK ==
    /\ pc \in Stages
    /\ commands \in SUBSET Commands
    /\ stopFile \in BOOLEAN /\ target \in BOOLEAN /\ shutdown \in BOOLEAN
    /\ limiter \in Limiter
    /\ queued \in 0..PacketLimit /\ packet \in 0..PacketLimit /\ round \in 0..Rounds
    /\ undecided \in Seq(Probes) /\ batch \in Batches /\ work \in Seq(Probes)
    /\ executable \in Seq(Probes) /\ surprises \in 0..MaxProbes
    /\ sublane \in [invocations : 0..Invocations, calls : 0..MaxCalls,
                    probes : 0..ProbeBudget]
    /\ failing \in BOOLEAN
    /\ pending \in Nat /\ sent \in Nat /\ counted \in Nat /\ lost \in Nat /\ late \in Nat

\* The probes of a round rest on one decision of the policy each, however often they
\* are sent; so after the stop file appears at most one round's worth of fetches is
\* begun: its batch, its sequence and its differential.
StopFileEndsTheRound == late <= 2 * MaxProbes + Identities

\* The lane begins no more fetches than its limiter admits, and one that returns has
\* counted every fetch, but for those of a worker whose sub-lane failed.  These are
\* fetches of probes: the redirects they follow, and the polls of waitForReadiness
\* before them, are requests of which the limiter knows nothing.
RequestsAreCounted ==
    /\ sent <= MaxRequestsPerCampaign
    /\ pc = "done" => sent = counted + lost

\* When the lane ends, however it ends, a target that has been sent anything has had
\* its shutdown command run, except one whose profile names none, which is left as
\* it is; and nothing is sent to a target after that command, nor to one that was
\* to be started and was not.
TargetIsShutDown ==
    /\ pc \in Ended /\ sent > 0 => shutdown \/ "localShutdown" \notin commands
    /\ pc \in Sending => ~shutdown /\ ("localStartup" \in commands => target)

\* The lane ends, although its queue grows while it is worked off.
LaneEnds == <>(pc \in Ended)
=============================================================================
