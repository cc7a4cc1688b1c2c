--------------------------- MODULE LocalLiveProofs ---------------------------
(***************************************************************************)
(* Proofs about the local-live lane.  The strengthening says how long the  *)
(* lists of probes can be, how many of the requests after the stop file a  *)
(* stage can have seen, which requests no summary knows of yet, and when   *)
(* the target runs.                                                        *)
(***************************************************************************)
EXTENDS LocalLive, TLAPS

\* The lists of probes are no longer than what they were made from, and a request
\* that waits for its slot gets one.
Lengths ==
    /\ Len(executable) <= MaxProbes
    /\ pc = "decide" => /\ batch \in {"round", "followups"}
                        /\ Len(work) + Len(undecided) <= MaxProbes
    /\ pc \in Sending /\ batch \in {"round", "sequence"} => Len(work) <= Len(executable)
    /\ pc \in {"waiting", "inflight"} => work # <<>>
    /\ pc = "waiting" => limiter.requestCount < MaxRequestsPerCampaign

\* Requests of the batch that are still to be sent.
Left == IF pc = "inflight" THEN Len(work) - 1 ELSE Len(work)

\* How many requests can have been sent after the stop file.
LateBounds ==
    /\ late <= 2 * MaxProbes + Identities
    /\ late > 0 => stopFile
    /\ pc \in {"idle", "start", "prepared"} => late = 0
    /\ pc = "decide" /\ work # <<>> => late = 0
    /\ pc = "chain" /\ executable # <<>> => late <= MaxProbes
    /\ pc = "compare" /\ executable # <<>> => late <= 2 * MaxProbes
    /\ pc \in Sending =>
        /\ batch = "canaries" => late <= 1 /\ (pc = "waiting" => late = 0)
        /\ batch = "round" /\ executable # <<>> => late + Left <= MaxProbes
        /\ batch = "sequence" => late + Left <= 2 * MaxProbes
        /\ batch = "differential" => late + Left <= 2 * MaxProbes + Identities
        /\ batch = "followups" /\ work # <<>> => late + Left <= MaxProbes
        /\ batch = "mythos" /\ work # <<>> => late + Left <= 1

\* Stages at which every result has been counted.
Settled == {"idle", "start", "prepared", "packets", "translate", "invoke",
            "stopping", "stopped", "done"}

\* Every request is known to the limiter, and is counted, lost, or among the results.
Accounts ==
    /\ sent <= limiter.requestCount
    /\ failing => pc \in {"stopping", "stopped", "threw"}
    /\ ~failing => sent = counted + lost + pending + IF pc = "inflight" THEN 1 ELSE 0
    /\ ~failing /\ pc \in Settled => pending = 0

\* When the target runs, and when its shutdown command has been run.
ShutDown == shutdown \/ "localShutdown" \notin commands
TargetRuns ==
    /\ pc \in {"start", "prepared", "stopping"} \cup Guarded =>
         ~shutdown /\ ("localStartup" \in commands => target)
    /\ pc \in {"idle", "start", "prepared"} => sent = 0 /\ ~shutdown
    /\ pc = "stopped" => ShutDown
    /\ pc \in Ended /\ sent > 0 => ShutDown

IInv == TypeOK /\ Lengths /\ LateBounds /\ Accounts /\ TargetRuns
-----------------------------------------------------------------------------
(* Facts about the lists and the policy.                                   *)

\* What is left of a list is a list, one shorter.
LEMMA TailFacts ==
    ASSUME NEW s \in Seq(Probes), s # <<>>
    PROVE  Tail(s) \in Seq(Probes) /\ Len(Tail(s)) = Len(s) - 1 /\ Head(s) \in Probes
           /\ Len(s) \in Nat \ {0}
  OBVIOUS

\* A list that is cut is no longer than it was.
LEMMA Cut ==
    ASSUME NEW s \in Seq(Probes), limiter \in Limiter, remainingBudget(limiter) > 0,
           Len(s) > remainingBudget(limiter)
    PROVE  /\ SubSeq(s, 1, remainingBudget(limiter)) \in Seq(Probes)
           /\ Len(SubSeq(s, 1, remainingBudget(limiter))) \in 0..Len(s)
  BY LimiterConstants DEF remainingBudget, Limiter

\* Where a batch leads when it is over.
LEMMA BatchOver ==
    ASSUME TypeOK, BatchEnds
    PROVE  /\ pc = "probe" /\ pc' \in {"record", "chain", "compare", "surprise", "call"}
           /\ pc' = "chain" => batch = "round"
           /\ pc' = "compare" => batch = "sequence"
<1>1. batch \in Batches
  BY DEF TypeOK
<1>2. CASE batch = "canaries"
  BY <1>2 DEF BatchEnds
<1>3. CASE batch = "round"
  BY <1>3 DEF BatchEnds
<1>4. CASE batch = "sequence"
  BY <1>4 DEF BatchEnds
<1>5. CASE batch \in {"differential", "followups"}
  BY <1>5 DEF BatchEnds
<1>6. CASE batch = "mythos"
  BY <1>6 DEF BatchEnds
<1>7. QED
  BY <1>1, <1>2, <1>3, <1>4, <1>5, <1>6 DEF Batches

\* With a stop file, the policy lets nothing through.
LEMMA Stopped == ASSUME NEW probe, stopFile PROVE ~Allowed(probe)
  BY DEF Allowed, authorizeProbe

\* The limiters that acquire and recordResult leave.
LEMMA AcquiredIsLimiter ==
    ASSUME limiter \in Limiter, limiter.requestCount < MaxRequestsPerCampaign
    PROVE  /\ Acquired(limiter) \in Limiter
           /\ Acquired(limiter).requestCount = limiter.requestCount + 1
  BY LimiterConstants DEF Acquired, Limiter

LEMMA RecordedAreLimiters ==
    ASSUME limiter \in Limiter, NEW serverError \in BOOLEAN, NEW l \in Recorded(limiter, serverError)
    PROVE  l \in Limiter /\ l.requestCount = limiter.requestCount
  BY LimiterConstants DEF Recorded, Limiter

-----------------------------------------------------------------------------
(* One step.                                                               *)

\* The variables keep their types.
LEMMA TypeStep ==
    ASSUME TypeOK, Lengths, [Next]_vars
    PROVE  TypeOK'
<1> USE DEF TypeOK, Lengths, Stages, Guarded, Sending, Ended, Batches,
     world, plan, probing, account
<1>1. CASE Skip
  BY <1>1 DEF Skip
<1>2. CASE Prepare
  <2>1. target' \in BOOLEAN /\ pc' \in Stages
    <3>1. ("localStartup" \in commands) \in BOOLEAN
      OBVIOUS
    <3>2. target' \in {"localStartup" \in commands, target}
      BY <1>2, Zenon DEF Prepare
    <3>3. QED
      BY <1>2, <3>1, <3>2 DEF Prepare
  <2>2. QED
    BY <1>2, <2>1 DEF Prepare
<1>3. CASE Ready
  BY <1>3 DEF Ready
<1>4. CASE StartFails
  BY <1>4 DEF StartFails
<1>5. CASE GiveUp
  BY <1>5 DEF GiveUp, RunShutdown
<1>6. CASE SetupFails
  BY <1>6 DEF SetupFails
<1>7. CASE Enter
  BY <1>7, LocalConstants DEF Enter, Send
<1>8. CASE Decide
  BY <1>8, TailFacts DEF Decide
<1>9. CASE Decided
  BY <1>9 DEF Decided
<1>10. CASE Withhold
  <2>1. work \in Seq(Probes) /\ work # <<>>
    BY <1>10 DEF Withhold, AtProbe
  <2>2. work' \in {<<>>, Tail(work)}
    BY <1>10 DEF Withhold, AfterFailure
  <2>3. <<>> \in Seq(Probes) /\ Tail(work) \in Seq(Probes)
    BY <2>1, TailFacts
  <2>4. work' \in Seq(Probes)
    BY <2>2, <2>3
  <2>5. QED
    BY <1>10, <2>4 DEF Withhold
<1>11. CASE Refuse
  <2>1. work \in Seq(Probes) /\ work # <<>>
    BY <1>11 DEF Refuse, AtProbe
  <2>2. work' \in Seq(Probes)
    BY <1>11, <2>1, TailFacts DEF Refuse, AfterFailure
  <2>3. limiter' \in Limiter
    BY <1>11 DEF Refuse, Refused, Limiter
  <2>4. QED
    BY <1>11, <2>2, <2>3 DEF Refuse
<1>12. CASE acquire
  BY <1>12 DEF acquire, AtProbe
<1>13. CASE Fetch
  BY <1>13, AcquiredIsLimiter DEF Fetch
<1>14. CASE Respond
  BY <1>14, TailFacts, RecordedAreLimiters DEF Respond, Result
<1>15. CASE TimeOut
  BY <1>15, TailFacts DEF TimeOut, Result, AfterFailure
<1>16. CASE BadUrl
  <2>1. limiter' \in Limiter
    BY <1>16, AcquiredIsLimiter DEF BadUrl
  <2>2. CASE InSublane
    <3>1. lost' \in Nat /\ pending' \in Nat /\ pc' = "return" /\ failing' = failing
      BY <1>16, <2>2 DEF BadUrl, Throw
    <3>2. QED
      BY <1>16, <2>1, <3>1 DEF BadUrl
  <2>3. CASE ~InSublane
    <3>1. UNCHANGED <<lost, pending>> /\ pc' = "stopping" /\ failing' = TRUE
      BY <1>16, <2>3 DEF BadUrl, Throw
    <3>2. QED
      BY <1>16, <2>1, <3>1 DEF BadUrl
  <2>4. QED
    BY <2>2, <2>3
<1>17. CASE Fail
  <2>1. limiter' \in Limiter
    BY <1>17, AcquiredIsLimiter DEF Fail
  <2>2. CASE InSublane
    <3>1. lost' \in Nat /\ pending' \in Nat /\ pc' = "return" /\ failing' = failing
      BY <1>17, <2>2 DEF Fail, Throw
    <3>2. QED
      BY <1>17, <2>1, <3>1 DEF Fail
  <2>3. CASE ~InSublane
    <3>1. UNCHANGED <<lost, pending>> /\ pc' = "stopping" /\ failing' = TRUE
      BY <1>17, <2>3 DEF Fail, Throw
    <3>2. QED
      BY <1>17, <2>1, <3>1 DEF Fail
  <2>4. QED
    BY <2>2, <2>3
<1>18. CASE NextPacket
  BY <1>18, LocalConstants DEF NextPacket
<1>19. CASE Translate
  BY <1>19, LocalConstants DEF Translate
<1>20. CASE BatchEnds
  <2>1. pc = "probe" /\ pc' \in {"record", "chain", "compare", "surprise", "call"}
        /\ (pc' = "chain" => batch = "round") /\ (pc' = "compare" => batch = "sequence")
    BY <1>20, BatchOver
  <2>2. surprises' \in 0..MaxProbes
    BY <1>20, LocalConstants DEF BatchEnds
  <2>3. work' \in Seq(Probes)
    BY <1>20 DEF BatchEnds
  <2>4. QED
    BY <1>20, <2>1, <2>2, <2>3 DEF BatchEnds
<1>21. CASE Chain
  BY <1>21 DEF Chain, Send
<1>22. CASE Compare
  BY <1>22, LocalConstants DEF Compare, Send
<1>23. CASE Unsurprised
  <2>1. surprises' \in 0..MaxProbes
    BY <1>23, LocalConstants DEF Unsurprised
  <2>2. QED
    BY <1>23, <2>1 DEF Unsurprised
<1>24. CASE FollowUp
  <2>1. surprises' \in 0..MaxProbes
    BY <1>24, LocalConstants DEF FollowUp
  <2>2. PICK probes \in Followups :
          undecided' = IF Len(probes) <= remainingBudget(limiter) THEN probes
                       ELSE SubSeq(probes, 1, remainingBudget(limiter))
    BY <1>24 DEF FollowUp
  <2>3. probes \in Seq(Probes) /\ Len(probes) <= MaxProbes /\ limiter \in Limiter
        /\ remainingBudget(limiter) > 0 /\ remainingBudget(limiter) \in Int
    BY <1>24, LocalConstants, LimiterConstants DEF FollowUp, remainingBudget, Limiter
  <2>4. undecided' \in Seq(Probes) /\ Len(undecided') <= MaxProbes
    <3>1. CASE Len(probes) <= remainingBudget(limiter)
      BY <2>2, <2>3, <3>1
    <3>2. CASE Len(probes) > remainingBudget(limiter)
      <4>1. undecided' = SubSeq(probes, 1, remainingBudget(limiter))
        BY <2>2, <2>3, <3>2
      <4>2. QED
        BY <2>3, <3>2, <4>1, Cut, LocalConstants
    <3>3. QED
      BY <2>3, <3>1, <3>2
  <2>5. work' \in Seq(Probes) /\ batch' \in Batches /\ pc' \in Stages
    BY <1>24 DEF FollowUp
  <2>6. QED
    BY <1>24, <2>1, <2>4, <2>5 DEF FollowUp
<1>25. CASE Surprised
  BY <1>25 DEF Surprised
<1>26. CASE Record
  <2>1. counted' \in Nat /\ pending' \in Nat
    BY <1>26 DEF Record
  <2>2. queued' \in 0..PacketLimit
    BY <1>26, LocalConstants DEF Record
  <2>3. round' \in 0..Rounds
    BY <1>26, LocalConstants DEF Record
  <2>4. pc' \in Stages
    BY <1>26 DEF Record
  <2>5. QED
    BY <1>26, <2>1, <2>2, <2>3, <2>4 DEF Record
<1>27. CASE RecordFails
  BY <1>27 DEF RecordFails
<1>28. CASE Invoke
  BY <1>28, LocalConstants DEF Invoke
<1>29. CASE Submit
  <2>1. PICK probe \in WorkerProbes :
          IF Allowed(probe)
          THEN /\ sublane' = [sublane EXCEPT !.calls = @ + 1, !.probes = @ + 1]
               /\ Send(<<probe>>, "mythos")
          ELSE /\ sublane' = [sublane EXCEPT !.calls = @ + 1]
               /\ UNCHANGED <<pc, work, batch>>
    BY <1>29 DEF Submit
  <2>2. <<probe>> \in Seq(Probes)
    BY LocalConstants
  <2>3. work' \in Seq(Probes) /\ batch' \in Batches /\ pc' \in Stages
    BY <2>1, <2>2 DEF Send
  <2>4. sublane.calls < MaxCalls /\ sublane.probes < ProbeBudget
    BY <1>29 DEF Submit
  <2>5. sublane' \in [invocations : 0..Invocations, calls : 0..MaxCalls,
                      probes : 0..ProbeBudget]
    <3>1. CASE Allowed(probe)
      <4>1. sublane' = [sublane EXCEPT !.calls = @ + 1, !.probes = @ + 1]
        BY <2>1, <3>1
      <4>2. sublane.calls + 1 \in 0..MaxCalls /\ sublane.probes + 1 \in 0..ProbeBudget
        BY <2>4, LocalConstants
      <4>3. QED
        BY <4>1, <4>2
    <3>2. CASE ~Allowed(probe)
      <4>1. sublane' = [sublane EXCEPT !.calls = @ + 1]
        BY <2>1, <3>2
      <4>2. sublane.calls + 1 \in 0..MaxCalls
        BY <2>4, LocalConstants
      <4>3. QED
        BY <4>1, <4>2
    <3>3. QED
      BY <3>1, <3>2
  <2>6. QED
    BY <1>29, <2>3, <2>5 DEF Submit
<1>30. CASE CallsEnd
  BY <1>30 DEF CallsEnd
<1>31. CASE Return
  BY <1>31 DEF Return
<1>32. CASE StopTarget
  BY <1>32 DEF StopTarget, RunShutdown
<1>33. CASE Close
  BY <1>33 DEF Close
<1>34. CASE CreateStopFile
  BY <1>34 DEF CreateStopFile
<1>35. CASE UNCHANGED vars
  BY <1>35 DEF vars
<1>36. QED
  BY <1>1, <1>2, <1>3, <1>4, <1>5, <1>6, <1>7, <1>8, <1>9, <1>10, <1>11,
     <1>12, <1>13, <1>14, <1>15, <1>16, <1>17, <1>18, <1>19, <1>20, <1>21,
     <1>22, <1>23, <1>24, <1>25, <1>26, <1>27, <1>28, <1>29, <1>30, <1>31,
     <1>32, <1>33, <1>34, <1>35 DEF Next, Lane

\* The lists keep their lengths.
LEMMA LengthsStep ==
    ASSUME TypeOK, Lengths, [Next]_vars
    PROVE  Lengths'
<1> USE DEF TypeOK, Lengths, Guarded, Sending, Ended, world, plan, probing,
     account
<1>1. CASE Skip
  BY <1>1 DEF Skip
<1>2. CASE Prepare
  BY <1>2 DEF Prepare
<1>3. CASE Ready
  BY <1>3 DEF Ready
<1>4. CASE StartFails
  BY <1>4 DEF StartFails
<1>5. CASE GiveUp
  BY <1>5 DEF GiveUp, RunShutdown
<1>6. CASE SetupFails
  BY <1>6 DEF SetupFails
<1>7. CASE Enter
  BY <1>7, LocalConstants DEF Enter, Send
<1>8. CASE Decide
  <2>1. undecided \in Seq(Probes) /\ undecided # <<>>
    BY <1>8 DEF Decide
  <2>2. Len(undecided') = Len(undecided) - 1 /\ Len(undecided) \in Nat
    BY <1>8, <2>1, TailFacts DEF Decide
  <2>3. Len(work') \in {Len(work), Len(work) + 1} /\ Len(work) \in Nat
    BY <1>8, <2>1, TailFacts DEF Decide
  <2>4. pc' = "decide" /\ UNCHANGED executable
    BY <1>8 DEF Decide
  <2>5. QED
    BY <1>8, <2>2, <2>3, <2>4, LocalConstants DEF Decide
<1>9. CASE Decided
  <2>1. undecided = <<>> /\ Len(work) + Len(undecided) <= MaxProbes /\ Len(work) \in Nat
    BY <1>9 DEF Decided
  <2>2. Len(executable') <= MaxProbes
    BY <1>9, <2>1 DEF Decided
  <2>3. pc' = "probe" /\ (batch' = "round" => work' = executable') /\ batch' = batch
    BY <1>9 DEF Decided
  <2>4. batch # "sequence"
    BY <1>9 DEF Decided
  <2>5. QED
    BY <2>2, <2>3, <2>4 
<1>10. CASE Withhold
  BY <1>10, TailFacts DEF Withhold, AfterFailure, AtProbe
<1>11. CASE Refuse
  BY <1>11, TailFacts DEF Refuse, AfterFailure, AtProbe, Refused
<1>12. CASE acquire
  <2>1. limiter.requestCount < MaxRequestsPerCampaign
    BY <1>12, LimiterConstants DEF acquire, Refuses, Limiter
  <2>2. QED
    BY <1>12, <2>1 DEF acquire, AtProbe
<1>13. CASE Fetch
  BY <1>13 DEF Fetch
<1>14. CASE Respond
  BY <1>14, TailFacts, RecordedAreLimiters DEF Respond, Result
<1>15. CASE TimeOut
  BY <1>15, TailFacts DEF TimeOut, Result, AfterFailure
<1>16. CASE BadUrl
  BY <1>16 DEF BadUrl, Throw, InSublane
<1>17. CASE Fail
  BY <1>17 DEF Fail, Throw, InSublane
<1>18. CASE NextPacket
  BY <1>18 DEF NextPacket
<1>19. CASE Translate
  BY <1>19, LocalConstants DEF Translate
<1>20. CASE BatchEnds
  <2>1. pc = "probe" /\ pc' \in {"record", "chain", "compare", "surprise", "call"}
        /\ (pc' = "chain" => batch = "round") /\ (pc' = "compare" => batch = "sequence")
    BY <1>20, BatchOver
  <2>2. UNCHANGED executable
    BY <1>20 DEF BatchEnds
  <2>3. QED
    BY <2>1, <2>2
<1>21. CASE Chain
  BY <1>21 DEF Chain, Send
<1>22. CASE Compare
  BY <1>22, LocalConstants DEF Compare, Send
<1>23. CASE Unsurprised
  BY <1>23 DEF Unsurprised
<1>24. CASE FollowUp
  <2>1. PICK probes \in Followups :
          undecided' = IF Len(probes) <= remainingBudget(limiter) THEN probes
                       ELSE SubSeq(probes, 1, remainingBudget(limiter))
    BY <1>24 DEF FollowUp
  <2>2. probes \in Seq(Probes) /\ Len(probes) <= MaxProbes /\ limiter \in Limiter
        /\ remainingBudget(limiter) > 0 /\ remainingBudget(limiter) \in Int
    BY <1>24, LocalConstants, LimiterConstants DEF FollowUp, remainingBudget, Limiter
  <2>3. undecided' \in Seq(Probes) /\ Len(undecided') <= MaxProbes
    <3>1. CASE Len(probes) <= remainingBudget(limiter)
      BY <2>1, <2>2, <3>1
    <3>2. CASE Len(probes) > remainingBudget(limiter)
      <4>1. undecided' = SubSeq(probes, 1, remainingBudget(limiter))
        BY <2>1, <2>2, <3>2
      <4>2. QED
        BY <2>2, <3>2, <4>1, Cut, LocalConstants
    <3>3. QED
      BY <2>2, <3>1, <3>2
  <2>4. work' = <<>> /\ pc' = "decide" /\ batch' = "followups" /\ UNCHANGED executable
    BY <1>24 DEF FollowUp
  <2>5. QED
    BY <2>3, <2>4
<1>25. CASE Surprised
  BY <1>25 DEF Surprised
<1>26. CASE Record
  BY <1>26 DEF Record
<1>27. CASE RecordFails
  BY <1>27 DEF RecordFails
<1>28. CASE Invoke
  BY <1>28 DEF Invoke
<1>29. CASE Submit
  BY <1>29, LocalConstants DEF Submit, Send
<1>30. CASE CallsEnd
  BY <1>30 DEF CallsEnd
<1>31. CASE Return
  BY <1>31 DEF Return
<1>32. CASE StopTarget
  BY <1>32 DEF StopTarget, RunShutdown
<1>33. CASE Close
  BY <1>33 DEF Close
<1>34. CASE CreateStopFile
  BY <1>34 DEF CreateStopFile
<1>35. CASE UNCHANGED vars
  BY <1>35 DEF vars
<1>36. QED
  BY <1>1, <1>2, <1>3, <1>4, <1>5, <1>6, <1>7, <1>8, <1>9, <1>10, <1>11,
     <1>12, <1>13, <1>14, <1>15, <1>16, <1>17, <1>18, <1>19, <1>20, <1>21,
     <1>22, <1>23, <1>24, <1>25, <1>26, <1>27, <1>28, <1>29, <1>30, <1>31,
     <1>32, <1>33, <1>34, <1>35 DEF Next, Lane

\* Requests after the stop file stay within the bounds of the stage.
LEMMA OneForOne ==
    ASSUME NEW a \in Nat, NEW b \in {a, a + 1}, NEW n \in Nat \ {0}
    PROVE  b \in Nat /\ n - 1 \in Nat /\ b + (n - 1) <= a + n
OBVIOUS

LEMMA LateStep ==
    ASSUME TypeOK, Lengths, LateBounds, [Next]_vars
    PROVE  LateBounds'
<1> USE LocalConstants DEF TypeOK, Lengths, LateBounds, Left, Guarded,
     Sending, Ended, world, plan, probing, account
<1>1. CASE Skip
  BY <1>1 DEF Skip
<1>2. CASE Prepare
  BY <1>2 DEF Prepare
<1>3. CASE Ready
  BY <1>3 DEF Ready
<1>4. CASE StartFails
  BY <1>4 DEF StartFails
<1>5. CASE GiveUp
  BY <1>5 DEF GiveUp, RunShutdown
<1>6. CASE SetupFails
  BY <1>6 DEF SetupFails
<1>7. CASE Enter
  <2>1. late = 0
    BY <1>7 DEF Enter
  <2>2. late' = 0 /\ pc' = "probe" /\ batch' = "canaries"
    BY <1>7, <2>1 DEF Enter, Send
  <2>3. QED
    BY <2>2
<1>8. CASE Decide
  BY <1>8, TailFacts, Stopped DEF Decide
<1>9. CASE Decided
  <2>1. undecided = <<>> /\ Len(work) <= MaxProbes /\ Len(work) \in Nat
    BY <1>9 DEF Decided
  <2>2. work' # <<>> => late' = 0
    BY <1>9 DEF Decided
  <2>3. late' = late /\ stopFile' = stopFile /\ pc' = "probe" /\ work' = work
    BY <1>9 DEF Decided
  <2>4. batch' \in {"round", "followups"}
    BY <1>9 DEF Decided
  <2>5. batch' = "round" => executable' = work'
    BY <1>9 DEF Decided
  <2>6. QED
    BY <2>1, <2>2, <2>3, <2>4, <2>5
<1>10. CASE Withhold
  BY <1>10, TailFacts DEF Withhold, AfterFailure, AtProbe
<1>11. CASE Refuse
  BY <1>11, TailFacts DEF Refuse, AfterFailure, AtProbe
<1>12. CASE acquire
  BY <1>12, Stopped DEF acquire, AtProbe, Sendable, Gated
<1>13. CASE Fetch
  <2>1. work # <<>> /\ Len(work) \in Nat \ {0}
    BY <1>13, TailFacts DEF Fetch
  <2>2. late' \in {late, late + 1} /\ (late' > 0 => stopFile')
    BY <1>13 DEF Fetch
  <2>3. pc = "waiting" /\ pc' = "inflight" /\ UNCHANGED <<work, batch, executable>>
    BY <1>13 DEF Fetch
  <2>4. Left = Len(work) /\ Left' = Len(work) - 1
    BY <2>3
  <2>5. batch = "round" => executable # <<>>
    BY <2>1, <2>3
  <2>6. late' <= 2 * MaxProbes + Identities
    BY <1>13, <2>1, <2>2, <2>3, <2>4, <2>5 DEF Batches
  <2>7. late' + Left' <= late + Left /\ late' \in Nat /\ Left' \in Nat
    <3>1. late \in Nat /\ late' \in {late, late + 1} /\ Len(work) \in Nat \ {0}
      BY <2>1, <2>2
    <3>2. late' \in Nat /\ Len(work) - 1 \in Nat /\ late' + (Len(work) - 1) <= late + Len(work)
      BY ONLY <3>1, OneForOne
    <3> QED
      BY ONLY <2>4, <3>2
  <2>8. batch' = "canaries" => late' <= 1
    BY <2>2, <2>3
  <2>9. batch' \in {"round", "followups"} => late' + Left' <= MaxProbes
    BY <2>1, <2>3, <2>5, <2>7
  <2>10. batch' = "sequence" => late' + Left' <= 2 * MaxProbes
    BY <2>3, <2>7
  <2>11. batch' = "differential" => late' + Left' <= 2 * MaxProbes + Identities
    BY <2>3, <2>7
  <2>12. batch' = "mythos" => late' + Left' <= 1
    BY <2>1, <2>3, <2>7
  <2>13. QED
    BY <2>2, <2>3, <2>6, <2>8, <2>9, <2>10, <2>11, <2>12
<1>14. CASE Respond
  BY <1>14, TailFacts DEF Respond, Result
<1>15. CASE TimeOut
  BY <1>15, TailFacts DEF TimeOut, Result, AfterFailure
<1>16. CASE BadUrl
  BY <1>16 DEF BadUrl, Throw, InSublane
<1>17. CASE Fail
  BY <1>17 DEF Fail, Throw, InSublane
<1>18. CASE NextPacket
  BY <1>18 DEF NextPacket
<1>19. CASE Translate
  BY <1>19 DEF Translate
<1>20. CASE BatchEnds
  <2>1. pc = "probe" /\ pc' \in {"record", "chain", "compare", "surprise", "call"}
        /\ (pc' = "chain" => batch = "round") /\ (pc' = "compare" => batch = "sequence")
    BY <1>20, BatchOver
  <2>2. UNCHANGED <<late, stopFile, executable>> /\ Len(work) \in Nat
    BY <1>20 DEF BatchEnds
  <2>3. QED
    BY <2>1, <2>2
<1>21. CASE Chain
  BY <1>21 DEF Chain, Send
<1>22. CASE Compare
  BY <1>22 DEF Compare, Send
<1>23. CASE Unsurprised
  BY <1>23 DEF Unsurprised
<1>24. CASE FollowUp
  BY <1>24 DEF FollowUp
<1>25. CASE Surprised
  BY <1>25 DEF Surprised
<1>26. CASE Record
  BY <1>26 DEF Record
<1>27. CASE RecordFails
  BY <1>27 DEF RecordFails
<1>28. CASE Invoke
  BY <1>28 DEF Invoke
<1>29. CASE Submit
  <2>1. UNCHANGED <<late, stopFile, executable>>
    BY <1>29 DEF Submit
  <2>2. PICK probe \in WorkerProbes :
          IF Allowed(probe)
          THEN /\ sublane' = [sublane EXCEPT !.calls = @ + 1, !.probes = @ + 1]
               /\ Send(<<probe>>, "mythos")
          ELSE /\ sublane' = [sublane EXCEPT !.calls = @ + 1]
               /\ UNCHANGED <<pc, work, batch>>
    BY <1>29 DEF Submit
  <2>3. CASE Allowed(probe)
    <3>1. late = 0
      BY <2>3, Stopped
    <3>2. pc' = "probe" /\ batch' = "mythos" /\ work' = <<probe>> /\ Len(work') = 1
      BY <2>2, <2>3 DEF Send
    <3>3. QED
      BY <2>1, <3>1, <3>2
  <2>4. CASE ~Allowed(probe)
    BY <1>29, <2>1, <2>2, <2>4 DEF Submit
  <2>5. QED
    BY <2>3, <2>4
<1>30. CASE CallsEnd
  BY <1>30 DEF CallsEnd
<1>31. CASE Return
  BY <1>31 DEF Return
<1>32. CASE StopTarget
  BY <1>32 DEF StopTarget, RunShutdown
<1>33. CASE Close
  BY <1>33 DEF Close
<1>34. CASE CreateStopFile
  BY <1>34 DEF CreateStopFile
<1>35. CASE UNCHANGED vars
  BY <1>35 DEF vars
<1>36. QED
  BY <1>1, <1>2, <1>3, <1>4, <1>5, <1>6, <1>7, <1>8, <1>9, <1>10, <1>11,
     <1>12, <1>13, <1>14, <1>15, <1>16, <1>17, <1>18, <1>19, <1>20, <1>21,
     <1>22, <1>23, <1>24, <1>25, <1>26, <1>27, <1>28, <1>29, <1>30, <1>31,
     <1>32, <1>33, <1>34, <1>35 DEF Next, Lane

\* Every request stays accounted for.
LEMMA AccountsStep ==
    ASSUME TypeOK, Lengths, Accounts, [Next]_vars
    PROVE  Accounts'
<1> USE DEF TypeOK, Lengths, Accounts, Settled, Guarded, Sending, Ended,
     Limiter, world, plan, probing, account
<1>1. CASE Skip
  BY <1>1 DEF Skip
<1>2. CASE Prepare
  BY <1>2 DEF Prepare
<1>3. CASE Ready
  BY <1>3 DEF Ready
<1>4. CASE StartFails
  BY <1>4 DEF StartFails
<1>5. CASE GiveUp
  BY <1>5 DEF GiveUp, RunShutdown
<1>6. CASE SetupFails
  BY <1>6 DEF SetupFails
<1>7. CASE Enter
  BY <1>7 DEF Enter, Send
<1>8. CASE Decide
  BY <1>8 DEF Decide
<1>9. CASE Decided
  BY <1>9 DEF Decided
<1>10. CASE Withhold
  BY <1>10 DEF Withhold, AfterFailure, AtProbe
<1>11. CASE Refuse
  BY <1>11 DEF Refuse, AfterFailure, AtProbe, Refused, Limiter
<1>12. CASE acquire
  BY <1>12 DEF acquire, AtProbe
<1>13. CASE Fetch
  BY <1>13, AcquiredIsLimiter DEF Fetch
<1>14. CASE Respond
  BY <1>14, RecordedAreLimiters DEF Respond, Result
<1>15. CASE TimeOut
  BY <1>15 DEF TimeOut, Result, AfterFailure
<1>16. CASE BadUrl
  <2>1. sent' = sent /\ sent' <= limiter'.requestCount
    BY <1>16, AcquiredIsLimiter DEF BadUrl
  <2>2. CASE InSublane
    <3>1. lost' = lost + pending /\ pending' = 0 /\ pc' = "return" /\ counted' = counted
          /\ failing' = failing /\ pc = "waiting"
      BY <1>16, <2>2 DEF BadUrl, Throw
    <3>2. QED
      BY <2>1, <3>1
  <2>3. CASE ~InSublane
    <3>1. failing' = TRUE /\ pc' = "stopping"
      BY <1>16, <2>3 DEF BadUrl, Throw
    <3>2. QED
      BY <2>1, <3>1
  <2>4. QED
    BY <2>2, <2>3
<1>17. CASE Fail
  <2>1. sent' = sent /\ limiter' = limiter
    BY <1>17 DEF Fail
  <2>2. CASE InSublane
    <3>1. lost' = lost + pending /\ pending' = 0 /\ pc' = "return" /\ counted' = counted
          /\ failing' = failing /\ pc \notin {"stopping", "stopped", "threw", "inflight"}
      BY <1>17, <2>2 DEF Fail, Throw
    <3>2. QED
      BY <2>1, <3>1
  <2>3. CASE ~InSublane
    <3>1. failing' = TRUE /\ pc' = "stopping"
      BY <1>17, <2>3 DEF Fail, Throw
    <3>2. QED
      BY <2>1, <3>1
  <2>4. QED
    BY <2>2, <2>3
<1>18. CASE NextPacket
  BY <1>18 DEF NextPacket
<1>19. CASE Translate
  BY <1>19 DEF Translate
<1>20. CASE BatchEnds
  <2>1. pc = "probe" /\ pc' \in {"record", "chain", "compare", "surprise", "call"}
        /\ (pc' = "chain" => batch = "round") /\ (pc' = "compare" => batch = "sequence")
    BY <1>20, BatchOver
  <2>2. UNCHANGED <<limiter, account, failing>>
    BY <1>20 DEF BatchEnds
  <2>3. QED
    BY <2>1, <2>2
<1>21. CASE Chain
  BY <1>21 DEF Chain, Send
<1>22. CASE Compare
  BY <1>22 DEF Compare, Send
<1>23. CASE Unsurprised
  BY <1>23 DEF Unsurprised
<1>24. CASE FollowUp
  BY <1>24 DEF FollowUp
<1>25. CASE Surprised
  BY <1>25 DEF Surprised
<1>26. CASE Record
  BY <1>26 DEF Record
<1>27. CASE RecordFails
  BY <1>27 DEF RecordFails
<1>28. CASE Invoke
  BY <1>28 DEF Invoke
<1>29. CASE Submit
  BY <1>29 DEF Submit, Send
<1>30. CASE CallsEnd
  BY <1>30 DEF CallsEnd
<1>31. CASE Return
  BY <1>31 DEF Return
<1>32. CASE StopTarget
  BY <1>32 DEF StopTarget, RunShutdown
<1>33. CASE Close
  BY <1>33 DEF Close
<1>34. CASE CreateStopFile
  BY <1>34 DEF CreateStopFile
<1>35. CASE UNCHANGED vars
  BY <1>35 DEF vars
<1>36. QED
  BY <1>1, <1>2, <1>3, <1>4, <1>5, <1>6, <1>7, <1>8, <1>9, <1>10, <1>11,
     <1>12, <1>13, <1>14, <1>15, <1>16, <1>17, <1>18, <1>19, <1>20, <1>21,
     <1>22, <1>23, <1>24, <1>25, <1>26, <1>27, <1>28, <1>29, <1>30, <1>31,
     <1>32, <1>33, <1>34, <1>35 DEF Next, Lane

\* The target runs while it is probed.
LEMMA TargetStep ==
    ASSUME TypeOK, Lengths, Accounts, TargetRuns, [Next]_vars
    PROVE  TargetRuns'
<1> USE DEF TypeOK, TargetRuns, ShutDown, Guarded, Sending, Ended, Accounts, world,
     plan, probing, account
<1>1. CASE Skip
  BY <1>1 DEF Skip
<1>2. CASE Prepare
  <2>1. sent' = sent /\ shutdown' = shutdown /\ commands' = commands /\ pc' \in {"start"} \cup Ended
    BY <1>2 DEF Prepare
  <2>2. pc' = "start" /\ "localStartup" \in commands => target'
    BY <1>2, Zenon DEF Prepare
  <2>3. pc = "idle"
    BY <1>2 DEF Prepare
  <2>4. QED
    BY <2>1, <2>2, <2>3
<1>3. CASE Ready
  BY <1>3 DEF Ready
<1>4. CASE StartFails
  BY <1>4 DEF StartFails
<1>5. CASE GiveUp
  <2>1. sent' = 0 /\ pc' \in Ended
    BY <1>5 DEF GiveUp, RunShutdown
  <2>2. QED
    BY <2>1
<1>6. CASE SetupFails
  BY <1>6 DEF SetupFails
<1>7. CASE Enter
  BY <1>7 DEF Enter, Send
<1>8. CASE Decide
  BY <1>8 DEF Decide
<1>9. CASE Decided
  BY <1>9 DEF Decided
<1>10. CASE Withhold
  BY <1>10 DEF Withhold, AfterFailure, AtProbe
<1>11. CASE Refuse
  BY <1>11 DEF Refuse, AfterFailure, AtProbe
<1>12. CASE acquire
  BY <1>12 DEF acquire, AtProbe
<1>13. CASE Fetch
  BY <1>13 DEF Fetch
<1>14. CASE Respond
  BY <1>14 DEF Respond, Result
<1>15. CASE TimeOut
  BY <1>15 DEF TimeOut, Result, AfterFailure
<1>16. CASE BadUrl
  BY <1>16 DEF BadUrl, Throw, InSublane
<1>17. CASE Fail
  BY <1>17 DEF Fail, Throw, InSublane
<1>18. CASE NextPacket
  BY <1>18 DEF NextPacket
<1>19. CASE Translate
  BY <1>19 DEF Translate
<1>20. CASE BatchEnds
  <2>1. pc = "probe" /\ pc' \in {"record", "chain", "compare", "surprise", "call"}
        /\ (pc' = "chain" => batch = "round") /\ (pc' = "compare" => batch = "sequence")
    BY <1>20, BatchOver
  <2>2. UNCHANGED world
    BY <1>20 DEF BatchEnds
  <2>3. QED
    BY <2>1, <2>2
<1>21. CASE Chain
  BY <1>21 DEF Chain, Send
<1>22. CASE Compare
  BY <1>22 DEF Compare, Send
<1>23. CASE Unsurprised
  BY <1>23 DEF Unsurprised
<1>24. CASE FollowUp
  BY <1>24 DEF FollowUp
<1>25. CASE Surprised
  BY <1>25 DEF Surprised
<1>26. CASE Record
  BY <1>26 DEF Record
<1>27. CASE RecordFails
  BY <1>27 DEF RecordFails
<1>28. CASE Invoke
  BY <1>28 DEF Invoke
<1>29. CASE Submit
  BY <1>29 DEF Submit, Send
<1>30. CASE CallsEnd
  BY <1>30 DEF CallsEnd
<1>31. CASE Return
  BY <1>31 DEF Return
<1>32. CASE StopTarget
  BY <1>32 DEF StopTarget, RunShutdown
<1>33. CASE Close
  BY <1>33 DEF Close
<1>34. CASE CreateStopFile
  BY <1>34 DEF CreateStopFile
<1>35. CASE UNCHANGED vars
  BY <1>35 DEF vars
<1>36. QED
  BY <1>1, <1>2, <1>3, <1>4, <1>5, <1>6, <1>7, <1>8, <1>9, <1>10, <1>11,
     <1>12, <1>13, <1>14, <1>15, <1>16, <1>17, <1>18, <1>19, <1>20, <1>21,
     <1>22, <1>23, <1>24, <1>25, <1>26, <1>27, <1>28, <1>29, <1>30, <1>31,
     <1>32, <1>33, <1>34, <1>35 DEF Next, Lane

-----------------------------------------------------------------------------
(* Theorems.                                                               *)

\* The strengthening is an invariant.
LEMMA Inductive == Spec => []IInv
<1>1. Init => IInv
  <2> SUFFICES ASSUME Init PROVE IInv
    OBVIOUS
  <2> USE LimiterConstants, LocalConstants DEF Init
  <2>1. limiter \in Limiter
    BY DEF NewLimiter, Limiter
  <2>2. TypeOK
    <3>1. pc \in Stages /\ batch \in Batches
      BY DEF Stages, Batches
    <3>2. /\ undecided \in Seq(Probes) /\ work \in Seq(Probes) /\ executable \in Seq(Probes)
          /\ surprises \in 0..MaxProbes
      OBVIOUS
    <3>3. sublane \in [invocations : 0..Invocations, calls : 0..MaxCalls,
                       probes : 0..ProbeBudget]
      OBVIOUS
    <3>4. /\ queued \in 0..PacketLimit /\ packet \in 0..PacketLimit /\ round \in 0..Rounds
          /\ pending \in Nat /\ sent \in Nat /\ counted \in Nat /\ lost \in Nat /\ late \in Nat
      OBVIOUS
    <3>5. QED
      BY <2>1, <3>1, <3>2, <3>3, <3>4 DEF TypeOK
  <2>3. Lengths /\ LateBounds
    BY DEF Lengths, LateBounds, Left, Guarded, Sending
  <2>4. Accounts /\ TargetRuns
    BY DEF Accounts, TargetRuns, Guarded, Sending, Ended, NewLimiter
  <2>5. QED
    BY <2>2, <2>3, <2>4 DEF IInv
<1>2. IInv /\ [Next]_vars => IInv'
  BY TypeStep, LengthsStep, LateStep, AccountsStep, TargetStep DEF IInv
<1>3. QED
  BY <1>1, <1>2, PTL DEF Spec

\* The variables keep their types, whatever the target and the model answer.
THEOREM TypeCorrect == Spec => []TypeOK
  BY Inductive, PTL DEF IInv

\* After the stop file at most one round's worth of requests is sent, however many
\* packets, rounds and workers are still to come.
THEOREM StopFileIsHeeded == Spec => []StopFileEndsTheRound
<1>1. IInv => StopFileEndsTheRound
  BY DEF IInv, LateBounds, StopFileEndsTheRound
<1>2. QED
  BY <1>1, Inductive, PTL

\* The lane sends no more than its limiter admits, and returns only with a summary
\* that counts what it sent.
THEOREM RequestsCounted == Spec => []RequestsAreCounted
<1>1. IInv => RequestsAreCounted
  BY LimiterConstants DEF IInv, TypeOK, Accounts, Settled, RequestsAreCounted, Limiter
<1>2. QED
  BY <1>1, Inductive, PTL

\* However the lane ends, a target it has probed has had its shutdown command run, if
\* its profile names one.
THEOREM TargetShutDown == Spec => []TargetIsShutDown
<1>1. IInv => TargetIsShutDown
  BY DEF IInv, TargetRuns, ShutDown, TargetIsShutDown, Guarded
<1>2. QED
  BY <1>1, Inductive, PTL
=============================================================================
