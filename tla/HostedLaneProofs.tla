--------------------------- MODULE HostedLaneProofs ---------------------------
(***************************************************************************)
(* What the hosted lane keeps, for any number of campaigns, any plans,     *)
(* budgets and limits.                                                     *)
(*                                                                         *)
(* The budget file is read twice for a request, before it and, to be       *)
(* counted up, after its answer.  Between the two the request is under way *)
(* (UnderWay).  While no update was lost the file agrees with the answers  *)
(* of the day (FileAgrees), and each request under way had its place in    *)
(* the budget when it was let through (RoomKept).                          *)
(***************************************************************************)
EXTENDS HostedLane, FiniteSetTheorems, TLAPS

UnderWay == {c \in Campaign : pc[c] \in {"waiting", "fetch", "inflight"}}

FileAgrees ==
    ~disturbed =>
        /\ \A c, d \in Campaign : pc[c] \in Updating /\ pc[d] \in Updating => c = d
        /\ (\A c \in Campaign : pc[c] \notin Updating)
              => budget.parses /\ budget.count = responses
        /\ \A c \in Campaign : pc[c] \in Updating => seen[c] + 1 = responses
        /\ \A c \in Campaign : pc[c] = "truncate" => budget.parses /\ budget.count + 1 = responses
        /\ \A c \in Campaign : pc[c] = "write" => ~budget.parses

RoomKept ==
    ~disturbed => responses + Cardinality(UnderWay) <= DailyBudget + Cardinality(Campaign) - 1

\* A campaign that a stop file has stopped.
Stopped(c) == c \in stopFiles \/ WorkingDirectory \in stopFiles

LateOnce ==
    \A c \in Campaign :
        /\ late[c] <= 1
        /\ ~Stopped(c) \/ pc[c] \in {"waiting", "fetch"} => late[c] = 0

\* Requests are recorded before they leave, and the outcome of each is recorded
\* before the next.  The file of a process that goes on ends in a part of a line only
\* when an earlier process left it, which this one has not appended to yet (Fresh), or
\* between the two appends of an outcome.
Answering == {"inflight"} \cup Completing \cup Updating
Fresh(c) == life[c] > 1 /\ \A request \in sent[c] : request[1] # life[c]
IsFirst(c, request) ==
    /\ request[1] > 1
    /\ \A other \in sent[c] : other[1] = request[1] => request[2] <= other[2]
AuditedOf(c) ==
    /\ audit[c].partial =>
          /\ audit[c].broken
          /\ pc[c] \notin {"error_audit", "threw", "dead"} => Fresh(c) /\ pc[c] # "fetch"
    /\ pc[c] = "fetch" =>
          \/ <<"request_started", Request(c)>> \in audit[c].lines
          \/ audit[c].broken /\ Fresh(c)
    /\ pc[c] \in Answering => Request(c) \in sent[c]
    /\ \A request \in sent[c] :
          /\ request[1] <= life[c]
          /\ request[1] = life[c] /\ pc[c] \notin Ended => request[2] <= next[c]
          /\ \/ <<"request_started", request>> \in audit[c].lines
             \/ audit[c].broken /\ IsFirst(c, request)
          /\ request[1] = life[c] /\ pc[c] \notin {"threw", "dead"} /\ ~audit[c].broken
                => \/ <<"request_completed", request>> \in audit[c].lines
                   \/ request = Request(c) /\ pc[c] \in Answering
Audited == \A c \in Campaign : AuditedOf(c)

\* A process that waits for its slot has one to take, one that asks has a request, and
\* one that has ended, or has not begun, has no limiter.
Slots ==
    \A c \in Campaign :
        /\ pc[c] = "waiting" => limiter[c].requestCount < MaxRequestsPerCampaign
        /\ pc[c] \in Answering \cup {"waiting", "fetch", "result"} => next[c] <= Len(Plan(c))
        /\ pc[c] \in Ended \cup {"idle"} => limiter[c] = NewLimiter

-----------------------------------------------------------------------------

Step(c) == Gate(c) \/ Probe(c) \/ Crash(c) \/ Relaunch(c)

LEMMA PlanLength == ASSUME NEW c \in Campaign PROVE Len(Plan(c)) \in Nat
<1>1. Ingress \in Seq([method : STRING, hasBody : BOOLEAN])
      /\ Canaries[c] \in Seq([method : STRING, hasBody : BOOLEAN])
  BY HostedConstants
<1> QED
  BY <1>1 DEF Plan

LEMMA LimiterTypes ==
    ASSUME NEW l \in Limiter
    PROVE  /\ Refused(l) \in Limiter
           /\ l.requestCount < MaxRequestsPerCampaign => Acquired(l) \in Limiter
           /\ \A e \in BOOLEAN : \A m \in Recorded(l, e) : m \in Limiter /\ m.requestCount = l.requestCount
<1> USE LimiterConstants DEF Limiter
<1>1. Refused(l) \in Limiter
  BY DEF Refused
<1>2. l.requestCount < MaxRequestsPerCampaign => Acquired(l) \in Limiter
  BY DEF Acquired
<1>3. ASSUME NEW e \in BOOLEAN, NEW m \in Recorded(l, e)
      PROVE  m \in Limiter /\ m.requestCount = l.requestCount
  <2> DEFINE streak == IF e THEN l.fiveXxStreak + 1 ELSE 0
             latencies == IF l.latencies < LatencyHistory THEN l.latencies + 1 ELSE l.latencies
  <2>1. streak \in Nat /\ latencies \in 0..LatencyHistory
    OBVIOUS
  <2>2. PICK slower \in BOOLEAN :
          m = [requestCount |-> l.requestCount, fiveXxStreak |-> streak, latencies |-> latencies,
               stopped |-> l.stopped \/ (e /\ streak >= AutoStopOn5xxStreak) \/ slower]
    BY DEF Recorded
  <2>3. (l.stopped \/ (e /\ streak >= AutoStopOn5xxStreak) \/ slower) \in BOOLEAN
    OBVIOUS
  <2> QED
    BY <2>1, <2>2, <2>3
<1> QED
  BY <1>1, <1>2, <1>3

\* What a process leaves that ends.
LEMMA EndTypes ==
    ASSUME TypeOK, NEW c \in Campaign, NEW how \in Ended, End(c, how)
    PROVE  /\ pc' \in [Campaign -> Stages] /\ pc'[c] = how
           /\ \A d \in Campaign : d # c =>
                 pc'[d] = pc[d] /\ next'[d] = next[d] /\ limiter'[d] = limiter[d] /\ seen'[d] = seen[d]
           /\ next' \in [Campaign -> Nat \ {0}] /\ \A d \in Campaign : next'[d] <= Len(Plan(d)) + 1
           /\ limiter' \in [Campaign -> Limiter]
           /\ incident' \in [Campaign -> BOOLEAN] /\ baseline' \in [Campaign -> BOOLEAN]
           /\ unsafe' \in [Campaign -> BOOLEAN] /\ seen' \in [Campaign -> Nat]
<1>1. NewLimiter \in Limiter
  BY LimiterConstants DEF NewLimiter, Limiter
<1>2. \A d \in Campaign : Len(Plan(d)) \in Nat
  BY PlanLength
<1>3. pc' \in [Campaign -> Stages] /\ pc'[c] = how
      /\ \A d \in Campaign : d # c => pc'[d] = pc[d]
  BY DEF End, Go, TypeOK, Stages
<1>4. /\ next' = [next EXCEPT ![c] = 1] /\ limiter' = [limiter EXCEPT ![c] = NewLimiter]
      /\ incident' = [incident EXCEPT ![c] = FALSE] /\ baseline' = [baseline EXCEPT ![c] = FALSE]
      /\ unsafe' = [unsafe EXCEPT ![c] = FALSE] /\ seen' = [seen EXCEPT ![c] = 0]
  BY DEF End
<1>5. /\ next' \in [Campaign -> Nat \ {0}] /\ limiter' \in [Campaign -> Limiter]
      /\ incident' \in [Campaign -> BOOLEAN] /\ baseline' \in [Campaign -> BOOLEAN]
      /\ unsafe' \in [Campaign -> BOOLEAN] /\ seen' \in [Campaign -> Nat]
  BY <1>1, <1>4 DEF TypeOK
<1>6. \A d \in Campaign : next'[d] <= Len(Plan(d)) + 1
  BY <1>2, <1>4 DEF TypeOK
<1>7. \A d \in Campaign : d # c =>
         next'[d] = next[d] /\ limiter'[d] = limiter[d] /\ seen'[d] = seen[d]
  BY <1>4 DEF TypeOK
<1> QED
  BY <1>3, <1>5, <1>6, <1>7

\* What an append leaves that succeeds or fails.
LEMMA AppendEffects ==
    ASSUME TypeOK, NEW c \in Campaign
    PROVE  /\ Tearing(c) =>
                 /\ audit' \in [Campaign -> AuditFile] /\ \A d \in Campaign : d # c => audit'[d] = audit[d]
                 /\ audit'[c].lines = audit[c].lines
                 /\ audit'[c] = audit[c] \/ (audit'[c].partial /\ audit'[c].broken)
           /\ \A phase \in Phases : Recording(c, phase) =>
                 /\ audit' \in [Campaign -> AuditFile] /\ \A d \in Campaign : d # c => audit'[d] = audit[d]
                 /\ ~audit'[c].partial /\ audit'[c].broken = audit[c].broken
                 /\ audit[c].lines \subseteq audit'[c].lines
                 /\ ~audit[c].partial => <<phase, Request(c)>> \in audit'[c].lines
<1>0. audit \in [Campaign -> AuditFile] /\ audit[c] \in AuditFile
  BY DEF TypeOK
<1>1. ASSUME Tearing(c)
      PROVE  /\ audit' \in [Campaign -> AuditFile] /\ \A d \in Campaign : d # c => audit'[d] = audit[d]
             /\ audit'[c].lines = audit[c].lines
             /\ audit'[c] = audit[c] \/ (audit'[c].partial /\ audit'[c].broken)
  <2>1. CASE UNCHANGED audit
    BY <1>0, <2>1
  <2>2. CASE audit' = [audit EXCEPT ![c] = [@ EXCEPT !.partial = TRUE, !.broken = TRUE]]
    BY <1>0, <2>2 DEF AuditFile
  <2> QED
    BY <1>1, <2>1, <2>2 DEF Tearing
<1>2. ASSUME NEW phase \in Phases, Recording(c, phase)
      PROVE  /\ audit' \in [Campaign -> AuditFile] /\ \A d \in Campaign : d # c => audit'[d] = audit[d]
             /\ ~audit'[c].partial /\ audit'[c].broken = audit[c].broken
             /\ audit[c].lines \subseteq audit'[c].lines
             /\ ~audit[c].partial => <<phase, Request(c)>> \in audit'[c].lines
  <2>1. Request(c) \in Nat \X Nat
    BY DEF Request, TypeOK
  <2> HIDE DEF Request
  <2>2. <<phase, Request(c)>> \in Phases \X (Nat \X Nat)
    BY <2>1
  <2>3. CASE audit[c].partial
    <3>1. audit' = [audit EXCEPT ![c] = [audit[c] EXCEPT !.partial = FALSE]]
      BY <1>2, <2>3 DEF Recording
    <3> QED
      BY <1>0, <2>3, <3>1 DEF AuditFile
  <2>4. CASE ~audit[c].partial
    <3> DEFINE new == [audit[c] EXCEPT !.lines = audit[c].lines \cup {<<phase, Request(c)>>}]
    <3>1. audit' = [audit EXCEPT ![c] = new]
      BY <1>2, <2>4 DEF Recording
    <3>2. new \in AuditFile /\ new.partial = audit[c].partial /\ new.broken = audit[c].broken
          /\ new.lines = audit[c].lines \cup {<<phase, Request(c)>>}
      BY <1>0, <2>2 DEF AuditFile
    <3> HIDE DEF new
    <3> QED
      BY <1>0, <2>4, <3>1, <3>2
  <2> QED
    BY <2>3, <2>4
<1> QED
  BY <1>1, <1>2

\* The steps after a request, and those that end a process, leave the budget alone.
LEMMA QuietSteps ==
    ASSUME TypeOK, NEW c \in Campaign,
           StartAuditFails(c) \/ CompleteAudit(c) \/ CompleteAuditFails(c) \/ Result(c)
             \/ Summary(c) \/ RecordFails(c) \/ Crash(c)
    PROVE  /\ pc'[c] \in {"probe", "summary", "result", "error_audit"} \cup Ended
           /\ \A d \in Campaign : d # c => pc'[d] = pc[d] /\ seen'[d] = seen[d] /\ limiter'[d] = limiter[d]
           /\ pc'[c] \notin Ended => UNCHANGED limiter
           /\ UNCHANGED <<budget, responses, life, sent>>
           /\ ~Crash(c) => pc[c] \notin Updating /\ UNCHANGED disturbed
<1>1. UNCHANGED <<budget, responses, life, sent>>
  BY DEF StartAuditFails, CompleteAudit, CompleteAuditFails, Result, Summary, RecordFails, Crash,
         files, history, process, memory
<1>2. ~Crash(c) => pc[c] \notin Updating /\ UNCHANGED disturbed
  BY DEF StartAuditFails, CompleteAudit, CompleteAuditFails, Result, Summary, RecordFails, PlanEnds,
         Updating, Completing, history, files
<1>3. CASE \E how \in Ended : End(c, how)
  BY <1>1, <1>2, <1>3, EndTypes
<1>4. CASE ~\E how \in Ended : End(c, how)
  <2>1. /\ \E stage \in {"probe", "summary", "result", "error_audit"} : pc' = [pc EXCEPT ![c] = stage]
        /\ UNCHANGED <<seen, limiter>>
    BY <1>4 DEF StartAuditFails, CompleteAudit, CompleteAuditFails, Result, Summary, RecordFails, Crash,
         Ended, Go, memory, process
  <2> QED
    BY <1>1, <1>2, <2>1 DEF TypeOK
<1> QED
  BY <1>3, <1>4

LEMMA SlotsStep == TypeOK /\ Slots /\ [Next]_vars => Slots'
<1> SUFFICES ASSUME TypeOK, Slots, [Next]_vars PROVE Slots'
  OBVIOUS
<1> USE DEF TypeOK, Slots, Ended, Updating, Completing, Answering, Go, End, memory, process, files, history
<1>0. \A d \in Campaign : Len(Plan(d)) \in Nat
  BY PlanLength
<1>1. CASE Stop
  BY <1>1 DEF Stop
<1>2. CASE UNCHANGED vars
  BY <1>2 DEF vars
<1>3. ASSUME NEW c \in Campaign, Step(c) PROVE Slots'
  <2>1. CASE Gate(c)
    BY <2>1 DEF Gate, Decline, Admit, Refuse
  <2>2. CASE Block(c) \/ AutoStop(c) \/ Reject(c)
    BY <2>2 DEF Block, AutoStop, Reject, Preflighted, AtProbe
  <2>3. CASE acquire(c) /\ Refuses(limiter[c])
    BY <2>3 DEF acquire, Preflighted, AtProbe
  <2>4. CASE acquire(c) /\ ~Refuses(limiter[c])
    <3>1. limiter[c].requestCount < MaxRequestsPerCampaign
      BY <2>4, LimiterConstants DEF Refuses, Limiter
    <3> QED
      BY <2>4, <3>1 DEF acquire, Preflighted, AtProbe
  <2>5. CASE StartAudit(c) \/ StartAuditFails(c)
    BY <2>5 DEF StartAudit, StartAuditFails, TakeSlot
  <2>6. CASE Respond(c)
    <3>1. \A d \in Campaign : d # c => limiter'[d] = limiter[d]
      BY <2>6 DEF Respond
    <3>2. pc[c] = "inflight" /\ pc' = [pc EXCEPT ![c] = "truncate"] /\ next' = next
      BY <2>6 DEF Respond
    <3> SUFFICES ASSUME NEW d \in Campaign
                 PROVE  /\ pc'[d] = "waiting" => limiter'[d].requestCount < MaxRequestsPerCampaign
                        /\ pc'[d] \in Answering \cup {"waiting", "fetch", "result"} => next'[d] <= Len(Plan(d))
                        /\ pc'[d] \in Ended \cup {"idle"} => limiter'[d] = NewLimiter
      BY DEF Slots
    <3>6. CASE d = c
      BY <3>2, <3>6, <1>0 DEF Slots
    <3>7. CASE d # c
      BY <3>1, <3>2, <3>7, <1>0 DEF Slots
    <3> QED
      BY ONLY <3>6, <3>7
  <2>7. CASE Fetch(c) \/ TimeOut(c) \/ Truncate(c) \/ CompleteAuditFails(c)
    BY <2>7 DEF Fetch, TimeOut, Truncate, CompleteAuditFails
  <2>8. CASE Write(c) \/ PersistFails(c)
    BY <2>8 DEF Write, PersistFails, Judge
  <2>9. CASE CompleteAudit(c) \/ Crash(c)
    BY <2>9 DEF CompleteAudit, Crash
  <2>10. CASE Result(c)
    <3>1. pc'[c] \in {"probe", "done", "summary"}
      BY <2>10 DEF Result
    <3>2. \A d \in Campaign : d # c => pc'[d] = pc[d] /\ next'[d] = next[d]
      BY <2>10 DEF Result
    <3> QED
      BY <2>10, <3>1, <3>2 DEF Result
  <2>11. CASE Relaunch(c)
    BY <2>11 DEF Relaunch
  <2>12. CASE Summary(c) \/ RecordFails(c)
    BY <2>12 DEF Summary, RecordFails
  <2> QED
    BY <1>3, <2>1, <2>2, <2>3, <2>4, <2>5, <2>6, <2>7, <2>8, <2>9, <2>10, <2>11, <2>12
    DEF Step, Probe
<1> QED
  BY <1>1, <1>2, <1>3 DEF Next, Step

LEMMA TypeStep == TypeOK /\ Slots /\ [Next]_vars => TypeOK'
<1> SUFFICES ASSUME TypeOK, Slots, [Next]_vars PROVE TypeOK'
  OBVIOUS
<1> USE DEF TypeOK, Go, End, memory, process, files, history
<1>0. \A d \in Campaign : Len(Plan(d)) \in Nat
  BY PlanLength
<1>1. CASE Stop
  BY <1>1 DEF Stop
<1>2. CASE UNCHANGED vars
  BY <1>2 DEF vars
<1>3. ASSUME NEW c \in Campaign, Step(c) PROVE TypeOK'
  <2>0. pc' \in [Campaign -> Stages]
    <3>1. CASE Gate(c)
      BY <3>1 DEF Gate, Decline, Admit, Refuse, Stages, Ended
    <3>2. CASE Block(c) \/ AutoStop(c) \/ Reject(c) \/ acquire(c)
      BY <3>2 DEF Block, AutoStop, Reject, acquire, Stages
    <3>3. CASE StartAudit(c) \/ StartAuditFails(c) \/ Fetch(c) \/ Respond(c) \/ TimeOut(c)
      BY <3>3 DEF StartAudit, StartAuditFails, Fetch, Respond, TimeOut, Stages, Ended, Updating, Completing
    <3>4. CASE Truncate(c) \/ Write(c) \/ PersistFails(c) \/ CompleteAudit(c) \/ CompleteAuditFails(c)
      BY <3>4 DEF Truncate, Write, PersistFails, Judge, CompleteAudit, CompleteAuditFails,
                  Stages, Ended, Updating, Completing
    <3>5. CASE Result(c)
      <4>1. PICK stage \in Stages : pc' = [pc EXCEPT ![c] = stage]
        BY <3>5 DEF Result, Stages, Ended
      <4> QED
        BY <4>1
    <3>6. CASE Summary(c) \/ RecordFails(c) \/ Crash(c) \/ Relaunch(c)
      BY <3>6 DEF Summary, RecordFails, Crash, Relaunch, Stages, Ended
    <3> QED
      BY <1>3, <3>1, <3>2, <3>3, <3>4, <3>5, <3>6 DEF Step, Probe
  <2>1. CASE Gate(c)
    BY <2>0, <2>1 DEF Gate, Decline, Admit, Refuse
  <2>2. CASE Block(c) \/ Reject(c) \/ TimeOut(c)
    BY <2>0, <2>2 DEF Block, Reject, Preflighted, TimeOut
  <2>14. CASE Summary(c) \/ RecordFails(c)
    <3>1. PICK how \in Ended : End(c, how)
      BY <2>14 DEF Summary, RecordFails, Ended
    <3>2. UNCHANGED <<life, files, history>>
      BY <2>14 DEF Summary, RecordFails
    <3> HIDE DEF End
    <3> QED
      BY <2>0, <3>1, <3>2, EndTypes
  <2>15. CASE Crash(c)
    <3>1. End(c, "dead") /\ "dead" \in Ended
      BY <2>15 DEF Crash, Ended
    <3>2. audit' \in [Campaign -> AuditFile]
      BY <2>15, AppendEffects DEF Crash
    <3>3. UNCHANGED <<life, stopFiles, budget, sent, responses, late>> /\ disturbed' \in BOOLEAN
      BY <2>15 DEF Crash
    <3> HIDE DEF End
    <3> QED
      BY <2>0, <3>1, <3>2, <3>3, EndTypes
  <2>16. CASE CompleteAuditFails(c)
    <3>1. Tearing(c) /\ UNCHANGED <<life, stopFiles, budget, history>>
      BY <2>16 DEF CompleteAuditFails
    <3>2. audit' \in [Campaign -> AuditFile]
      BY <3>1, AppendEffects
    <3>3. CASE UNCHANGED memory
      BY <2>0, <3>1, <3>2, <3>3
    <3>4. CASE End(c, "threw")
      <4>1. "threw" \in Ended
        BY DEF Ended
      <4> HIDE DEF End
      <4> QED
        BY <2>0, <3>1, <3>2, <3>4, <4>1, EndTypes
    <3> QED
      BY <2>16, <3>3, <3>4 DEF CompleteAuditFails
  <2>3. CASE AutoStop(c)
    BY <2>0, <2>3 DEF AutoStop
  <2>4. CASE acquire(c)
    <3>1. limiter' \in [Campaign -> Limiter]
      <4>1. limiter[c] \in Limiter
        OBVIOUS
      <4>2. Refused(limiter[c]) \in Limiter
        BY <4>1, LimiterTypes
      <4> QED
        BY <2>4, <4>2 DEF acquire
    <3> QED
      BY <2>0, <2>4, <3>1 DEF acquire, Preflighted
  <2>5. CASE StartAudit(c)
    <3>1. limiter' \in [Campaign -> Limiter]
      <4>1. limiter[c].requestCount < MaxRequestsPerCampaign
        BY <2>5 DEF StartAudit, Slots
      <4>2. Acquired(limiter[c]) \in Limiter
        BY <4>1, LimiterTypes
      <4> QED
        BY <2>5, <4>2 DEF StartAudit, TakeSlot
    <3>2. audit' \in [Campaign -> AuditFile]
      BY <2>5, AppendEffects DEF StartAudit, Phases
    <3> QED
      BY <2>0, <2>5, <3>1, <3>2 DEF StartAudit
  <2>13. CASE StartAuditFails(c)
    <3>1. End(c, "threw") /\ "threw" \in Ended /\ UNCHANGED <<life, stopFiles, budget, history>>
      BY <2>13 DEF StartAuditFails, Ended
    <3>2. audit' \in [Campaign -> AuditFile]
      BY <2>13, AppendEffects DEF StartAuditFails
    <3> HIDE DEF End
    <3> QED
      BY <2>0, <3>1, <3>2, EndTypes
  <2>6. CASE Fetch(c)
    <3>1. Request(c) \in Nat \X Nat
      BY DEF Request
    <3>2. sent' \in [Campaign -> SUBSET (Nat \X Nat)] /\ late' \in [Campaign -> Nat]
      BY <2>6, <3>1 DEF Fetch
    <3> QED
      BY <2>0, <2>6, <3>2 DEF Fetch
  <2>7. CASE Respond(c)
    <3>1. PICK serverError \in BOOLEAN, edgeBlock \in BOOLEAN, slow \in BOOLEAN :
            /\ \E l \in Recorded(limiter[c], serverError) : limiter' = [limiter EXCEPT ![c] = l]
            /\ unsafe' = [unsafe EXCEPT ![c] = serverError \/ edgeBlock \/ slow]
      BY <2>7 DEF Respond
    <3>2. limiter' \in [Campaign -> Limiter]
      <4>1. \A l \in Recorded(limiter[c], serverError) : l \in Limiter
        BY LimiterTypes
      <4> QED
        BY <3>1, <4>1
    <3>3. unsafe' \in [Campaign -> BOOLEAN] /\ seen' \in [Campaign -> Nat] /\ responses' \in Nat
      BY <2>7, <3>1 DEF Respond, loadBudget
    <3>4. disturbed' \in BOOLEAN
      BY <2>7 DEF Respond
    <3> QED
      BY <2>0, <2>7, <3>2, <3>3, <3>4 DEF Respond
  <2>8. CASE Truncate(c)
    BY <2>0, <2>8 DEF Truncate
  <2>9. CASE Write(c) \/ PersistFails(c)
    <3>1. /\ incident' \in [Campaign -> BOOLEAN] /\ baseline' \in [Campaign -> BOOLEAN]
          /\ unsafe' \in [Campaign -> BOOLEAN] /\ seen' \in [Campaign -> Nat]
      <4>1. Judge(c)
        BY <2>9 DEF Write, PersistFails
      <4> QED
        BY <4>1 DEF Judge
    <3>2. budget' \in [parses : BOOLEAN, count : Nat] /\ disturbed' \in BOOLEAN
      <4>1. CASE Write(c)
        <5>1. seen[c] + 1 \in Nat
          OBVIOUS
        <5> QED
          BY <4>1, <5>1 DEF Write
      <4>2. CASE PersistFails(c)
        BY <4>2 DEF PersistFails, Judge
      <4> QED
        BY <2>9, <4>1, <4>2
    <3> QED
      BY <2>0, <2>9, <3>1, <3>2 DEF Write, PersistFails, Judge
  <2>10. CASE CompleteAudit(c)
    <3>1. audit' \in [Campaign -> AuditFile]
      BY <2>10, AppendEffects DEF CompleteAudit, Phases
    <3> QED
      BY <2>0, <2>10, <3>1 DEF CompleteAudit
  <2>11. CASE Result(c)
    <3>0. UNCHANGED <<life, files, history>>
      BY <2>11 DEF Result
    <3>1. CASE End(c, "done")
      <4>1. "done" \in Ended
        BY DEF Ended
      <4> HIDE DEF End
      <4> QED
        BY <2>0, <3>0, <3>1, <4>1, EndTypes
    <3>2. CASE ~End(c, "done")
      <4>1. next' = [next EXCEPT ![c] = @ + 1] /\ next[c] <= Len(Plan(c))
            /\ UNCHANGED <<limiter, incident, baseline, unsafe, seen>>
        <5> HIDE DEF End
        <5> QED
          BY <2>11, <3>2 DEF Result, Slots
      <4>2. next' \in [Campaign -> Nat \ {0}] /\ \A d \in Campaign : next'[d] <= Len(Plan(d)) + 1
        BY <1>0, <4>1
      <4>3. \A d \in Campaign : Plan(d)' = Plan(d)
        BY DEF Plan
      <4> QED
        BY <2>0, <3>0, <4>1, <4>2, <4>3
    <3> QED
      BY <3>1, <3>2
  <2>12. CASE Relaunch(c)
    BY <2>0, <2>12 DEF Relaunch
  <2> QED
    BY <1>3, <2>1, <2>2, <2>3, <2>4, <2>5, <2>6, <2>7, <2>8, <2>9, <2>10, <2>11, <2>12,
       <2>13, <2>14, <2>15, <2>16 DEF Step, Probe
<1> QED
  BY <1>1, <1>2, <1>3 DEF Next, Step

-----------------------------------------------------------------------------
(* Stop files.                                                             *)

LEMMA LateStep == TypeOK /\ LateOnce /\ [Next]_vars => LateOnce'
<1> SUFFICES ASSUME TypeOK, LateOnce, [Next]_vars PROVE LateOnce'
  OBVIOUS
<1> USE DEF TypeOK, LateOnce, Stopped, Go, End, memory, process, files, history
<1>1. CASE Stop
  BY <1>1 DEF Stop
<1>2. CASE UNCHANGED vars
  BY <1>2 DEF vars
<1>3. ASSUME NEW c \in Campaign, Step(c) PROVE LateOnce'
  <2>1. CASE acquire(c)
    <3>1. ~Stopped(c)
      BY <2>1 DEF acquire, Preflighted, Allowed, authorizeProbe, preflight
    <3>2. UNCHANGED <<late, stopFiles>> /\ \A d \in Campaign : d # c => pc'[d] = pc[d]
      BY <2>1 DEF acquire, Preflighted
    <3>3. late[c] = 0
      BY <3>1
    <3> QED
      BY <3>1, <3>2, <3>3
  <2>2. CASE Fetch(c)
    <3>1. late[c] = 0
      BY <2>2 DEF Fetch
    <3>2. stopFiles \cap {c, WorkingDirectory} # {} <=> Stopped(c)
      OBVIOUS
    <3>3. /\ pc'[c] = "inflight" /\ late'[c] = IF Stopped(c) THEN 1 ELSE 0
          /\ \A d \in Campaign : d # c => pc'[d] = pc[d] /\ late'[d] = late[d]
          /\ UNCHANGED stopFiles
      <4>1. late'[c] = IF stopFiles \cap {c, WorkingDirectory} # {} THEN late[c] + 1 ELSE late[c]
        BY <2>2 DEF Fetch
      <4> QED
        BY <2>2, <3>1, <3>2, <4>1 DEF Fetch
    <3>4. late'[c] <= 1 /\ (~Stopped(c)' => late'[c] = 0) /\ pc'[c] \notin {"waiting", "fetch"}
      BY <3>3
    <3>5. ASSUME NEW d \in Campaign, d # c
          PROVE  late'[d] <= 1 /\ (~Stopped(d)' \/ pc'[d] \in {"waiting", "fetch"} => late'[d] = 0)
      BY <3>3, <3>5
    <3> QED
      BY <3>4, <3>5
  <2>3. CASE Gate(c) \/ Block(c) \/ AutoStop(c) \/ Reject(c)
    BY <2>3 DEF Gate, Decline, Admit, Refuse, Block, AutoStop, Reject, Preflighted
  <2>4. CASE StartAudit(c) \/ StartAuditFails(c) \/ Respond(c) \/ TimeOut(c) \/ Truncate(c)
    BY <2>4 DEF StartAudit, StartAuditFails, Respond, TimeOut, Truncate
  <2>5. CASE Write(c) \/ PersistFails(c) \/ CompleteAudit(c) \/ CompleteAuditFails(c)
    BY <2>5 DEF Write, PersistFails, Judge, CompleteAudit, CompleteAuditFails
  <2>6. CASE Result(c)
    <3>1. pc'[c] \in {"probe", "done", "summary"} /\ \A d \in Campaign : d # c => pc'[d] = pc[d]
      BY <2>6 DEF Result
    <3> QED
      BY <2>6, <3>1 DEF Result
  <2>7. CASE Summary(c) \/ RecordFails(c) \/ Crash(c) \/ Relaunch(c)
    BY <2>7 DEF Summary, RecordFails, Crash, Relaunch
  <2> QED
    BY <1>3, <2>1, <2>2, <2>3, <2>4, <2>5, <2>6, <2>7 DEF Step, Probe
<1> QED
  BY <1>1, <1>2, <1>3 DEF Next, Step

-----------------------------------------------------------------------------
(* The audit file.                                                         *)

LEMMA OthersAudited ==
    ASSUME NEW d \in Campaign, AuditedOf(d), pc'[d] = pc[d], next'[d] = next[d],
           life'[d] = life[d], audit'[d] = audit[d], sent'[d] = sent[d]
    PROVE  AuditedOf(d)'
<1>1. Request(d)' = Request(d) /\ (Fresh(d)' <=> Fresh(d))
      /\ \A request \in sent[d] : IsFirst(d, request)' <=> IsFirst(d, request)
  BY DEF Request, Fresh, IsFirst
<1> QED
  BY <1>1 DEF AuditedOf

\* A step that appends nothing and sends nothing, of a process that has no request
\* under way before it or after it.
LEMMA QuietAudited ==
    ASSUME TypeOK, NEW c \in Campaign, AuditedOf(c),
           pc[c] \notin Answering \cup {"fetch", "threw", "dead"},
           pc'[c] \notin Answering \cup {"fetch"},
           pc'[c] \notin Ended => next'[c] \in Nat /\ next'[c] >= next[c] /\ pc[c] \notin Ended,
           life'[c] = life[c], audit'[c] = audit[c], sent'[c] = sent[c]
    PROVE  AuditedOf(c)'
<1>1. (Fresh(c)' <=> Fresh(c)) /\ \A request \in sent[c] : IsFirst(c, request)' <=> IsFirst(c, request)
  BY DEF Fresh, IsFirst
<1>2. /\ audit[c].partial => audit[c].broken /\ Fresh(c)
      /\ \A request \in sent[c] :
            /\ request[1] <= life[c]
            /\ <<"request_started", request>> \in audit[c].lines \/ (audit[c].broken /\ IsFirst(c, request))
            /\ request[1] = life[c] /\ ~audit[c].broken => <<"request_completed", request>> \in audit[c].lines
  BY DEF AuditedOf, Answering, Completing
<1>3. ASSUME NEW request \in sent[c], request[1] = life[c], pc'[c] \notin Ended
      PROVE  request[2] <= next'[c]
  <2>1. sent[c] \subseteq Nat \X Nat
    BY DEF TypeOK
  <2>2. request[2] \in Nat /\ next[c] \in Nat
    BY <2>1 DEF TypeOK
  <2>3. request[2] <= next[c]
    BY <1>3 DEF AuditedOf
  <2> QED
    BY <1>3, <2>2, <2>3
<1> QED
  BY <1>1, <1>2, <1>3 DEF AuditedOf

LEMMA AuditStep == TypeOK /\ TypeOK' /\ Audited /\ [Next]_vars => Audited'
<1> SUFFICES ASSUME TypeOK, TypeOK', Audited, [Next]_vars PROVE Audited'
  OBVIOUS
<1> USE DEF Go, memory, process, files, history
<1>1. CASE Stop \/ UNCHANGED vars
  <2>1. UNCHANGED <<pc, next, life, audit, sent>>
    BY <1>1 DEF Stop, vars
  <2> QED
    BY <2>1, OthersAudited DEF Audited
<1>2. ASSUME NEW c \in Campaign, Step(c) PROVE Audited'
  <2>0. AuditedOf(c)
    BY DEF Audited
  <2>00. ASSUME AuditedOf(c)', \A d \in Campaign : d # c =>
                   /\ pc'[d] = pc[d] /\ next'[d] = next[d] /\ life'[d] = life[d]
                   /\ audit'[d] = audit[d] /\ sent'[d] = sent[d]
         PROVE  Audited'
    BY <2>00, OthersAudited DEF Audited
  <2>1. CASE Gate(c) \/ Block(c) \/ AutoStop(c) \/ Reject(c) \/ acquire(c)
    <3>1. pc[c] \in {"idle", "probe"} /\ pc'[c] \notin Answering \cup {"fetch"}
          /\ (\A d \in Campaign : d # c => pc'[d] = pc[d])
          /\ UNCHANGED <<life, next, audit, sent>>
      BY <2>1 DEF Gate, Decline, Admit, Refuse, Block, AutoStop, AtProbe, Reject,
                  Preflighted, acquire, TypeOK, Answering, Completing, Updating
    <3>2. /\ pc[c] \notin Answering \cup {"fetch", "threw", "dead"} /\ pc[c] \notin Ended
          /\ next'[c] \in Nat /\ next'[c] >= next[c]
      BY <3>1 DEF TypeOK, Answering, Completing, Updating, Ended
    <3>3. AuditedOf(c)'
      BY <2>0, <3>1, <3>2, QuietAudited
    <3> QED
      BY <2>00, <3>1, <3>3
  <2>2. CASE StartAudit(c)
    <3>1. /\ pc[c] = "waiting" /\ pc'[c] = "fetch" /\ UNCHANGED <<life, next, sent>>
          /\ \A d \in Campaign : d # c => pc'[d] = pc[d]
          /\ Recording(c, "request_started") /\ "request_started" \in Phases
      BY <2>2 DEF StartAudit, TypeOK, Phases
    <3>2. /\ \A d \in Campaign : d # c => audit'[d] = audit[d]
          /\ ~audit'[c].partial /\ audit'[c].broken = audit[c].broken
          /\ audit[c].lines \subseteq audit'[c].lines
          /\ ~audit[c].partial => <<"request_started", Request(c)>> \in audit'[c].lines
      BY <3>1, AppendEffects
    <3>3. Request(c)' = Request(c) /\ (Fresh(c)' <=> Fresh(c))
          /\ \A request \in sent[c] : IsFirst(c, request)' <=> IsFirst(c, request)
      BY <3>1 DEF Request, Fresh, IsFirst
    <3>4. AuditedOf(c)'
      BY <2>0, <3>1, <3>2, <3>3 DEF AuditedOf, Answering, Completing, Updating, Ended
    <3> QED
      BY <2>00, <3>1, <3>2, <3>4
  <2>3. CASE StartAuditFails(c) \/ Crash(c) \/ (CompleteAuditFails(c) /\ pc[c] = "error_audit")
    <3>1. /\ pc'[c] \in {"threw", "dead"} /\ UNCHANGED <<life, sent>>
          /\ \A d \in Campaign : d # c => pc'[d] = pc[d] /\ next'[d] = next[d]
          /\ Tearing(c) \/ UNCHANGED audit
      <4>1. \E how \in {"threw", "dead"} : End(c, how)
        BY <2>3 DEF StartAuditFails, Crash, CompleteAuditFails
      <4>2. UNCHANGED <<life, sent>> /\ (Tearing(c) \/ UNCHANGED audit)
        BY <2>3 DEF StartAuditFails, Crash, CompleteAuditFails
      <4> QED
        BY <4>1, <4>2, EndTypes DEF Ended
    <3>2. /\ \A d \in Campaign : d # c => audit'[d] = audit[d]
          /\ audit'[c].lines = audit[c].lines
          /\ audit'[c] = audit[c] \/ (audit'[c].partial /\ audit'[c].broken)
      BY <3>1, AppendEffects
    <3>3. \A request \in sent[c] : IsFirst(c, request)' <=> IsFirst(c, request)
      BY <3>1 DEF IsFirst
    <3>4. AuditedOf(c)'
      BY <2>0, <3>1, <3>2, <3>3 DEF AuditedOf, Answering, Completing, Updating, Ended
    <3> QED
      BY <2>00, <3>1, <3>2, <3>4
  <2>4. CASE Fetch(c)
    <3>1. /\ pc[c] = "fetch" /\ pc'[c] = "inflight" /\ UNCHANGED <<life, next, audit>>
          /\ \A d \in Campaign : d # c => pc'[d] = pc[d] /\ sent'[d] = sent[d]
          /\ sent'[c] = sent[c] \cup {Request(c)}
      BY <2>4 DEF Fetch, TypeOK
    <3>2. /\ Request(c)' = Request(c) /\ Request(c)[1] = life[c] /\ Request(c)[2] = next[c]
          /\ life[c] \in Nat /\ next[c] \in Nat
      BY <3>1 DEF Request, TypeOK
    <3>3. ~audit[c].partial
      BY <2>0, <3>1 DEF AuditedOf
    <3>4. ASSUME NEW request \in sent[c], IsFirst(c, request) PROVE IsFirst(c, request)'
      <4>1. request[1] = Request(c)[1] => request[2] <= Request(c)[2]
        BY <2>0, <3>1, <3>2 DEF AuditedOf, Ended
      <4> QED
        BY <3>1, <3>4, <4>1 DEF IsFirst
    <3>5. Fresh(c) => IsFirst(c, Request(c))'
      BY <3>1, <3>2 DEF Fresh, IsFirst
    <3>6. ASSUME NEW request \in sent[c] \cup {Request(c)}
          PROVE  /\ request[1] <= life[c]
                 /\ request[1] = life[c] => request[2] <= next[c]
                 /\ <<"request_started", request>> \in audit[c].lines
                       \/ (audit[c].broken /\ IsFirst(c, request)')
                 /\ request[1] = life[c] /\ ~audit[c].broken =>
                       <<"request_completed", request>> \in audit[c].lines \/ request = Request(c)
      <4>1. CASE request = Request(c)
        BY <2>0, <3>1, <3>2, <3>5, <4>1 DEF AuditedOf
      <4>2. CASE request \in sent[c]
        BY <2>0, <3>1, <3>4, <4>2 DEF AuditedOf, Ended
      <4> QED
        BY <4>1, <4>2
    <3>7. AuditedOf(c)'
      BY <3>1, <3>2, <3>3, <3>6 DEF AuditedOf, Answering
    <3> QED
      BY <2>00, <3>1, <3>7
  <2>5. CASE Respond(c) \/ TimeOut(c) \/ Truncate(c) \/ Write(c) \/ PersistFails(c)
    <3>1. /\ pc[c] \in {"inflight"} \cup Updating /\ pc'[c] \in Answering
          /\ \A d \in Campaign : d # c => pc'[d] = pc[d]
          /\ UNCHANGED <<life, next, audit, sent>>
      BY <2>5 DEF Respond, TimeOut, Truncate, Write, PersistFails, Judge, TypeOK, Answering,
                  Completing, Updating
    <3>2. Request(c)' = Request(c) /\ (Fresh(c)' <=> Fresh(c))
          /\ \A request \in sent[c] : IsFirst(c, request)' <=> IsFirst(c, request)
      BY <3>1 DEF Request, Fresh, IsFirst
    <3>3. ~audit[c].partial
      <4>1. ~Fresh(c)
        BY <2>0, <3>1 DEF AuditedOf, Fresh, Answering, Request
      <4> QED
        BY <2>0, <3>1, <4>1 DEF AuditedOf, Updating
    <3>4. AuditedOf(c)'
      BY <2>0, <3>1, <3>2, <3>3 DEF AuditedOf, Answering, Completing, Updating, Ended
    <3> QED
      BY <2>00, <3>1, <3>4
  <2>6. CASE CompleteAuditFails(c) /\ pc[c] = "complete_audit"
    <3>1. /\ pc'[c] = "error_audit" /\ UNCHANGED <<life, next, sent>> /\ Tearing(c)
          /\ \A d \in Campaign : d # c => pc'[d] = pc[d]
      BY <2>6 DEF CompleteAuditFails, TypeOK
    <3>2. /\ \A d \in Campaign : d # c => audit'[d] = audit[d]
          /\ audit'[c].lines = audit[c].lines
          /\ audit'[c] = audit[c] \/ (audit'[c].partial /\ audit'[c].broken)
      BY <3>1, AppendEffects
    <3>3. Request(c)' = Request(c) /\ \A request \in sent[c] : IsFirst(c, request)' <=> IsFirst(c, request)
      BY <3>1 DEF Request, IsFirst
    <3>4. AuditedOf(c)'
      BY <2>0, <2>6, <3>1, <3>2, <3>3 DEF AuditedOf, Answering, Completing, Updating, Ended
    <3> QED
      BY <2>00, <3>1, <3>2, <3>4
  <2>7. CASE CompleteAudit(c)
    <3>1. /\ pc[c] \in Completing /\ pc'[c] = "result" /\ UNCHANGED <<life, next, sent>>
          /\ \A d \in Campaign : d # c => pc'[d] = pc[d]
          /\ Recording(c, "request_completed") /\ "request_completed" \in Phases
      BY <2>7 DEF CompleteAudit, TypeOK, Phases
    <3>2. /\ \A d \in Campaign : d # c => audit'[d] = audit[d]
          /\ ~audit'[c].partial /\ audit'[c].broken = audit[c].broken
          /\ audit[c].lines \subseteq audit'[c].lines
          /\ ~audit[c].partial => <<"request_completed", Request(c)>> \in audit'[c].lines
      BY <3>1, AppendEffects
    <3>3. \A request \in sent[c] : IsFirst(c, request)' <=> IsFirst(c, request)
      BY <3>1 DEF IsFirst
    <3>4. ~audit[c].broken => ~audit[c].partial
      BY <2>0 DEF AuditedOf
    <3>5. AuditedOf(c)'
      BY <2>0, <3>1, <3>2, <3>3, <3>4 DEF AuditedOf, Answering, Completing, Updating, Ended
    <3> QED
      BY <2>00, <3>1, <3>2, <3>5
  <2>8. CASE Result(c) \/ Summary(c) \/ RecordFails(c)
    <3>1. /\ pc[c] \in {"result", "summary", "probe"} /\ UNCHANGED <<life, audit, sent>>
          /\ pc'[c] \in {"probe", "summary"} \cup Ended
          /\ pc'[c] \notin Ended => next'[c] \in Nat /\ next'[c] >= next[c]
          /\ \A d \in Campaign : d # c => pc'[d] = pc[d] /\ next'[d] = next[d]
      <4>1. pc[c] \in {"result", "summary", "probe"} /\ UNCHANGED <<life, audit, sent>>
        BY <2>8 DEF Result, Summary, RecordFails, PlanEnds
      <4>2. CASE \E how \in Ended : End(c, how)
        BY <4>1, <4>2, EndTypes
      <4>3. CASE ~\E how \in Ended : End(c, how)
        <5>1. /\ next' = [next EXCEPT ![c] = @ + 1]
              /\ pc' = [pc EXCEPT ![c] = IF incident[c] THEN "summary" ELSE "probe"]
          BY <2>8, <4>3 DEF Result, Summary, RecordFails, Ended
        <5> QED
          BY <4>1, <5>1 DEF TypeOK
      <4> QED
        BY <4>2, <4>3
    <3>2. AuditedOf(c)'
      BY <2>0, <3>1, QuietAudited DEF Answering, Completing, Updating, Ended
    <3> QED
      BY <2>00, <3>1, <3>2
  <2>9. CASE Relaunch(c)
    <3>1. /\ life'[c] = life[c] + 1 /\ pc'[c] = "idle" /\ UNCHANGED <<next, audit, sent>>
          /\ life[c] \in Nat \ {0}
          /\ \A d \in Campaign : d # c => pc'[d] = pc[d] /\ life'[d] = life[d]
      BY <2>9 DEF Relaunch, TypeOK
    <3>2. ASSUME NEW request \in sent[c] PROVE request[1] <= life'[c] /\ request[1] # life'[c]
      <4>1. sent[c] \subseteq Nat \X Nat
        BY DEF TypeOK
      <4>2. request[1] \in Nat /\ request[1] <= life[c]
        BY <2>0, <4>1 DEF AuditedOf
      <4> QED
        BY <3>1, <4>2
    <3>3. Fresh(c)' /\ \A request \in sent[c] : IsFirst(c, request)' <=> IsFirst(c, request)
      BY <3>1, <3>2 DEF Fresh, IsFirst
    <3>4. AuditedOf(c)'
      BY <2>0, <3>1, <3>2, <3>3 DEF AuditedOf, Answering, Completing, Updating
    <3> QED
      BY <2>00, <3>1, <3>4
  <2> QED
    BY <1>2, <2>1, <2>2, <2>3, <2>4, <2>5, <2>6, <2>7, <2>8, <2>9 DEF Step, Probe, CompleteAuditFails
<1> QED
  BY <1>1, <1>2 DEF Next, Step

-----------------------------------------------------------------------------
(* The budget.                                                             *)

LEMMA UnderWayIsFinite ==
    /\ IsFiniteSet(Campaign) /\ Cardinality(Campaign) \in Nat /\ Cardinality(Campaign) >= 1
    /\ IsFiniteSet(UnderWay) /\ Cardinality(UnderWay) \in Nat
    /\ Cardinality(UnderWay) <= Cardinality(Campaign)
<1>1. IsFiniteSet(Campaign) /\ Campaign # {} /\ UnderWay \subseteq Campaign
  BY HostedConstants DEF UnderWay
<1>2. Cardinality(Campaign) \in Nat /\ Cardinality(Campaign) # 0
  BY <1>1, FS_CardinalityType, FS_EmptySet
<1> QED
  BY <1>1, <1>2, FS_Subset, FS_CardinalityType

LEMMA FileStep == TypeOK /\ FileAgrees /\ [Next]_vars => FileAgrees'
<1> SUFFICES ASSUME TypeOK, FileAgrees, [Next]_vars, ~disturbed' PROVE FileAgrees'
  BY DEF FileAgrees
<1> USE DEF TypeOK, FileAgrees, Updating, Go, End, memory, process, files, history
<1>1. CASE Stop
  BY <1>1 DEF Stop
<1>2. CASE UNCHANGED vars
  BY <1>2 DEF vars
<1>3. ASSUME NEW c \in Campaign, Step(c) PROVE FileAgrees'
  <2>1. ASSUME pc[c] \notin Updating, pc'[c] \notin Updating,
               \A d \in Campaign : d # c => pc'[d] = pc[d],
               UNCHANGED <<budget, responses, disturbed>>, \A d \in Campaign : d # c => seen'[d] = seen[d]
        PROVE  FileAgrees'
    BY <2>1
  <2>2. CASE Gate(c) \/ Block(c) \/ AutoStop(c)
    BY <2>1, <2>2 DEF Gate, Decline, Admit, Refuse, Block, AtProbe, AutoStop
  <2>3. CASE Reject(c) \/ acquire(c)
    <3>1. UNCHANGED disturbed
      BY <2>3 DEF Reject, acquire, Preflighted
    <3> QED
      BY <2>1, <2>3, <3>1 DEF Reject, acquire, Preflighted, AtProbe
  <2>4. CASE StartAudit(c) \/ Fetch(c) \/ TimeOut(c)
    <3>1. /\ pc[c] \notin Updating /\ pc'[c] \notin Updating
          /\ \A d \in Campaign : d # c => pc'[d] = pc[d]
          /\ UNCHANGED <<budget, responses, disturbed, seen>>
      BY <2>4 DEF StartAudit, Fetch, TimeOut
    <3> QED
      BY <2>1, <3>1
  <2>5. CASE StartAuditFails(c) \/ CompleteAudit(c) \/ CompleteAuditFails(c) \/ Result(c) \/ Summary(c)
               \/ RecordFails(c) \/ Crash(c)
    <3>1. Crash(c) => pc[c] \notin Updating /\ UNCHANGED disturbed
      BY DEF Crash
    <3>2. ({"probe", "summary", "result", "error_audit"} \cup Ended) \cap Updating = {}
      BY DEF Ended
    <3> HIDE DEF FileAgrees, Updating
    <3> QED
      BY <2>1, <2>5, <3>1, <3>2, QuietSteps
  <2>7. CASE Respond(c)
    <3>1. /\ \A d \in Campaign \ {c} : pc[d] \notin Updating
          /\ pc[c] = "inflight" /\ ~disturbed
      BY <2>7 DEF Respond
    <3>2. budget.parses /\ budget.count = responses
      BY <3>1
    <3>3. /\ pc' = [pc EXCEPT ![c] = "truncate"] /\ seen' = [seen EXCEPT ![c] = responses]
          /\ responses' = responses + 1 /\ budget' = budget
      BY <2>7, <3>2 DEF Respond, loadBudget
    <3> QED
      BY <3>1, <3>2, <3>3
  <2>8. CASE Truncate(c)
    <3>1. \A d \in Campaign \ {c} : pc[d] \notin Updating
      BY <2>8 DEF Truncate
    <3> QED
      BY <2>8, <3>1 DEF Truncate
  <2>9. CASE Write(c)
    <3>1. /\ \A d \in Campaign \ {c} : pc[d] \notin Updating
          /\ seen[c] + 1 = responses
      BY <2>9 DEF Write
    <3>2. /\ pc'[c] = "complete_audit" /\ \A d \in Campaign : d # c => pc'[d] = pc[d]
          /\ budget' = [parses |-> TRUE, count |-> responses] /\ responses' = responses
      BY <2>9, <3>1 DEF Write, Judge
    <3> QED
      BY <3>1, <3>2
  <2>10. CASE PersistFails(c)
    BY <2>10 DEF PersistFails
  <2>12. CASE Relaunch(c)
    BY <2>1, <2>12 DEF Relaunch
  <2> QED
    BY <1>3, <2>2, <2>3, <2>4, <2>5, <2>7, <2>8, <2>9, <2>10, <2>12 DEF Step, Probe
<1> QED
  BY <1>1, <1>2, <1>3 DEF Next, Step

LEMMA RoomStep == TypeOK /\ FileAgrees /\ RoomKept /\ [Next]_vars => RoomKept'
<1> SUFFICES ASSUME TypeOK, FileAgrees, RoomKept, [Next]_vars, ~disturbed' PROVE RoomKept'
  BY DEF RoomKept
<1> USE DEF TypeOK, RoomKept, Updating, Go, End, memory, process, files, history
<1>0. responses \in Nat /\ DailyBudget \in Nat
  BY HostedConstants
<1>1. ASSUME UNCHANGED <<responses, disturbed>>, UnderWay' \subseteq UnderWay PROVE RoomKept'
  <2>1. Cardinality(UnderWay') <= Cardinality(UnderWay) /\ Cardinality(UnderWay') \in Nat
    BY <1>1, UnderWayIsFinite, FS_Subset, FS_CardinalityType
  <2> QED
    BY <1>0, <1>1, <2>1, UnderWayIsFinite
<1>2. CASE Stop \/ UNCHANGED vars
  BY <1>1, <1>2 DEF Stop, vars, UnderWay
<1>3. ASSUME NEW c \in Campaign, Step(c) PROVE RoomKept'
  <2>1. CASE acquire(c)
    <3>1. ~disturbed /\ budget.parses /\ budget.count < DailyBudget /\ responses' = responses
          /\ pc[c] = "probe" /\ \A d \in Campaign : d # c => pc'[d] = pc[d]
      <4>1. ~disturbed /\ budget.parses /\ ~preflight(c) /\ responses' = responses
            /\ pc[c] = "probe"
        BY <2>1 DEF acquire, Preflighted, AtProbe
      <4>2. budget.count < DailyBudget
        BY <1>0, <4>1 DEF preflight, loadBudget
      <4>3. \A d \in Campaign : d # c => pc'[d] = pc[d]
        BY <2>1 DEF acquire
      <4> QED
        BY <4>1, <4>2, <4>3
    <3>2. IsFiniteSet(UnderWay') /\ UnderWay' \subseteq Campaign
      BY UnderWayIsFinite, FS_Subset DEF UnderWay
    <3>3. CASE \A d \in Campaign : pc[d] \notin Updating
      <4>1. responses < DailyBudget
        BY <3>1, <3>3 DEF FileAgrees
      <4>2. Cardinality(UnderWay') <= Cardinality(Campaign) /\ Cardinality(UnderWay') \in Nat
        BY <3>2, UnderWayIsFinite, FS_Subset, FS_CardinalityType
      <4> QED
        BY <1>0, <3>1, <4>1, <4>2, UnderWayIsFinite
    <3>4. CASE \E d \in Campaign : pc[d] \in Updating
      <4>1. PICK d \in Campaign : pc[d] \in Updating
        BY <3>4
      <4>2. d # c /\ d \notin UnderWay' /\ responses <= DailyBudget
        BY <1>0, <3>1, <4>1 DEF FileAgrees, UnderWay
      <4>3. UnderWay' \subseteq Campaign \ {d}
        BY <3>2, <4>2
      <4>4. IsFiniteSet(Campaign \ {d}) /\ Cardinality(Campaign \ {d}) = Cardinality(Campaign) - 1
        BY UnderWayIsFinite, FS_RemoveElement
      <4>5. Cardinality(UnderWay') <= Cardinality(Campaign) - 1 /\ Cardinality(UnderWay') \in Nat
        BY <3>2, <4>3, <4>4, FS_Subset, FS_CardinalityType
      <4>6. responses + Cardinality(UnderWay') <= DailyBudget + Cardinality(Campaign) - 1
        BY <1>0, <4>2, <4>5, UnderWayIsFinite
      <4> QED
        BY <3>1, <4>6
    <3> QED
      BY <3>3, <3>4
  <2>2. CASE Respond(c)
    <3>1. c \in UnderWay /\ UnderWay' = UnderWay \ {c} /\ responses' = responses + 1 /\ ~disturbed
      BY <2>2 DEF Respond, UnderWay
    <3>2. Cardinality(UnderWay') = Cardinality(UnderWay) - 1
      BY <3>1, UnderWayIsFinite, FS_RemoveElement
    <3> QED
      BY <1>0, <3>1, <3>2, UnderWayIsFinite
  <2>3. CASE Gate(c) \/ Block(c) \/ AutoStop(c)
    BY <1>1, <2>3 DEF Gate, Decline, Admit, Refuse, Block, AutoStop, UnderWay
  <2>4. CASE Reject(c)
    <3>1. UNCHANGED disturbed
      BY <2>4 DEF Reject, Preflighted
    <3> QED
      BY <1>1, <2>4, <3>1 DEF Reject, Preflighted, UnderWay
  <2>5. CASE StartAudit(c) \/ Fetch(c) \/ TimeOut(c) \/ Truncate(c)
    BY <1>1, <2>5 DEF StartAudit, Fetch, TimeOut, Truncate, UnderWay
  <2>6. CASE Write(c) \/ PersistFails(c)
    <3>1. Judge(c) /\ UNCHANGED disturbed
      BY <2>6 DEF Write, PersistFails
    <3> QED
      BY <1>1, <3>1 DEF Judge, UnderWay
  <2>7. CASE StartAuditFails(c) \/ CompleteAudit(c) \/ CompleteAuditFails(c) \/ Result(c) \/ Summary(c)
               \/ RecordFails(c) \/ Crash(c)
    <3>1. UNCHANGED <<responses, disturbed>>
      BY <2>7, QuietSteps DEF Crash
    <3>2. UnderWay' \subseteq UnderWay
      BY <2>7, QuietSteps DEF UnderWay, Ended
    <3> QED
      BY <1>1, <3>1, <3>2
  <2>10. CASE Relaunch(c)
    BY <1>1, <2>10 DEF Relaunch, UnderWay
  <2> QED
    BY <1>3, <2>1, <2>2, <2>3, <2>4, <2>5, <2>6, <2>7, <2>10 DEF Step, Probe
<1> QED
  BY <1>2, <1>3 DEF Next, Step

-----------------------------------------------------------------------------

IInv == TypeOK /\ Slots /\ LateOnce /\ Audited /\ FileAgrees /\ RoomKept

LEMMA InitInvariant == Init => IInv
<1> SUFFICES ASSUME Init PROVE IInv
  OBVIOUS
<1> USE DEF Init
<1>1. TypeOK
  <2>1. NewLimiter \in Limiter
    BY LimiterConstants DEF NewLimiter, Limiter
  <2>2. \A c \in Campaign : Len(Plan(c)) \in Nat
    BY PlanLength
  <2>3. \A c \in Campaign : next[c] <= Len(Plan(c)) + 1
    BY <2>2
  <2>4. pc \in [Campaign -> Stages]
    BY DEF Stages
  <2>5. life \in [Campaign -> Nat \ {0}] /\ next \in [Campaign -> Nat \ {0}]
        /\ seen \in [Campaign -> Nat] /\ late \in [Campaign -> Nat]
    OBVIOUS
  <2>6. /\ incident \in [Campaign -> BOOLEAN] /\ baseline \in [Campaign -> BOOLEAN]
        /\ unsafe \in [Campaign -> BOOLEAN] /\ limiter \in [Campaign -> Limiter]
    BY <2>1
  <2>7. /\ audit \in [Campaign -> AuditFile]
        /\ sent \in [Campaign -> SUBSET (Nat \X Nat)]
    BY DEF AuditFile
  <2>8. budget \in [parses : BOOLEAN, count : Nat] /\ responses \in Nat /\ disturbed \in BOOLEAN
        /\ stopFiles \subseteq Campaign \cup {WorkingDirectory}
    OBVIOUS
  <2> HIDE DEF Init
  <2> QED
    BY <2>3, <2>4, <2>5, <2>6, <2>7, <2>8 DEF TypeOK
<1>2. Slots
  BY DEF Slots, Answering, Updating, Completing
<1>3. LateOnce
  BY DEF LateOnce
<1>4. Audited
  BY DEF Audited, AuditedOf, Answering, Completing, Updating
<1>5. FileAgrees
  BY DEF FileAgrees, Updating
<1>6. RoomKept
  <2>1. UnderWay = {}
    BY DEF UnderWay
  <2>2. Cardinality(UnderWay) = 0
    BY <2>1, FS_EmptySet
  <2> QED
    BY <2>2, UnderWayIsFinite, HostedConstants DEF RoomKept
<1> QED
  BY <1>1, <1>2, <1>3, <1>4, <1>5, <1>6 DEF IInv

LEMMA Invariance == Spec => []IInv
<1>1. IInv /\ [Next]_vars => IInv'
  BY TypeStep, SlotsStep, LateStep, AuditStep, FileStep, RoomStep DEF IInv
<1> QED
  BY <1>1, InitInvariant, PTL DEF Spec

\* Types, for any campaigns, plans and limits (limiter, monitor, budget and audit files).
THEOREM TypeCorrect == Spec => []TypeOK
<1>1. IInv => TypeOK
  BY DEF IInv
<1> QED
  BY <1>1, Invariance, PTL

\* The audit file has whatever was sent, and the outcomes of a lane that has ended
\* (executeHostedProbe's appends before and after the request).
THEOREM AuditCompletes == Spec => []AuditIsComplete
<1>1. IInv => AuditIsComplete
  BY DEF IInv, Audited, AuditedOf, IsFirst, AuditIsComplete, readAll, Answering, Completing, Updating
<1> QED
  BY <1>1, Invariance, PTL

\* Campaigns that share a host keep to its daily budget, but for one answer each
\* other campaign may have had under way, unless an update of the file was lost
\* (AutoStopMonitor.preflight, recordResult, persistBudget).
THEOREM BudgetIsKept == Spec => []BudgetHolds
<1>1. IInv => BudgetHolds
  <2> SUFFICES ASSUME IInv, ~disturbed
               PROVE  responses <= DailyBudget + Cardinality(Campaign) - 1
    BY DEF BudgetHolds
  <2>1. responses + Cardinality(UnderWay) <= DailyBudget + Cardinality(Campaign) - 1
        /\ responses \in Nat
    BY DEF IInv, RoomKept, TypeOK
  <2> QED
    BY <2>1, UnderWayIsFinite, HostedConstants
<1> QED
  BY <1>1, Invariance, PTL

\* A stop file stops a campaign after one request at most, over all its lives
\* (the policy's kill switch and that of the monitor).
THEOREM StopFilesBind == Spec => []StopFileBinds
<1>1. IInv => StopFileBinds
  BY DEF IInv, LateOnce, StopFileBinds
<1> QED
  BY <1>1, Invariance, PTL

-----------------------------------------------------------------------------
(* The limiter of a process.                                               *)

\* What campaign c has sent from its process number l.
SentBy(c, l) == {request \in sent[c] : request[1] = l}
Promised(c) == IF pc[c] = "fetch" THEN 1 ELSE 0

\* A process of a campaign sends no more requests than the configuration admits, whatever
\* is answered, times out or fails.  The limiter is a new one in each process, so that
\* it binds each life of a campaign and not their sum.
LimiterBinds ==
    \A c \in Campaign : \A l \in Nat :
        IsFiniteSet(SentBy(c, l)) /\ Cardinality(SentBy(c, l)) <= MaxRequestsPerCampaign

\* What this process has sent, and what it is about to send, has taken a slot each.
SlotForEach ==
    \A c \in Campaign :
        pc[c] \notin Ended =>
            Cardinality(SentBy(c, life[c])) + Promised(c) <= limiter[c].requestCount

LimitInv == LimiterBinds /\ SlotForEach

LEMMA LimitStep == IInv /\ LimitInv /\ [Next]_vars => LimitInv'
<1> SUFFICES ASSUME IInv, LimitInv, [Next]_vars PROVE LimitInv'
  OBVIOUS
<1>0. TypeOK /\ TypeOK' /\ Slots /\ Audited
  BY TypeStep DEF IInv
<1>1. \A c \in Campaign : \A l \in Nat :
         IsFiniteSet(SentBy(c, l)) /\ Cardinality(SentBy(c, l)) \in Nat
  BY FS_CardinalityType DEF LimitInv, LimiterBinds
<1>2. \A c \in Campaign : life[c] \in Nat /\ limiter[c].requestCount \in Nat
  BY <1>0 DEF TypeOK, Limiter
<1>3. ASSUME sent' = sent,
             \A c \in Campaign :
                 /\ life'[c] = life[c]
                 /\ pc'[c] \notin Ended =>
                       /\ pc[c] \notin Ended
                       /\ Promised(c)' <= Promised(c) + limiter'[c].requestCount - limiter[c].requestCount
      PROVE  LimitInv'
  <2>1. \A c \in Campaign : \A l \in Nat : SentBy(c, l)' = SentBy(c, l)
    BY <1>3 DEF SentBy
  <2>2. LimiterBinds'
    BY <2>1 DEF LimitInv, LimiterBinds
  <2>3. \A c \in Campaign : Promised(c) \in Nat /\ Promised(c)' \in Nat /\ limiter'[c].requestCount \in Nat
    BY <1>0 DEF Promised, TypeOK, Limiter
  <2>4. ASSUME NEW c \in Campaign, pc'[c] \notin Ended
        PROVE  Cardinality(SentBy(c, life[c]))' + Promised(c)' <= limiter'[c].requestCount
    <3>1. Cardinality(SentBy(c, life[c]))' = Cardinality(SentBy(c, life[c]))
      BY <1>2, <1>3, <2>1, <2>4 DEF SentBy
    <3>2. Cardinality(SentBy(c, life[c])) + Promised(c) <= limiter[c].requestCount
      BY <1>3, <2>4 DEF LimitInv, SlotForEach
    <3> QED
      BY <1>1, <1>2, <1>3, <2>3, <2>4, <3>1, <3>2
  <2> QED
    BY <2>2, <2>4 DEF LimitInv, SlotForEach
<1>4. CASE Stop \/ UNCHANGED vars
  <2>1. UNCHANGED <<pc, life, limiter, sent>>
    BY <1>4 DEF Stop, vars, process, memory, history
  <2> QED
    BY <1>2, <1>3, <2>1 DEF Promised
<1>5. ASSUME NEW c \in Campaign, Step(c) PROVE LimitInv'
  <2> USE DEF Go, End, memory, process, files, history
  <2>1. CASE Fetch(c)
    <3>1. /\ pc[c] = "fetch" /\ pc'[c] = "inflight" /\ UNCHANGED <<life, limiter>>
          /\ sent'[c] = sent[c] \cup {Request(c)}
          /\ \A d \in Campaign : d # c => pc'[d] = pc[d] /\ sent'[d] = sent[d]
      BY <1>0, <2>1 DEF Fetch, TypeOK
    <3>2. Request(c)[1] = life[c]
      BY DEF Request
    <3>3. \A l \in Nat : SentBy(c, l)' = IF l = life[c] THEN SentBy(c, l) \cup {Request(c)} ELSE SentBy(c, l)
      BY <3>1, <3>2 DEF SentBy
    <3>4. \A d \in Campaign : d # c => \A l \in Nat : SentBy(d, l)' = SentBy(d, l)
      BY <3>1 DEF SentBy
    <3> DEFINE old == SentBy(c, life[c])
               new == old \cup {Request(c)}
    <3>5. IsFiniteSet(new) /\ Cardinality(new) \in Nat /\ Cardinality(new) <= Cardinality(old) + 1
      <4>1. IsFiniteSet(old) /\ Cardinality(old) \in Nat
        BY <1>1, <1>2
      <4> HIDE DEF old
      <4>2. IsFiniteSet(new) /\ Cardinality(new) \in Nat
        BY <4>1, FS_AddElement, FS_CardinalityType
      <4>3. Cardinality(new) = IF Request(c) \in old THEN Cardinality(old) ELSE Cardinality(old) + 1
        BY <4>1, FS_AddElement
      <4> QED
        BY <4>1, <4>2, <4>3
    <3>6. Cardinality(old) + 1 <= limiter[c].requestCount
      BY <3>1 DEF LimitInv, SlotForEach, Promised, Ended
    <3>7. limiter[c].requestCount <= MaxRequestsPerCampaign
      BY <1>0, LimiterConstants DEF TypeOK, Limiter
    <3>8. Cardinality(new) <= limiter[c].requestCount
      BY <1>1, <1>2, <3>5, <3>6
    <3>9. Cardinality(new) <= MaxRequestsPerCampaign
      BY <1>2, <3>5, <3>7, <3>8, LimiterConstants
    <3> HIDE DEF old, new
    <3>10. LimiterBinds'
      <4> SUFFICES ASSUME NEW d \in Campaign, NEW l \in Nat
                   PROVE  IsFiniteSet(SentBy(d, l))' /\ Cardinality(SentBy(d, l))' <= MaxRequestsPerCampaign
        BY DEF LimiterBinds
      <4>1. CASE d = c /\ l = life[c]
        BY <3>3, <3>5, <3>9, <4>1 DEF new, old
      <4>2. CASE ~(d = c /\ l = life[c])
        BY <3>3, <3>4, <4>2 DEF LimitInv, LimiterBinds
      <4> QED
        BY <4>1, <4>2
    <3>11. SlotForEach'
      <4> SUFFICES ASSUME NEW d \in Campaign
                   PROVE  pc'[d] \notin Ended =>
                            Cardinality(SentBy(d, life[d]))' + Promised(d)' <= limiter'[d].requestCount
        BY DEF SlotForEach
      <4>1. CASE d = c
        <5>1. SentBy(c, life[c])' = new
          BY <1>2, <3>1, <3>3 DEF SentBy, new, old
        <5> QED
          BY <3>1, <3>5, <3>8, <4>1, <5>1 DEF Promised
      <4>2. CASE d # c
        <5>1. SentBy(d, life[d])' = SentBy(d, life[d])
          BY <3>1, <4>2 DEF SentBy
        <5> QED
          BY <3>1, <4>2, <5>1 DEF Promised, LimitInv, SlotForEach
      <4> QED
        BY <4>1, <4>2
    <3> QED
      BY <3>10, <3>11 DEF LimitInv
  <2>2. CASE Relaunch(c)
    <3>0. limiter[c] = NewLimiter
      BY <1>0, <2>2 DEF Relaunch, Slots, Ended
    <3>1. /\ life'[c] = life[c] + 1 /\ limiter'[c] = NewLimiter /\ pc'[c] = "idle" /\ sent' = sent
          /\ \A d \in Campaign : d # c => UNCHANGED <<life[d], limiter[d], pc[d]>>
      BY <1>0, <2>2, <3>0 DEF Relaunch, TypeOK
    <3>2. SentBy(c, life[c])' = {}
      <4>1. \A request \in sent[c] : request[1] <= life[c] /\ request[1] \in Nat
        <5>1. sent[c] \subseteq Nat \X Nat
          BY <1>0 DEF TypeOK
        <5>2. \A request \in sent[c] : request[1] <= life[c]
          BY <1>0 DEF Audited, AuditedOf
        <5> QED
          BY <5>1, <5>2
      <4> QED
        BY <1>2, <3>1, <4>1 DEF SentBy
    <3>3. LimiterBinds'
      BY <3>1 DEF LimitInv, LimiterBinds, SentBy
    <3>4. Cardinality(SentBy(c, life[c]))' + Promised(c)' <= limiter'[c].requestCount
      BY <3>1, <3>2, FS_EmptySet DEF Promised, NewLimiter
    <3>5. ASSUME NEW d \in Campaign, d # c, pc'[d] \notin Ended
          PROVE  Cardinality(SentBy(d, life[d]))' + Promised(d)' <= limiter'[d].requestCount
      <4>1. SentBy(d, life[d])' = SentBy(d, life[d])
        BY <3>1, <3>5 DEF SentBy
      <4> QED
        BY <3>1, <3>5, <4>1 DEF Promised, LimitInv, SlotForEach
    <3> QED
      BY <3>3, <3>4, <3>5 DEF LimitInv, SlotForEach
  <2>3. CASE StartAudit(c)
    <3>1. /\ UNCHANGED <<life, sent>> /\ limiter'[c].requestCount = limiter[c].requestCount + 1
          /\ pc[c] = "waiting"
          /\ \A d \in Campaign : d # c => UNCHANGED <<limiter[d], pc[d]>>
      <4>1. limiter[c] \in Limiter /\ limiter'[c] = Acquired(limiter[c])
        BY <1>0, <2>3 DEF StartAudit, TakeSlot, TypeOK
      <4>2. Acquired(limiter[c]).requestCount = limiter[c].requestCount + 1
        BY <4>1 DEF Acquired, Limiter
      <4>3. /\ UNCHANGED <<life, sent>> /\ pc[c] = "waiting"
            /\ \A d \in Campaign : d # c => UNCHANGED <<limiter[d], pc[d]>>
        BY <1>0, <2>3 DEF StartAudit, TakeSlot, TypeOK
      <4> QED
        BY <4>1, <4>2, <4>3
    <3> QED
      BY <1>2, <1>3, <3>1 DEF Promised, Ended
  <2>4. CASE acquire(c)
    <3>1. /\ UNCHANGED <<life, sent>> /\ limiter'[c].requestCount = limiter[c].requestCount
          /\ pc'[c] # "fetch" /\ pc[c] \notin Ended
          /\ \A d \in Campaign : d # c => UNCHANGED <<limiter[d], pc[d]>>
      BY <1>0, <2>4 DEF acquire, Preflighted, AtProbe, Refused, TypeOK, Limiter, Ended
    <3> QED
      BY <1>2, <1>3, <3>1 DEF Promised
  <2>5. CASE Respond(c)
    <3>1. /\ UNCHANGED <<life, sent>> /\ limiter'[c].requestCount = limiter[c].requestCount
          /\ pc'[c] # "fetch" /\ pc[c] \notin Ended
          /\ \A d \in Campaign : d # c => UNCHANGED <<limiter[d], pc[d]>>
      BY <1>0, <2>5, LimiterTypes DEF Respond, TypeOK, Ended
    <3> QED
      BY <1>2, <1>3, <3>1 DEF Promised
  <2>6. CASE Gate(c) \/ Block(c) \/ AutoStop(c) \/ Reject(c) \/ TimeOut(c) \/ Truncate(c) \/ Write(c)
              \/ PersistFails(c)
    <3>1. /\ UNCHANGED <<life, sent, limiter>> /\ pc'[c] # "fetch" /\ pc[c] \notin Ended
          /\ \A d \in Campaign : d # c => UNCHANGED pc[d]
      BY <1>0, <2>6 DEF Gate, Decline, Admit, Refuse, Block, AutoStop, Reject, Preflighted, AtProbe,
         TimeOut, Truncate, Write, PersistFails, Judge, Updating, Ended, TypeOK
    <3> QED
      BY <1>2, <1>3, <3>1 DEF Promised
  <2>7. CASE StartAuditFails(c) \/ CompleteAudit(c) \/ CompleteAuditFails(c) \/ Result(c) \/ Summary(c)
               \/ RecordFails(c) \/ Crash(c)
    <3>1. /\ UNCHANGED <<life, sent>> /\ pc'[c] # "fetch" /\ (pc'[c] \notin Ended => UNCHANGED limiter)
          /\ \A d \in Campaign : d # c => UNCHANGED <<pc[d], limiter[d]>>
      BY <1>0, <2>7, QuietSteps DEF Ended
    <3>2. pc[c] \notin Ended
      BY <2>7 DEF StartAuditFails, CompleteAudit, CompleteAuditFails, Result, Summary, RecordFails,
         PlanEnds, Crash, Completing, Ended
    <3> QED
      BY <1>2, <1>3, <3>1, <3>2 DEF Promised
  <2> QED
    BY <1>5, <2>1, <2>2, <2>3, <2>4, <2>5, <2>6, <2>7 DEF Step, Probe
<1> QED
  BY <1>4, <1>5 DEF Next, Step

\* Each process of a campaign keeps within its limiter, over time outs, failing appends
\* and auto-stops (RateLimiter.acquire): a slot is taken before the request is recorded and sent.
THEOREM LimiterIsKept == Spec => []LimiterBinds
<1>1. Init => LimitInv
  <2> SUFFICES ASSUME Init PROVE LimitInv
    OBVIOUS
  <2>1. \A c \in Campaign : \A l : SentBy(c, l) = {}
    BY DEF Init, SentBy
  <2>2. LimiterBinds
    BY <2>1, FS_EmptySet, LimiterConstants DEF LimiterBinds
  <2>3. SlotForEach
    <3>1. \A c \in Campaign : limiter[c].requestCount = 0 /\ Promised(c) = 0 /\ SentBy(c, life[c]) = {}
      BY <2>1 DEF Init, Promised, NewLimiter
    <3>2. Cardinality({}) = 0
      BY FS_EmptySet
    <3> QED
      BY <3>1, <3>2 DEF SlotForEach
  <2> QED
    BY <2>2, <2>3 DEF LimitInv
<1>2. LimitInv => LimiterBinds
  BY DEF LimitInv
<1> QED
  BY <1>1, <1>2, Invariance, LimitStep, PTL DEF Spec
=============================================================================
