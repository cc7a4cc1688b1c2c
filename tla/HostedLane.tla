------------------------------ MODULE HostedLane ------------------------------
(***************************************************************************)
(* The hosted lane (runHostedLane in investigation-runner-internals.ts and *)
(* verification/hosted/): campaigns that probe one hosted target on one    *)
(* day, each from a process of its own.                                    *)
(*                                                                         *)
(* What they share: the host's budget file, which every answer rewrites in *)
(* place, and the stop files an operator creates, one per campaign         *)
(* directory, which the policy looks at, and one in the working directory, *)
(* which the auto-stop monitor looks at.  What outlives a process: these   *)
(* files and a campaign's audit file.  An action is what a process does    *)
(* between two awaits; the synchronous calls that another process can come *)
(* between (a stop file is read, the budget file truncated and written)    *)
(* are actions of their own.                                               *)
(***************************************************************************)
EXTENDS RateLimiter, ProbePolicy, Sequences, FiniteSets

CONSTANTS
    Campaign,
    WorkingDirectory,  \* names the stop file of the monitors
    Environment,       \* the hosted target's environment
    Ingress,           \* the target's ingress checks: [method, hasBody]
    Canaries,          \* the further requests of each campaign
    MutationsAllowed,  \* --allow-hosted-mutations
    DailyBudget,       \* requestsPerDay
    MaxLives,          \* bound: processes of each campaign
    MaxStopFiles       \* bound: stop files that are created

ASSUME HostedConstants ==
    /\ IsFiniteSet(Campaign) /\ Campaign # {} /\ WorkingDirectory \notin Campaign
    /\ Ingress \in Seq([method : STRING, hasBody : BOOLEAN])
    /\ Canaries \in [Campaign -> Seq([method : STRING, hasBody : BOOLEAN])]
    /\ MutationsAllowed \in BOOLEAN
    /\ DailyBudget \in Nat /\ MaxLives \in [Campaign -> Nat \ {0}]
    /\ MaxStopFiles \in Nat

VARIABLES
    pc,          \* the await or call a campaign stands at
    life,        \* number of the campaign's process
    next,        \* the request of the plan it is at
    limiter,     \* its rate limiter
    incident,    \* its auto-stop monitor has an incident
    baseline,    \* its monitor has a latency to compare with
    unsafe,      \* the answer it is recording is one to stop at
    seen,        \* the count its monitor has read for it
    stopFiles,   \* stop files that exist
    budget,      \* the budget file
    audit,       \* the audit files: entries on lines of their own; the file ends in a
                 \* part of a line; some line of it does not parse
    sent,        \* history: requests that left each campaign
    responses,   \* history: answers received today
    late,        \* history: requests sent after a stop file that counts
    disturbed    \* history: the count of the budget file was lost

memory == <<next, limiter, incident, baseline, unsafe, seen>>
process == <<life, memory>>
files == <<stopFiles, budget, audit>>
history == <<sent, responses, late, disturbed>>
vars == <<pc, process, files, history>>

Plan(c) == Ingress \o Canaries[c]
IsIngress(c) == next[c] <= Len(Ingress)
IsMutation(request) == request.method \in {"POST", "PUT", "PATCH", "DELETE"}

\* A request is named by the process that sends it and its place in the plan.
Request(c) == <<life[c], next[c]>>

Phases == {"request_started", "request_completed"}
AuditFile == [lines : SUBSET (Phases \X (Nat \X Nat)), partial : BOOLEAN, broken : BOOLEAN]
Ended == {"done", "threw", "dead"}
Updating == {"truncate", "write"}
Completing == {"complete_audit", "error_audit"}
Stages == {"idle", "probe", "waiting", "fetch", "inflight", "result", "summary"}
          \cup Updating \cup Completing \cup Ended

Go(c, stage) == pc' = [pc EXCEPT ![c] = stage]

\* The process ends and takes its memory with it.
End(c, how) ==
    /\ Go(c, how)
    /\ next' = [next EXCEPT ![c] = 1]
    /\ limiter' = [limiter EXCEPT ![c] = NewLimiter]
    /\ incident' = [incident EXCEPT ![c] = FALSE]
    /\ baseline' = [baseline EXCEPT ![c] = FALSE]
    /\ unsafe' = [unsafe EXCEPT ![c] = FALSE]
    /\ seen' = [seen EXCEPT ![c] = 0]

Init ==
    /\ pc = [c \in Campaign |-> "idle"] /\ life = [c \in Campaign |-> 1]
    /\ next = [c \in Campaign |-> 1]
    /\ limiter = [c \in Campaign |-> NewLimiter]
    /\ incident = [c \in Campaign |-> FALSE] /\ baseline = [c \in Campaign |-> FALSE]
    /\ unsafe = [c \in Campaign |-> FALSE] /\ seen = [c \in Campaign |-> 0]
    /\ stopFiles = {} /\ budget = [parses |-> TRUE, count |-> 0]
    /\ audit = [c \in Campaign |-> [lines |-> {}, partial |-> FALSE, broken |-> FALSE]]
    /\ sent = [c \in Campaign |-> {}]
    /\ responses = 0 /\ late = [c \in Campaign |-> 0] /\ disturbed = FALSE

-----------------------------------------------------------------------------
(* Into the lane.                                                          *)

\* The lane was not authorised, has no target or lacks coverage: an event says so.
Decline(c) ==
    /\ pc[c] = "idle"
    /\ Go(c, "done")
    /\ UNCHANGED <<process, files, history>>

\* AuthorizationGate.check: the operator confirms; the audit file is prepared.
Admit(c) ==
    /\ pc[c] = "idle"
    /\ Go(c, "probe")
    /\ UNCHANGED <<process, files, history>>

\* ... or does not, or there is no terminal to ask on, or an identity is no canary.
Refuse(c) ==
    /\ pc[c] = "idle"
    /\ Go(c, "threw")
    /\ UNCHANGED <<process, files, history>>

-----------------------------------------------------------------------------
(* executeHostedProbe, up to the request.  Up to the wait for a slot it    *)
(* looks at one shared file after the other; what another process does     *)
(* between two looks could as well have come before or after them.         *)

HostedTarget == [environment |-> Environment]
Current(c) == Plan(c)[next[c]]

\* Bug: the policy is asked once, for the first request.
AllowedOnce(c) ==
    next[c] > 1 \/ authorizeProbe(c \in stopFiles, HostedTarget, HttpProbe(Current(c)))
\* The policy's decision, of the lane and again of the probe.
Allowed(c) == authorizeProbe(c \in stopFiles, HostedTarget, HttpProbe(Current(c)))

\* loadBudget: what does not parse counts as nothing.
loadBudget == IF budget.parses THEN budget.count ELSE 0

\* AutoStopMonitor.preflight finds or has an incident.
preflight(c) ==
    incident[c] \/ WorkingDirectory \in stopFiles \/ loadBudget >= DailyBudget

AtProbe(c) == pc[c] = "probe" /\ next[c] <= Len(Plan(c))

Block(c) ==
    /\ AtProbe(c) /\ ~Allowed(c)
    /\ Go(c, "result")
    /\ UNCHANGED <<process, files, history>>

AutoStop(c) ==
    /\ AtProbe(c) /\ Allowed(c) /\ preflight(c)
    /\ incident' = [incident EXCEPT ![c] = TRUE]
    /\ Go(c, "result")
    /\ UNCHANGED <<life, next, limiter, baseline, unsafe, seen, files, history>>

\* An ingress check that mutates is let through here, and refused by the code, which
\* passes no opt-in for it: the lane is given more requests than it has.
OptedIn(c) == IsIngress(c) \/ ~IsMutation(Current(c)) \/ MutationsAllowed

Preflighted(c) ==
    /\ AtProbe(c) /\ Allowed(c) /\ ~preflight(c)
    /\ disturbed' = (disturbed \/ ~budget.parses)

\* A mutation nobody opted in to, or no credentials for the request's identity.
Reject(c) ==
    /\ Preflighted(c)
    /\ Go(c, "result")
    /\ UNCHANGED <<process, files, sent, responses, late>>

\* RateLimiter.acquire refuses, or waits for a slot.
acquire(c) ==
    /\ Preflighted(c) /\ OptedIn(c)
    /\ IF Refuses(limiter[c])
       THEN limiter' = [limiter EXCEPT ![c] = Refused(@)] /\ Go(c, "result")
       ELSE Go(c, "waiting") /\ UNCHANGED limiter
    /\ UNCHANGED <<life, next, incident, baseline, unsafe, seen, files, sent,
                   responses, late>>

TakeSlot(c) == limiter' = [limiter EXCEPT ![c] = Acquired(@)]

\* AuditTrail.append.  Behind a part of a line the entry is text on the same line,
\* which ends with it.
Recording(c, phase) ==
    audit' = [audit EXCEPT ![c] =
                 IF audit[c].partial
                 THEN [audit[c] EXCEPT !.partial = FALSE]
                 ELSE [audit[c] EXCEPT !.lines = @ \cup {<<phase, Request(c)>>}]]

\* The append fails, or the process dies in it: nothing of the line is in the file,
\* or a part of it, and nothing repairs it.
Tearing(c) ==
    \/ UNCHANGED audit
    \/ audit' = [audit EXCEPT ![c] = [@ EXCEPT !.partial = TRUE, !.broken = TRUE]]

\* AuditTrail.readAll: one line that does not parse, and the file is read as empty.
readAll(c) == IF audit[c].broken THEN {} ELSE audit[c].lines

\* Bug: the request is recorded when it has been answered.
StartAuditLate(c) ==
    /\ pc[c] = "waiting"
    /\ TakeSlot(c)
    /\ Go(c, "fetch")
    /\ UNCHANGED <<life, next, incident, baseline, unsafe, seen, files, history>>
\* "Record the request before it leaves the process."
StartAudit(c) ==
    /\ pc[c] = "waiting"
    /\ TakeSlot(c)
    /\ Recording(c, "request_started")
    /\ Go(c, "fetch")
    /\ UNCHANGED <<life, next, incident, baseline, unsafe, seen, stopFiles, budget, history>>

\* The append fails, outside the try: the lane throws.
StartAuditFails(c) ==
    /\ pc[c] = "waiting"
    /\ Tearing(c)
    /\ End(c, "threw")
    /\ UNCHANGED <<life, stopFiles, budget, history>>

\* fetch: the request leaves the process.
Fetch(c) ==
    /\ pc[c] = "fetch"
    /\ sent' = [sent EXCEPT ![c] = @ \cup {Request(c)}]
    /\ late' = [late EXCEPT ![c] =
                   IF stopFiles \cap {c, WorkingDirectory} # {} THEN @ + 1 ELSE @]
    /\ Go(c, "inflight")
    /\ UNCHANGED <<process, files, responses, disturbed>>

-----------------------------------------------------------------------------
(* The answer.                                                             *)

\* The limiter takes it, and the monitor reads the budget file.  A 5xx status, a
\* WAF or IAP answer is one to stop at; from the second on a slow one is, too.
Respond(c) ==
    /\ pc[c] = "inflight"
    /\ \E serverError, edgeBlock, slow \in BOOLEAN :
        /\ slow => baseline[c]
        /\ \E l \in Recorded(limiter[c], serverError) : limiter' = [limiter EXCEPT ![c] = l]
        /\ unsafe' = [unsafe EXCEPT ![c] = serverError \/ edgeBlock \/ slow]
    /\ seen' = [seen EXCEPT ![c] = loadBudget]
    /\ responses' = responses + 1
    /\ disturbed' = (disturbed \/ \E d \in Campaign \ {c} : pc[d] \in Updating)
    /\ Go(c, "truncate")
    /\ UNCHANGED <<life, next, incident, baseline, files, sent, late>>

\* The request times out, or its answer breaks off: neither limiter nor monitor
\* hear of it.
TimeOut(c) ==
    /\ pc[c] = "inflight"
    /\ Go(c, "error_audit")
    /\ UNCHANGED <<process, files, history>>

\* persistBudget: writeFileSync truncates the file, then writes it.
Truncate(c) ==
    /\ pc[c] = "truncate"
    /\ budget' = [parses |-> FALSE, count |-> 0]
    /\ Go(c, "write")
    /\ UNCHANGED <<process, stopFiles, audit, history>>

\* The rest of recordResult: the first bad answer is an incident.
Judge(c) ==
    /\ incident' = [incident EXCEPT ![c] = unsafe[c]]
    /\ baseline' = [baseline EXCEPT ![c] = @ \/ ~unsafe[c]]
    /\ unsafe' = [unsafe EXCEPT ![c] = FALSE]
    /\ seen' = [seen EXCEPT ![c] = 0]
    /\ Go(c, "complete_audit")
    /\ UNCHANGED <<life, next, limiter, stopFiles, audit, sent, responses, late>>

\* Bug: the count that was read is written back.
WriteUncounted(c) ==
    /\ pc[c] = "write"
    /\ budget' = [parses |-> TRUE, count |-> seen[c]]
    /\ Judge(c)
    /\ UNCHANGED disturbed
Write(c) ==
    /\ pc[c] = "write"
    /\ budget' = [parses |-> TRUE, count |-> seen[c] + 1]
    /\ Judge(c)
    /\ UNCHANGED disturbed

\* "ignore -- budget enforcement is best-effort"
PersistFails(c) ==
    /\ pc[c] \in Updating
    /\ disturbed' = TRUE
    /\ Judge(c)
    /\ UNCHANGED budget

CompleteAudit(c) ==
    /\ pc[c] \in Completing
    /\ Recording(c, "request_completed")
    /\ Go(c, "result")
    /\ UNCHANGED <<process, stopFiles, budget, history>>

\* The first append fails inside the try and is made once more by the catch.
CompleteAuditFails(c) ==
    /\ \/ pc[c] = "complete_audit" /\ Go(c, "error_audit") /\ UNCHANGED memory
       \/ pc[c] = "error_audit" /\ End(c, "threw")
    /\ Tearing(c)
    /\ UNCHANGED <<life, stopFiles, budget, history>>

-----------------------------------------------------------------------------
(* Back in the lane.                                                       *)

\* The result is recorded; autoStop.current ends the lane.  An ingress check ends
\* it without the closing event.
Result(c) ==
    /\ pc[c] = "result"
    /\ \/ incident[c] /\ IsIngress(c) /\ End(c, "done")
       \/ /\ ~(incident[c] /\ IsIngress(c))
          /\ next' = [next EXCEPT ![c] = @ + 1]
          /\ Go(c, IF incident[c] THEN "summary" ELSE "probe")
          /\ UNCHANGED <<limiter, incident, baseline, unsafe, seen>>
    /\ UNCHANGED <<life, files, history>>

PlanEnds(c) == pc[c] = "summary" \/ (pc[c] = "probe" /\ next[c] > Len(Plan(c)))

\* verification_hosted
Summary(c) ==
    /\ PlanEnds(c)
    /\ End(c, "done")
    /\ UNCHANGED <<life, files, history>>

\* An event or an experiment cannot be written.
RecordFails(c) ==
    /\ pc[c] = "result" \/ PlanEnds(c)
    /\ End(c, "threw")
    /\ UNCHANGED <<life, files, history>>

-----------------------------------------------------------------------------
(* The rest of the world.                                                  *)

Crash(c) ==
    /\ pc[c] \notin Ended
    /\ End(c, "dead")
    /\ disturbed' = (disturbed \/ pc[c] \in Updating)
    /\ IF pc[c] \in {"waiting"} \cup Completing THEN Tearing(c) ELSE UNCHANGED audit
    /\ UNCHANGED <<life, stopFiles, budget, sent, responses, late>>

\* The campaign is resumed: a new process, with nothing in memory.
Relaunch(c) ==
    /\ pc[c] \in {"dead", "threw"} /\ life[c] < MaxLives[c]
    /\ Go(c, "idle")
    /\ life' = [life EXCEPT ![c] = @ + 1]
    /\ UNCHANGED <<memory, files, history>>

\* The operator creates a stop file.
Stop ==
    /\ Cardinality(stopFiles) < MaxStopFiles
    /\ \E file \in (Campaign \cup {WorkingDirectory}) \ stopFiles :
        stopFiles' = stopFiles \cup {file}
    /\ UNCHANGED <<pc, process, budget, audit, history>>

Gate(c) == Decline(c) \/ Admit(c) \/ Refuse(c)

Probe(c) ==
    \/ Block(c) \/ AutoStop(c) \/ Reject(c) \/ acquire(c) \/ StartAudit(c) \/ StartAuditFails(c) \/ Fetch(c)
    \/ Respond(c) \/ TimeOut(c) \/ Truncate(c) \/ Write(c) \/ PersistFails(c)
    \/ CompleteAudit(c) \/ CompleteAuditFails(c)
    \/ Result(c) \/ Summary(c) \/ RecordFails(c)

Next == Stop \/ \E c \in Campaign : Gate(c) \/ Probe(c) \/ Crash(c) \/ Relaunch(c)

Spec == Init /\ [][Next]_vars

-----------------------------------------------------------------------------
(* Properties.                                                             *)

\* The variables keep their types.
TypeOK ==
    /\ pc \in [Campaign -> Stages]
    /\ life \in [Campaign -> Nat \ {0}]
    /\ next \in [Campaign -> Nat \ {0}]
    /\ \A c \in Campaign : next[c] <= Len(Plan(c)) + 1
    /\ limiter \in [Campaign -> Limiter]
    /\ incident \in [Campaign -> BOOLEAN] /\ baseline \in [Campaign -> BOOLEAN]
    /\ unsafe \in [Campaign -> BOOLEAN] /\ seen \in [Campaign -> Nat]
    /\ stopFiles \subseteq Campaign \cup {WorkingDirectory}
    /\ budget \in [parses : BOOLEAN, count : Nat]
    /\ audit \in [Campaign -> AuditFile]
    /\ sent \in [Campaign -> SUBSET (Nat \X Nat)]
    /\ responses \in Nat /\ late \in [Campaign -> Nat] /\ disturbed \in BOOLEAN

\* As long as no append left a part of its line, whatever a campaign has sent, in this
\* process or one that died, is read back from its audit file, and so is the outcome
\* of each request of a lane that has come to its end ("a crash mid-request must still
\* leave evidence of what was sent").  Such a part costs more than the entry it
\* belongs to, but of what was sent only the first request of a resumed process.
AuditIsComplete ==
    \A c \in Campaign : \A request \in sent[c] :
        /\ ~audit[c].broken =>
              /\ <<"request_started", request>> \in readAll(c)
              /\ pc[c] = "done" /\ request[1] = life[c]
                     => <<"request_completed", request>> \in readAll(c)
        /\ \/ <<"request_started", request>> \in audit[c].lines
           \/ /\ request[1] > 1
              /\ \A other \in sent[c] : other[1] = request[1] => request[2] <= other[2]

\* As long as no update of the budget file was lost (a process died or failed in
\* it, or another one read the file during it), the answers of a day exceed the
\* budget by less than the number of campaigns that share the host.
BudgetHolds ==
    ~disturbed => responses <= DailyBudget + Cardinality(Campaign) - 1

\* After its stop file, or that of the monitors, a campaign sends one request at
\* most, the one it had been allowed, however often it is resumed.
StopFileBinds == \A c \in Campaign : late[c] <= 1
=============================================================================
