----------------------------- MODULE ProbePolicy -----------------------------
(***************************************************************************)
(* SecurityRuntime.authorizeProbe (security-runtime/src/runtime.ts): what  *)
(* the policy lets through to a target, as operators.                      *)
(*                                                                         *)
(* A probe is a record of its kind, its timeout ("within" the policy's     *)
(* maximum, "over" it, or "invalid"), its method, whether it has a body,   *)
(* and its command: the class of its binary ("none" for no command) and    *)
(* whether a destructive fragment occurs in it.  A target is a record of   *)
(* its environment, the binaries it declares, and whether it accepts       *)
(* interpreters.                                                           *)
(***************************************************************************)

ShellKinds == {"shell_command", "process_check", "persistence_check"}
CodeKinds == {"code_read", "dependency_read", "state_check", "evidence_check"}
HttpKinds == {"http_request", "prompt_injection"}
KnownKinds == ShellKinds \cup CodeKinds \cup HttpKinds

RemoteEnvironments == {"staging", "hosted_authorized", "production_shadow"}

ShellAllowed(target, probe) ==
    /\ target.environment \notin RemoteEnvironments
    /\ probe.binary # "none"
    /\ probe.binary \in target.allowedShellCommands
    /\ probe.binary = "interpreter" => target.allowShellInterpreters
    /\ ~probe.destructive

CodeAllowed(target) == target.environment \notin RemoteEnvironments

HttpAllowed(target, probe) ==
    CASE target.environment \in {"staging", "production_shadow"} ->
            probe.method \in {"GET", "HEAD"} /\ ~probe.hasBody
      [] target.environment = "hosted_authorized" ->
            probe.method \in {"GET", "HEAD", "POST", "PUT", "PATCH", "DELETE"}
      [] OTHER -> TRUE

authorizeProbe(killSwitchIsActive, target, probe) ==
    /\ ~killSwitchIsActive
    /\ probe.kind \in KnownKinds
    /\ probe.timeout = "within"
    /\ probe.kind \in ShellKinds => ShellAllowed(target, probe)
    /\ probe.kind \in CodeKinds => CodeAllowed(target)
    /\ probe.kind \in HttpKinds => HttpAllowed(target, probe)

\* An HTTP probe as the lanes declare it to the policy.
HttpProbe(request) ==
    [kind |-> IF request.hasBody THEN "prompt_injection" ELSE "http_request",
     timeout |-> "within", method |-> request.method, hasBody |-> request.hasBody]
=============================================================================
