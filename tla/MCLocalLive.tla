----------------------------- MODULE MCLocalLive -----------------------------
(* An instance of LocalLive for TLC: a profile with both commands, one that  *)
(* can only be started, and one of a target that runs by itself; two packets *)
(* of two rounds, of one or two probes, one of them a mutation nobody opted  *)
(* in to; the limiter's budget ends in the middle of the lane or is not      *)
(* reached.                                                                  *)
EXTENDS LocalLive

Read == [method |-> "GET", hasBody |-> FALSE]
Mutate == [method |-> "POST", hasBody |-> TRUE]
SomeProfiles == {Commands, {"localStartup"}, {}}
OneCanary == <<Read>>
TranslationsOf == {<<>>, <<Read, Mutate>>, <<Read, Read>>}
FollowupsOf == {<<Read, Read>>}
Worker == {Read}
=============================================================================
