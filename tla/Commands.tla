-------------------------------- MODULE Commands --------------------------------
(***************************************************************************)
(* The process mcpshield: its first argument chooses the command           *)
(* (cmd/mcpshield/main.go).  serve and replay take several steps that      *)
(* something may come between; the others open a file or a database, call  *)
(* one function of a component that has its own module, and print.         *)
(***************************************************************************)
EXTENDS Serve, Replay

VARIABLE command

commandVars == <<serveVars, replayVars, command>>

\* The variables of the command that was not given keep one value.
Init ==
  \/ /\ command = "serve" /\ ServeInit
     /\ stage = "open" /\ mode = "other" /\ given = NoFile
     /\ session = << >> /\ left = << >> /\ time = 0 /\ tokens = NoBuckets /\ lines = << >>
  \/ /\ command = "replay" /\ ReplayInit
     /\ file = (CHOOSE f \in Files : TRUE) /\ rules = << >> /\ ServeInit

RunServe  == command = "serve" /\ ServeNext /\ UNCHANGED <<replayVars, command>>
RunReplay == command = "replay" /\ ReplayNext /\ UNCHANGED <<serveVars, command>>

Next == RunServe \/ RunReplay

(* Fairness: the goroutines of serve are scheduled, its calls return and   *)
(* its handlers end.  No signal, edit or failing listener is assumed.      *)
FairSpec ==
  /\ Init /\ [][Next]_commandVars
  /\ WF_commandVars(RunServe /\ Process)
  /\ WF_commandVars(RunServe /\ ReloadPolicy)
=============================================================================
