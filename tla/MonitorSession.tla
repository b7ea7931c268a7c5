---------------------------- MODULE MonitorSession ----------------------------
(***************************************************************************)
(* What a Monitor call promises: it starts one process for its port, opens *)
(* the port once or not at all, tells the client when it is open, and does *)
(* not return while the process it has started is running.                 *)
(***************************************************************************)

VARIABLES phase,    \* of the call: "closed", "connecting", "open", "ended"
          process   \* of the monitor tool: "none", "running", "dead"

sessionVars == <<phase, process>>

SessionInit == phase = "closed" /\ process = "none"

Launch == phase = "closed" /\ phase' = "connecting" /\ process = "none" /\ process' = "running"

Opened == phase = "connecting" /\ phase' = "open" /\ UNCHANGED process

\* The tool exits, crashes or is killed.
Exits == process = "running" /\ process' = "dead" /\ phase # "ended" /\ UNCHANGED phase

Ended == phase \in {"connecting", "open"} /\ phase' = "ended" /\ process' = "dead"

SessionNext == Launch \/ Opened \/ Exits \/ Ended

SessionSpec == SessionInit /\ [][SessionNext]_sessionVars
=============================================================================
