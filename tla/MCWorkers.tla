----------------------------- MODULE MCWorkers -----------------------------
(* The worker processes: who is primary, the alerts that the cycles of a   *)
(* primary raise, and the request counters of each.  They are independent; *)
(* a behaviour looks at one.                                               *)
EXTENDS WorkerPrimary, AlertIncident, WorkerMetrics

VARIABLE part

MCPids == 1..2

workersVars == <<part, vars, alertVars, metricVars>>

WorkersInit ==
  /\ part \in {"workers", "alerts", "metrics"}
  /\ Init /\ AlertInit /\ MetricInit
  /\ (part # "metrics" => atomicAdd)

WorkersNext ==
  /\ UNCHANGED part
  /\ \/ part = "workers" /\ Next       /\ UNCHANGED <<alertVars, metricVars>>
     \/ part = "alerts"  /\ AlertNext  /\ UNCHANGED <<vars, metricVars>>
     \/ part = "metrics" /\ MetricNext /\ UNCHANGED <<vars, alertVars>>

\* FairSpec and AlertFair, each where its part moves.
WorkersFair ==
  /\ WF_vars(part = "workers" /\ Tick)
  /\ \A p \in Pids : WF_vars(part = "workers" /\ Cycle(p))
  /\ \A t \in Watchers : WF_alertVars(part = "alerts" /\ AlertStep(t))

WorkersSpec == WorkersInit /\ [][WorkersNext]_workersVars /\ WorkersFair
=============================================================================
