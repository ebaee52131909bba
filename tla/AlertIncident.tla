--------------------------- MODULE AlertIncident ---------------------------
(***************************************************************************)
(* Alerts of the operations service (ops/alert/config.py, metric.py,       *)
(* event.py; the AlertLog table).  The cycle of a primary worker checks    *)
(* the metrics of the alert settings; a metric beyond its threshold        *)
(* triggers, which continues the open incident of these settings or opens  *)
(* one, and alarms the supervisor.  A request to the supervisor that fails *)
(* triggers the event supervisor_request_failed, which is an incident of   *)
(* its own when the service has settings for it.                           *)
(*                                                                         *)
(* The threads are the cycles of the workers: a late primary and the new   *)
(* one, or workers whose cycles fail.  They share only the table.  Each    *)
(* store.setup() builds the AlertMetric objects anew from the settings, so *)
(* a check starts without _last_check and _last_alert.                     *)
(*                                                                         *)
(* The settings are not silent and have no min_duration; nothing calls     *)
(* recover() but the check of a metric.                                    *)
(***************************************************************************)
EXTENDS Naturals, Sequences, FiniteSets, Functions

CONSTANTS Watchers,      \* the threads that check metrics and trigger events
          Subscribed,    \* are there settings for supervisor_request_failed?
          NoValue,       \* None
          UserWindow, DefaultWindow,   \* compress_window
          UserPause, DefaultPause,     \* min_alarm_interval
          MinTimes,      \* min_times
          MaxMinute,     \* bound: time
          MaxIncidents,  \* bound: AlertLog rows
          MaxCount,      \* bound: triggers that are counted apart
          MaxCalls       \* bound: checks and failed reports; what they trigger is not bounded

ASSUME AlertAssumption ==
  /\ Subscribed \in BOOLEAN
  /\ NoValue \notin Nat
  /\ {UserWindow, UserPause} \subseteq Nat \cup {NoValue}
  /\ {DefaultWindow, DefaultPause} \subseteq Nat
  /\ {MinTimes, MaxIncidents, MaxCount, MaxCalls} \subseteq Nat /\ MinTimes <= MaxCount
  /\ MaxMinute \in Nat \ {0}

VARIABLES minute,     \* time_now()
          down,       \* do the requests to the supervisor fail?
          watcher,    \* [Watchers -> its call of check() or of the event]
          incidents,  \* the AlertLog table, in order of pk and time
          calls       \* checks and failed reports so far

alertVars == <<minute, down, watcher, incidents, calls>>

Entries == {"metric", "event"}
Never   == 0          \* latest_alarm_time is None; minutes start at 1

NoCall == [pc |-> "idle", entry |-> "metric", at |-> 0, log |-> 0, n |-> 0,
           alarmed |-> Never, stale |-> FALSE]

AlertInit ==
  /\ minute = 1 /\ down = FALSE
  /\ watcher = [t \in Watchers |-> NoCall]
  /\ incidents = << >> /\ calls = 0

\* setup_params keeps None and replaces every other value by the default
SetupParam(value, default) == IF value = NoValue THEN NoValue ELSE default
Window == SetupParam(UserWindow, DefaultWindow)
Pause  == SetupParam(UserPause, DefaultPause)

Pks       == 1..Len(incidents)
Open(i)   == ~incidents[i].gone /\ ~incidents[i].recovered
In(t, pc) == watcher[t].pc = pc
Return(t) == watcher' = [watcher EXCEPT ![t] = NoCall]

MinutePasses ==
  /\ minute < MaxMinute
  /\ minute' = minute + 1
  /\ UNCHANGED <<down, watcher, incidents, calls>>

\* The supervisor, or the way to it, breaks down or comes back: at any time and as
\* often as it likes.
SupervisorChanges ==
  /\ down' = ~down
  /\ UNCHANGED <<minute, watcher, incidents, calls>>

-----------------------------------------------------------------------------
(* get_log *)

\* mutant: the window is counted from the start of the incident
WithinStart(i, at) == Window = NoValue \/ incidents[i].time + Window >= at

Within(i, at) == Window = NoValue \/ incidents[i].latest + Window >= at

\* order_by('-time').first() of the open logs of the entry, 0 if there is none
GetLog(entry, at) ==
  LET found == {i \in Pks : Open(i) /\ incidents[i].entry = entry /\ Within(i, at)}
  IN  IF found = {} THEN 0 ELSE CHOOSE i \in found : \A j \in found : i >= j

-----------------------------------------------------------------------------
(* trigger *)

Trigger(t, entry) ==
  watcher' = [watcher EXCEPT ![t] = [NoCall EXCEPT !.pc = "get", !.entry = entry, !.at = minute]]

Begin == calls < MaxCalls /\ calls' = calls + 1

\* AlertMetric.check: beyond the threshold it triggers, otherwise it looks for
\* an incident to recover
Check(t) ==
  /\ In(t, "idle") /\ Begin
  /\ Trigger(t, "metric") \/ watcher' = [watcher EXCEPT ![t].pc = "lookup"]
  /\ UNCHANGED <<minute, down, incidents>>

\* A heartbeat or a report of this cycle failed.
RequestFails(t) ==
  /\ In(t, "idle") /\ Subscribed /\ down /\ Begin
  /\ Trigger(t, "event")
  /\ UNCHANGED <<minute, down, incidents>>

Get(t) ==
  /\ In(t, "get")
  /\ LET i == GetLog(watcher[t].entry, watcher[t].at) IN
     watcher' = IF i = 0 THEN [watcher EXCEPT ![t].pc = "open", ![t].stale = FALSE]
                ELSE [watcher EXCEPT ![t].pc = "count", ![t].log = i,
                                     ![t].alarmed = incidents[i].alarmed]
  /\ UNCHANGED <<minute, down, incidents, calls>>

\* Threads that are about to open an incident have read the table before this.
Overtake(t, new) ==
  [u \in Watchers |-> IF u # t /\ watcher[u].pc = "open" /\ watcher[u].entry = watcher[t].entry
                      THEN [watcher[u] EXCEPT !.stale = TRUE] ELSE new[u]]

\* update(count=F('count') + 1, latest_time=triggered_time) by pk; from MaxCount on the
\* count is not told apart
Count(t) ==
  /\ In(t, "count")
  /\ LET i == watcher[t].log IN
     incidents' = IF incidents[i].gone THEN incidents
                  ELSE [incidents EXCEPT ![i].count = IF @ < MaxCount THEN @ + 1 ELSE @,
                                         ![i].latest = watcher[t].at]
  /\ watcher' = Overtake(t, [watcher EXCEPT ![t].pc = "counted"])
  /\ UNCHANGED <<minute, down, calls>>

\* AlertLog.objects.create; time and latest_time default to time_now()
OpenIncident(t) ==
  /\ In(t, "open") /\ Len(incidents) < MaxIncidents
  /\ incidents' = Append(incidents,
       [entry |-> watcher[t].entry, time |-> minute, latest |-> minute, count |-> 1,
        recovered |-> FALSE, gone |-> FALSE, alarmed |-> Never, told |-> Never])
  /\ watcher' = Overtake(t, [watcher EXCEPT ![t].pc = "opened", ![t].log = Len(incidents) + 1,
                                       ![t].stale = FALSE])
  /\ UNCHANGED <<minute, down, calls>>

\* is_certain, and min_alarm_interval since the alarm that was read
Alarming(t, count) ==
  /\ count >= MinTimes
  /\ Pause = NoValue \/ watcher[t].alarmed = Never \/ watcher[t].at >= watcher[t].alarmed + Pause

\* A row that was counted is refreshed, which raises if it was deleted since.
Decide(t) ==
  /\ watcher[t].pc \in {"opened", "counted"}
  /\ LET row == incidents[watcher[t].log]
         count == IF In(t, "opened") THEN 1 ELSE row.count
     IN  IF (In(t, "counted") /\ row.gone) \/ ~Alarming(t, count) THEN Return(t)
         ELSE watcher' = [watcher EXCEPT ![t].pc = "alarm"]
  /\ UNCHANGED <<minute, down, incidents, calls>>

-----------------------------------------------------------------------------
(* sync_supervisor *)

\* event.supervisor_request_failed() is the last thing a failed call does
RequestFailed(t) ==
  IF Subscribed THEN Trigger(t, "event") ELSE Return(t)

\* mutant: the branches of resp.success are swapped
AlarmSwapped(t) ==
  /\ In(t, "alarm")
  /\ \/ /\ down
        /\ incidents' = [incidents EXCEPT ![watcher[t].log].told = minute]
        /\ watcher' = [watcher EXCEPT ![t].pc = "alarmed"]
     \/ ~down /\ RequestFailed(t) /\ UNCHANGED incidents
  /\ UNCHANGED <<minute, down, calls>>

\* alert_incident: nothing is written down of an alarm that failed, so the event it
\* triggers is alarmed as soon, unless it was alarmed within min_alarm_interval.
Alarm(t) ==
  /\ In(t, "alarm")
  /\ \/ /\ ~down
        /\ incidents' = [incidents EXCEPT ![watcher[t].log].told = minute]
        /\ watcher' = [watcher EXCEPT ![t].pc = "alarmed"]
     \/ down /\ RequestFailed(t) /\ UNCHANGED incidents
  /\ UNCHANGED <<minute, down, calls>>

\* save(update_fields=['latest_alarm_time']), which raises when the row was
\* deleted since
SaveAlarm(t) ==
  /\ In(t, "alarmed")
  /\ LET i == watcher[t].log IN
     incidents' = IF incidents[i].gone THEN incidents
                  ELSE [incidents EXCEPT ![i].alarmed = minute]
  /\ Return(t)
  /\ UNCHANGED <<minute, down, calls>>

-----------------------------------------------------------------------------
(* The check of a metric that is back to normal *)

\* get_log at this time, because a new object has no _last_check
LookForOpen(t) ==
  /\ In(t, "lookup")
  /\ LET i == GetLog("metric", minute) IN
     IF i = 0 THEN Return(t)
     ELSE watcher' = [watcher EXCEPT ![t].pc = "compare", ![t].log = i,
                                     ![t].at = incidents[i].latest, ![t].n = incidents[i].count,
                                     ![t].alarmed = incidents[i].alarmed]
  /\ UNCHANGED <<minute, down, incidents, calls>>

\* recover() if the log that was read is older than the window by now; None as
\* a window raises
Compare(t) ==
  /\ In(t, "compare")
  /\ IF Window # NoValue /\ minute > watcher[t].at + Window
     THEN watcher' = [watcher EXCEPT ![t].pc = "recover"]
     ELSE Return(t)
  /\ UNCHANGED <<minute, down, incidents, calls>>

\* An uncertain log is deleted, another one marked as recovered; the supervisor
\* is told if it was alarmed before the log was read.
Recover(t) ==
  /\ In(t, "recover")
  /\ LET i == watcher[t].log IN
     IF incidents[i].gone THEN Return(t) /\ UNCHANGED incidents
     ELSE IF watcher[t].n < MinTimes
          THEN incidents' = [incidents EXCEPT ![i].gone = TRUE] /\ Return(t)
          ELSE /\ incidents' = [incidents EXCEPT ![i].recovered = TRUE]
               /\ IF watcher[t].alarmed = Never THEN Return(t)
                  ELSE watcher' = [watcher EXCEPT ![t].pc = "notify"]
  /\ UNCHANGED <<minute, down, calls>>

\* recover_incident
Notify(t) ==
  /\ In(t, "notify")
  /\ IF down THEN RequestFailed(t) ELSE Return(t)
  /\ UNCHANGED <<minute, down, incidents, calls>>

-----------------------------------------------------------------------------
AlertStep(t) ==
  \/ Get(t) \/ Count(t) \/ OpenIncident(t) \/ Decide(t) \/ Alarm(t) \/ SaveAlarm(t)
  \/ LookForOpen(t) \/ Compare(t) \/ Recover(t) \/ Notify(t)

AlertNext ==
  \/ MinutePasses \/ SupervisorChanges
  \/ \E t \in Watchers : Check(t) \/ RequestFails(t) \/ AlertStep(t)

AlertSpec == AlertInit /\ [][AlertNext]_alertVars

\* The worker threads go on with what they do.
AlertFair == \A t \in Watchers : WF_alertVars(AlertStep(t))

AlertFairSpec == AlertSpec /\ AlertFair

-----------------------------------------------------------------------------
(* Properties *)

Incident == [entry: Entries, time: Nat, latest: Nat, count: Nat, recovered: BOOLEAN,
             gone: BOOLEAN, alarmed: Nat, told: Nat]

AlertTypeOK ==
  /\ minute \in 1..MaxMinute /\ down \in BOOLEAN /\ calls \in 0..MaxCalls
  /\ watcher \in [Watchers -> [pc: {"idle", "get", "open", "count", "opened", "counted", "alarm", "alarmed",
                                    "lookup", "compare", "recover", "notify"},
                               entry: Entries, at: 0..MaxMinute, log: 0..Len(incidents),
                               n: Nat, alarmed: 0..MaxMinute, stale: BOOLEAN]]
  /\ incidents \in Seq(Incident) /\ Len(incidents) <= MaxIncidents

\* An incident is opened beside an open one of the same entry within the window
\* only by threads that read the table before the other wrote it
\* (config.py:85-106; models.py:705 "otherwise compress the same event name
\* with compress window").
OneIncident ==
  [][\A t \in Watchers :
       In(t, "open") /\ watcher'[t].pc = "opened" /\ ~watcher[t].stale
         => \A i \in Pks : incidents[i].entry = watcher[t].entry /\ Open(i)
                             => incidents[i].latest + Window < watcher[t].at]_alertVars

\* Two alarms of one incident are min_alarm_interval apart, where there is one,
\* unless the first one was still on its way when the second trigger read the log
\* (config.py:214-217).
AlarmsSpaced ==
  [][\A t \in Watchers :
       In(t, "alarm") /\ watcher'[t].pc # "alarm" =>
         LET i == watcher[t].log IN
         \/ Pause = NoValue \/ incidents[i].told = Never \/ watcher[t].at >= incidents[i].told + Pause
         \/ incidents[i].gone \/ incidents[i].alarmed # watcher[t].alarmed
         \/ \E u \in Watchers : In(u, "alarmed") /\ watcher[u].log = i]_alertVars

\* What one incident is, is opened once and alarmed at intervals, whatever the
\* threads that trigger it (AlertSettingsParams.trigger and alarm, config.py).
IncidentsCompressed == OneIncident /\ AlarmsSpaced

\* A check comes to an end whatever the other threads, the metric and the supervisor do,
\* with one exception, which the code has: the event of a failed request is alarmed as
\* well, that alarm fails while the supervisor is down and triggers the event again
\* (config.py:290-296; only Python's recursion limit ends this round).  Nothing but the
\* event goes round, and only until the supervisor is back.
TriggerEnds ==
  \A t \in Watchers :
    ~In(t, "idle") ~> In(t, "idle") \/ (down /\ watcher[t].entry = "event")
=============================================================================
