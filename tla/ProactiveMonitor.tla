-------------------------- MODULE ProactiveMonitor --------------------------
(***************************************************************************)
(* Monitors that probe the metrics of some services, tell an operator of   *)
(* an anomaly unless they did so lately, and start a diagnosis.  What was  *)
(* told lately is in a store: one per process, one in Redis for all, or    *)
(* (the probe endpoint) a fresh one for every request with no window.      *)
(***************************************************************************)
EXTENDS Integers, FiniteSets

CONSTANTS Monitors,
          AlertKeys,   \* service:metric
          Interval,    \* suppress_interval_seconds, in ticks
          TTL,         \* ttl_seconds of the Redis keys
          Skews,       \* how far each monitor's monotonic clock may be ahead
          NoAlert,
          MaxTime      \* bound: ticks

(* A key is a service and a metric with a colon between them.              *)
ASSUME MonitorAssumption ==
  /\ Interval \in Nat \ {0} /\ TTL \in Nat /\ TTL >= Interval
  /\ Skews \subseteq [Monitors -> Int]
  /\ AlertKeys \intersect {"idle", "probing"} = {}
  /\ NoAlert \notin [at : Int, written : Nat]
  /\ MaxTime \in Nat

Stores == {"process", "redis", "request"}

VARIABLES
  kind, skew,               \* the store in use; the clocks
  now,                      \* ticks
  lastAlert,                \* monitor -> key -> when alerted by the writer's clock, and when written
  mstage, todo, found, alerts,   \* per monitor: its probe
  diagnosed,                \* monitors whose last probe started a diagnosis
  \* history: when a monitor last recorded an alert of a key, -1 for never;
  \* monitors that another one overtook between their check and their record
  told, raced

monitorVars == <<kind, skew, now, lastAlert, mstage, todo, found, alerts, diagnosed, told, raced>>

MonitorInit ==
  /\ kind \in Stores
  /\ skew \in Skews
  /\ now = 0
  /\ lastAlert = [m \in Monitors |-> [k \in AlertKeys |-> NoAlert]]
  /\ mstage = [m \in Monitors |-> "idle"]
  /\ todo = [m \in Monitors |-> {}]
  /\ found = [m \in Monitors |-> {}]
  /\ alerts = [m \in Monitors |-> {}]
  /\ diagnosed = {}
  /\ told = [m \in Monitors |-> [k \in AlertKeys |-> -1]]
  /\ raced = {}

Clock(m) == now + skew[m]
Window == IF kind = "request" THEN 0 ELSE Interval

(* get_last_alert_time: a Redis key is gone after its time to live.        *)
LastAlertTime(m, k) ==
  IF lastAlert[m][k] = NoAlert \/ (kind = "redis" /\ now - lastAlert[m][k].written >= TTL)
  THEN NoAlert ELSE lastAlert[m][k]

ShouldSuppress(m, k) ==
  LastAlertTime(m, k) # NoAlert /\ Clock(m) - LastAlertTime(m, k).at < Window

(* probe: the metrics above their thresholds.  A provider that raises      *)
(* counts as none.                                                         *)
Probe(m) ==
  /\ mstage[m] = "idle"
  /\ \E anomalies \in SUBSET AlertKeys :
       /\ found' = [found EXCEPT ![m] = anomalies]
       /\ todo' = [todo EXCEPT ![m] = anomalies]
  /\ mstage' = [mstage EXCEPT ![m] = "probing"]
  /\ lastAlert' = IF kind = "request" THEN [lastAlert EXCEPT ![m] = [k \in AlertKeys |-> NoAlert]]
                  ELSE lastAlert
  /\ UNCHANGED <<kind, skew, now, alerts, diagnosed, told, raced>>

Record(m, k) ==
  LET entry == [at |-> Clock(m), written |-> now] IN
  lastAlert' = [o \in Monitors |->
    IF o = m \/ kind = "redis" THEN [lastAlert[o] EXCEPT ![k] = entry] ELSE lastAlert[o]]

(* Mutant: a suppressed anomaly prolongs its own silence.                  *)
SilenceAndRecord(m, k) == Record(m, k) /\ UNCHANGED mstage

Silence(m, k) == UNCHANGED <<lastAlert, mstage>>

(* The next anomaly: silenced, or checked here and recorded in a second    *)
(* call to the store.                                                      *)
CheckAnomaly(m) ==
  \E k \in todo[m] :
    /\ mstage[m] = "probing"
    /\ todo' = [todo EXCEPT ![m] = @ \ {k}]
    /\ IF ShouldSuppress(m, k)
         THEN Silence(m, k)
         ELSE mstage' = [mstage EXCEPT ![m] = k] /\ UNCHANGED lastAlert
    /\ UNCHANGED <<kind, skew, now, found, alerts, diagnosed, told, raced>>

RecordAlert(m) ==
  LET k == mstage[m] IN
  /\ k \in AlertKeys
  /\ Record(m, k)
  /\ alerts' = [alerts EXCEPT ![m] = @ \union {k}]
  /\ mstage' = [mstage EXCEPT ![m] = "probing"]
  /\ told' = [told EXCEPT ![m][k] = now]
  /\ raced' = (raced \ {m}) \union {o \in Monitors \ {m} : mstage[o] = k}
  /\ UNCHANGED <<kind, skew, now, todo, found, diagnosed>>

(* Mutant: the alerts of the last probe are not forgotten.                 *)
EndProbeKeepingAlerts(m) ==
  /\ \/ mstage[m] = "probing" /\ todo[m] = {}
        /\ diagnosed' = IF kind # "request" /\ found[m] # {} THEN diagnosed \union {m}
                        ELSE diagnosed \ {m}
     \/ mstage[m] # "idle" /\ diagnosed' = diagnosed \ {m}
  /\ mstage' = [mstage EXCEPT ![m] = "idle"]
  /\ todo' = [todo EXCEPT ![m] = {}]
  /\ found' = [found EXCEPT ![m] = {}]
  /\ raced' = raced \ {m}
  /\ UNCHANGED <<kind, skew, now, lastAlert, alerts, told>>

(* The diagnosis is asked for every anomaly, silenced or not; then the     *)
(* caller gets the alerts.  If the store or the creation of the run        *)
(* raises, or the process dies, it gets none of them.                      *)
EndProbe(m) ==
  /\ \/ mstage[m] = "probing" /\ todo[m] = {}
        /\ diagnosed' = IF kind # "request" /\ found[m] # {} THEN diagnosed \union {m}
                        ELSE diagnosed \ {m}
     \/ mstage[m] # "idle" /\ diagnosed' = diagnosed \ {m}
  /\ mstage' = [mstage EXCEPT ![m] = "idle"]
  /\ todo' = [todo EXCEPT ![m] = {}]
  /\ found' = [found EXCEPT ![m] = {}]
  /\ alerts' = [alerts EXCEPT ![m] = {}]
  /\ raced' = raced \ {m}
  /\ UNCHANGED <<kind, skew, now, lastAlert, told>>

(* A process starts over, and an in-memory store with it.                  *)
Restart(m) ==
  /\ mstage[m] = "idle"
  /\ kind = "process"
  /\ lastAlert' = [lastAlert EXCEPT ![m] = [k \in AlertKeys |-> NoAlert]]
  /\ told' = [told EXCEPT ![m] = [k \in AlertKeys |-> -1]]
  /\ UNCHANGED <<kind, skew, now, mstage, todo, found, alerts, diagnosed, raced>>

Pass ==
  /\ now < MaxTime
  /\ now' = now + 1
  /\ UNCHANGED <<kind, skew, lastAlert, mstage, todo, found, alerts, diagnosed, told, raced>>

MonitorNext ==
  \/ \E m \in Monitors : Probe(m) \/ CheckAnomaly(m) \/ RecordAlert(m) \/ EndProbe(m)
                         \/ Restart(m)
  \/ Pass

MonitorSpec == MonitorInit /\ [][MonitorNext]_monitorVars
----------------------------------------------------------------------------
(* Every variable keeps its type.                                          *)
MonitorTypeOK ==
  /\ kind \in Stores /\ now \in 0 .. MaxTime
  /\ \A m \in Monitors : /\ mstage[m] \in {"idle", "probing"} \union AlertKeys
                         /\ todo[m] \union alerts[m] \subseteq found[m]
  /\ \A m \in Monitors, k \in AlertKeys : told[m][k] \in -1 .. now

Recent(m, k, span) == told[m][k] >= 0 /\ now - told[m][k] < span
OneClock == \A m, o \in Monitors : skew[m] = skew[o]

(* With a window, a monitor process alerts again only when the interval    *)
(* has passed since its own last alert and, if the store and the clock are *)
(* shared, since anybody's, unless another monitor alerted between its     *)
(* check and its record; and an anomaly is silenced only if somebody       *)
(* alerted within the interval or, if the clocks differ, within the time   *)
(* to live.                                                                *)
AlertsAreSpaced ==
  [][\A m \in Monitors, k \in AlertKeys :
       /\ alerts'[m] = alerts[m] \union {k} /\ k \notin alerts[m] /\ kind # "request" =>
            /\ OneClock \/ kind = "process" => ~Recent(m, k, Interval) \/ m \in raced
            /\ OneClock /\ kind = "redis" =>
                 (\A o \in Monitors : ~Recent(o, k, Interval)) \/ m \in raced
       /\ k \in todo[m] \ todo'[m] /\ mstage'[m] = "probing" =>
            \E o \in Monitors :
              Recent(o, k, IF OneClock \/ kind = "process" THEN Interval ELSE TTL)]_monitorVars
=============================================================================
