----------------------------- MODULE GpuManager -----------------------------
(***************************************************************************)
(* The GPU sampler (src/runtime/gpu_manager.cpp) and its one consumer, the *)
(* job manager's worker.  A tick observes the devices, publishes the       *)
(* observation and reports what changed against the baseline through a     *)
(* bounded channel that rejects the newest event when it is full.  Ticks   *)
(* of a period too short for them overlap; stop() may come at any time.    *)
(*                                                                         *)
(* A device map assigns every GPU its observed state, being absent         *)
(* included, so two maps differ exactly where diff_states finds a change.  *)
(***************************************************************************)
EXTENDS Naturals, Sequences

CONSTANTS
  GpuUuid,          \* stable GPU identities
  DeviceState,      \* the observed states, with one for an absent device
  Ticker,           \* the executor threads a tick may run on
  Owner,            \* the owner's thread: start() samples on it
  EventCapacity,    \* GpuManagerConfig::event_capacity
  NoStates,         \* no device map
  MaxObservations,  \* bound: observations taken
  MaxChanges,       \* bound: changes of the devices
  MaxFaults         \* bound: failed observations, rejected publications and loads

ASSUME SamplerAssumption ==
  /\ Owner \in Ticker
  /\ EventCapacity \in Nat \ {0}
  /\ MaxObservations \in Nat /\ MaxChanges \in Nat /\ MaxFaults \in Nat

DeviceMap == [GpuUuid -> DeviceState]

ASSUME NoStatesAssumption == NoStates \notin DeviceMap

VARIABLES
  devices,      \* the devices as they are
  phase,        \* of the manager: new, starting, started, joining, stopped, timed_out
  stopping,     \* the flag every tick reads first
  tick_lock,    \* a tick is inside sample_once
  tick,         \* per thread: where its tick is, and what it observed
  observations, \* observations taken so far: the provider's revision
  published,    \* the DoubleBuffer: the newest revision and its device map
  baseline,     \* what changes are reported against
  error_streak, \* a streak of failures is open
  events,       \* the event channel
  dropped,      \* dropped_events_pending
  reported,     \* the device map of the last change event received
  seen,         \* the device map of the last scheduling run
  state_changed,\* the consumer received a change event and has not yet scheduled
  budget        \* the bounds still available

sampler  == <<phase, stopping, tick_lock, tick, observations, published, baseline,
              error_streak>>
consumer == <<reported, seen, state_changed>>
vars == <<devices, sampler, events, dropped, consumer, budget>>

Idle == [at |-> "idle", revision |-> 0, states |-> NoStates]

Init ==
  /\ devices \in DeviceMap
  /\ phase = "new" /\ stopping = FALSE
  /\ tick_lock = FALSE /\ tick = [t \in Ticker |-> Idle]
  /\ observations = 0
  /\ published = [revision |-> 0, states |-> NoStates] /\ baseline = NoStates
  /\ error_streak = FALSE
  /\ events = <<>> /\ dropped = FALSE
  /\ reported = NoStates /\ seen = NoStates /\ state_changed = FALSE
  /\ budget = [change |-> MaxChanges, fault |-> MaxFaults]

(* The provider's side: a device changes, appears or disappears.            *)
DeviceChange(g, state) ==
  /\ budget.change > 0
  /\ devices[g] # state
  /\ devices' = [devices EXCEPT ![g] = state]
  /\ budget' = [budget EXCEPT !.change = @ - 1]
  /\ UNCHANGED <<sampler, events, dropped, consumer>>

-----------------------------------------------------------------------------
(* sample_once, in the steps that other threads can tell apart.             *)

At(t, here) == tick[t].at = here

(* The tick is over and TickGuard releases the lock.                        *)
Finish(t, code) ==
  /\ tick' = [tick EXCEPT ![t] = [Idle EXCEPT !.at = IF t = Owner THEN code ELSE "idle"]]
  /\ tick_lock' = FALSE

(* The periodic timer fires on a free thread.  A tick that finds the        *)
(* manager stopping returns at once, which changes nothing.                 *)
Tick(t) ==
  /\ t # Owner
  /\ At(t, "idle")
  /\ phase = "started"
  /\ ~stopping
  /\ tick' = [tick EXCEPT ![t].at = "entered"]
  /\ UNCHANGED <<devices, phase, stopping, tick_lock, observations, published, baseline,
                error_streak, events, dropped, consumer, budget>>

(* A mutated guard that does not look at the lock.                          *)
Guard_Always(t) ==
  /\ At(t, "entered")
  /\ tick' = [tick EXCEPT ![t].at = "observing"]
  /\ tick_lock' = TRUE
  /\ UNCHANGED <<devices, phase, stopping, observations, published, baseline,
                error_streak, events, dropped, consumer, budget>>

(* TickGuard: an overlapping tick is skipped.                               *)
Guard(t) ==
  /\ At(t, "entered")
  /\ tick' = [tick EXCEPT ![t] = IF tick_lock
                                 THEN [Idle EXCEPT !.at = IF t = Owner THEN "failed" ELSE "idle"]
                                 ELSE [@ EXCEPT !.at = "observing"]]
  /\ tick_lock' = TRUE
  /\ UNCHANGED <<devices, phase, stopping, observations, published, baseline,
                error_streak, events, dropped, consumer, budget>>

Full == Len(events) = EventCapacity

(* send_event: an event carries the mark of an earlier rejected one; a full *)
(* channel rejects it.                                                      *)
Sent(event) ==
  IF Full
  THEN events' = events /\ dropped' = TRUE
  ELSE /\ events' = Append(events, [event EXCEPT !.dropped_earlier = dropped])
       /\ dropped' = FALSE

Event(kind, states) == [kind |-> kind, states |-> states, dropped_earlier |-> FALSE]

(* observe() returns a valid snapshot.                                      *)
Observe(t) ==
  /\ At(t, "observing")
  /\ observations < MaxObservations
  /\ observations' = observations + 1
  /\ tick' = [tick EXCEPT ![t] = [at |-> "observed", revision |-> observations + 1,
                                  states |-> devices]]
  /\ UNCHANGED <<devices, phase, stopping, tick_lock, published, baseline, error_streak,
                events, dropped, consumer, budget>>

(* observe() fails, throws or returns an invalid snapshot: record_failure   *)
(* reports the first failure of a streak.                                   *)
ObserveFails(t) ==
  /\ At(t, "observing")
  /\ budget.fault > 0
  /\ budget' = [budget EXCEPT !.fault = @ - 1]
  /\ error_streak' = TRUE
  /\ IF error_streak THEN UNCHANGED <<events, dropped>>
                     ELSE Sent(Event("ERROR_STREAK_STARTED", NoStates))
  /\ Finish(t, "failed")
  /\ UNCHANGED <<devices, phase, stopping, observations, published, baseline, consumer>>

(* try_publish succeeds; record_success closes a streak.                    *)
Publish(t) ==
  /\ At(t, "observed")
  /\ published' = [revision |-> tick[t].revision, states |-> tick[t].states]
  /\ error_streak' = FALSE
  /\ IF error_streak THEN Sent(Event("ERROR_STREAK_ENDED", NoStates))
                     ELSE UNCHANGED <<events, dropped>>
  /\ tick' = [tick EXCEPT ![t].at = "published"]
  /\ UNCHANGED <<devices, phase, stopping, tick_lock, observations, baseline, consumer, budget>>

(* A reader holds the slot: try_publish is rejected.  Before start()        *)
(* returned there is no reader.                                             *)
PublishRejected(t) ==
  /\ At(t, "observed")
  /\ phase # "starting"
  /\ budget.fault > 0
  /\ budget' = [budget EXCEPT !.fault = @ - 1]
  /\ Finish(t, "ok")
  /\ UNCHANGED <<devices, phase, stopping, observations, published, baseline, error_streak,
                events, dropped, consumer>>

(* A mutated report: the baseline advances although the event is rejected.  *)
Report_Forgets(t) ==
  LET states == published.states IN
  /\ At(t, "published")
  /\ baseline' = states
  /\ IF baseline # NoStates /\ states # baseline
     THEN Sent(Event("GPU_STATE_CHANGED", states))
     ELSE UNCHANGED <<events, dropped>>
  /\ Finish(t, "ok")
  /\ UNCHANGED <<devices, phase, stopping, observations, published, error_streak, consumer, budget>>

(* The difference to the baseline is reported.  The first baseline is set   *)
(* silently, and a rejected event leaves it where it was.                   *)
Report(t) ==
  LET states == published.states
      change == baseline # NoStates /\ states # baseline
  IN  /\ At(t, "published")
      /\ baseline' = IF change /\ Full THEN baseline ELSE states
      /\ IF change THEN Sent(Event("GPU_STATE_CHANGED", states))
                   ELSE UNCHANGED <<events, dropped>>
      /\ Finish(t, "ok")
      /\ UNCHANGED <<devices, phase, stopping, observations, published, error_streak,
                    consumer, budget>>

(* try_load fails after the publication: nothing is reported in this tick.  *)
LoadFails(t) ==
  /\ At(t, "published")
  /\ phase # "starting"
  /\ budget.fault > 0
  /\ budget' = [budget EXCEPT !.fault = @ - 1]
  /\ Finish(t, "ok")
  /\ UNCHANGED <<devices, phase, stopping, observations, published, baseline, error_streak,
                events, dropped, consumer>>

-----------------------------------------------------------------------------
(* The owner: start() and stop().                                           *)

Start ==
  /\ phase = "new"
  /\ phase' = "starting"
  /\ tick' = [tick EXCEPT ![Owner].at = "entered"]
  /\ UNCHANGED <<devices, stopping, tick_lock, observations, published, baseline, error_streak,
                events, dropped, consumer, budget>>

(* The first sample is over: the timer is submitted, or start() failed and  *)
(* may be tried again.  The job manager, started next, knows the baseline   *)
(* and has its first scheduling run ahead.                                  *)
Started(accepted) ==
  /\ phase = "starting"
  /\ tick[Owner].at \in {"ok", "failed"}
  /\ phase' = IF At(Owner, "ok") /\ accepted THEN "started" ELSE "new"
  /\ IF phase' = "started" THEN reported' = baseline /\ state_changed' = TRUE
                          ELSE UNCHANGED <<reported, state_changed>>
  /\ tick' = [tick EXCEPT ![Owner] = Idle]
  /\ UNCHANGED <<devices, stopping, tick_lock, observations, published, baseline, error_streak,
                events, dropped, seen, budget>>

(* stop(): the flag first, then the timer is cancelled.                     *)
Stop ==
  /\ phase \in {"new", "started"}
  /\ stopping' = TRUE
  /\ phase' = IF phase = "started" THEN "joining" ELSE "stopped"
  /\ UNCHANGED <<devices, tick_lock, tick, observations, published, baseline, error_streak,
                events, dropped, consumer, budget>>

(* The bounded join: stop() returns once the lock is free, or times out.    *)
Join ==
  /\ phase = "joining"
  /\ phase' = IF tick_lock THEN "timed_out" ELSE "stopped"
  /\ UNCHANGED <<devices, stopping, tick_lock, tick, observations, published, baseline,
                error_streak, events, dropped, consumer, budget>>

-----------------------------------------------------------------------------
(* The consumer: the job manager's worker, once it is started.              *)

(* drain_gpu_events: one event.                                             *)
Receive ==
  /\ events # <<>>
  /\ phase = "started"
  /\ events' = Tail(events)
  /\ IF Head(events).kind = "GPU_STATE_CHANGED"
     THEN state_changed' = TRUE /\ reported' = Head(events).states
     ELSE UNCHANGED <<state_changed, reported>>
  /\ UNCHANGED <<devices, sampler, dropped, seen, budget>>

(* schedule_now reads the newest observation: after the events are drained  *)
(* if one was a change, or for any other trigger.                           *)
Schedule ==
  /\ phase = "started"
  /\ seen' = published.states
  /\ state_changed' = IF events = <<>> THEN FALSE ELSE state_changed
  /\ UNCHANGED <<devices, sampler, events, dropped, reported, budget>>

(* schedule_now cannot load the observation: the run is skipped and nothing *)
(* retries it.                                                              *)
ScheduleUnread ==
  /\ phase = "started"
  /\ events = <<>> /\ state_changed
  /\ budget.fault > 0
  /\ budget' = [budget EXCEPT !.fault = @ - 1]
  /\ state_changed' = FALSE
  /\ UNCHANGED <<devices, sampler, events, dropped, reported, seen>>

Next ==
  \/ \E g \in GpuUuid, state \in DeviceState : DeviceChange(g, state)
  \/ \E t \in Ticker :
       \/ Tick(t) \/ Guard(t)
       \/ Observe(t) \/ ObserveFails(t)
       \/ Publish(t) \/ PublishRejected(t)
       \/ Report(t) \/ LoadFails(t)
  \/ Start
  \/ \E accepted \in BOOLEAN : Started(accepted)
  \/ Stop
  \/ Join
  \/ Receive
  \/ Schedule
  \/ ScheduleUnread

Spec == Init /\ [][Next]_vars

-----------------------------------------------------------------------------
(* Properties.                                                              *)

States == DeviceMap \cup {NoStates}

TickState ==
  [at : {"idle", "entered", "observing", "observed", "published", "ok", "failed"},
   revision : Nat, states : States]

GpuManagerEvent ==
  [kind : {"GPU_STATE_CHANGED", "ERROR_STREAK_STARTED", "ERROR_STREAK_ENDED"},
   states : States, dropped_earlier : BOOLEAN]

(* The type invariant.                                                      *)
TypeOK ==
  /\ devices \in DeviceMap
  /\ phase \in {"new", "starting", "started", "joining", "stopped", "timed_out"}
  /\ stopping \in BOOLEAN /\ tick_lock \in BOOLEAN /\ error_streak \in BOOLEAN
  /\ tick \in [Ticker -> TickState]
  /\ observations \in Nat
  /\ published \in [revision : Nat, states : States]
  /\ baseline \in States /\ reported \in States /\ seen \in States
  /\ dropped \in BOOLEAN /\ state_changed \in BOOLEAN
  /\ events \in Seq(GpuManagerEvent) /\ Len(events) <= EventCapacity
  /\ budget \in [change : Nat, fault : Nat]

(* Overlapping ticks never publish out of order: an observation is never    *)
(* replaced by an older one.                                                *)
PublishedInOrder == [][published'.revision >= published.revision]_vars

(* No tick runs, no event is queued and no scheduling run is due.           *)
AtRest ==
  /\ phase = "started"
  /\ \A t \in Ticker : At(t, "idle")
  /\ events = <<>> /\ ~state_changed

(* The last scheduling run used an outdated observation, and the next       *)
(* sample has nothing to report, only when the devices are as they were     *)
(* last reported (the change was undone, or the run for the report could    *)
(* not load it): no rejected event, failed publication or failed load hides *)
(* a change that lasts.                                                     *)
StaleOnlyAfterRevert ==
  AtRest /\ seen # published.states /\ baseline = published.states
    => reported = published.states

=============================================================================
