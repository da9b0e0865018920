--------------------------- MODULE GpuManagerProofs -------------------------
(* Proofs about GpuManager: observations are published in order however     *)
(* ticks overlap, and no lasting change goes unreported.                    *)
EXTENDS GpuManager, TLAPS

Sampling == {"observing", "observed", "published"}

(* The lock admits one tick to sample_once, and what it observed is newer   *)
(* than what is published.                                                  *)
OneSampler ==
  /\ \A t \in Ticker : tick[t].at \in Sampling => tick_lock
  /\ \A s, t \in Ticker : tick[s].at \in Sampling /\ tick[t].at \in Sampling => s = t
  /\ \A t \in Ticker : tick[t].at = "observed" =>
       /\ published.revision < tick[t].revision
       /\ tick[t].revision <= observations
       /\ tick[t].states \in DeviceMap
  /\ \A t \in Ticker : tick[t].at = "published" => published.states \in DeviceMap
  /\ published.revision <= observations

Change(e) == e.kind = "GPU_STATE_CHANGED"

NoChange(es) == \A i \in DOMAIN es : ~Change(es[i])

(* The newest change event of a channel carries the device map b.           *)
NewestCarries(es, b) ==
  \A i \in DOMAIN es :
    Change(es[i]) /\ (\A k \in DOMAIN es : k > i => ~Change(es[k])) => es[i].states = b

(* The baseline is what the consumer was told last: the newest change event *)
(* in the channel or, with none there, the last one received.  The manager  *)
(* is only started with a baseline.                                         *)
BaselineIsTold ==
  /\ NewestCarries(events, baseline)
  /\ phase = "started" /\ NoChange(events) => reported = baseline
  /\ NoChange(events) \/ baseline # NoStates
  /\ phase = "started" \/ tick[Owner].at = "ok" => baseline # NoStates
  /\ tick[Owner].at # "idle" => phase = "starting"

(* What a tick becomes when it finishes or moves on.                        *)
LEMMA TickMoves ==
  ASSUME NEW v \in TickState,
         NEW at \in {"idle", "entered", "observing", "observed", "published", "ok", "failed"}
  PROVE  [v EXCEPT !.at = at] \in TickState
BY DEF TickState

(* A thread that is in no tick.                                             *)
LEMMA IdleIsTick == Idle \in TickState
BY DEF Idle, TickState, States

(* A sequence below its bound takes one more element.                       *)
LEMMA AppendFits ==
  ASSUME NEW S, NEW s \in Seq(S), NEW x \in S, NEW n \in Nat, Len(s) < n
  PROVE  Append(s, x) \in Seq(S) /\ Len(Append(s, x)) <= n
OBVIOUS

(* The event channel after send_event.                                      *)
LEMMA SentIsTyped ==
  ASSUME TypeOK, NEW e \in GpuManagerEvent, Sent(e)
  PROVE  /\ events' \in Seq(GpuManagerEvent)
         /\ Len(events') <= EventCapacity
         /\ dropped' \in BOOLEAN
<1>1. CASE Full
  BY <1>1 DEF Sent, TypeOK
<1>2. CASE ~Full
  <2>1. [e EXCEPT !.dropped_earlier = dropped] \in GpuManagerEvent
    BY DEF GpuManagerEvent, TypeOK
  <2>2. PICK marked \in GpuManagerEvent : events' = Append(events, marked) /\ dropped' = FALSE
    BY <1>2, <2>1 DEF Sent
  <2>3. Len(events) < EventCapacity
    BY <1>2, SamplerAssumption DEF Full, TypeOK
  <2>4. events \in Seq(GpuManagerEvent) /\ EventCapacity \in Nat
    BY SamplerAssumption DEF TypeOK
  <2>5. /\ Append(events, marked) \in Seq(GpuManagerEvent)
        /\ Len(Append(events, marked)) <= EventCapacity
    BY <2>3, <2>4, AppendFits
  <2> QED
    BY <2>2, <2>5, Zenon
<1> QED
  BY <1>1, <1>2

(* The events the sampler sends.                                            *)
LEMMA EventIsTyped ==
  ASSUME NEW states \in States,
         NEW kind \in {"GPU_STATE_CHANGED", "ERROR_STREAK_STARTED", "ERROR_STREAK_ENDED"}
  PROVE  Event(kind, states) \in GpuManagerEvent
BY DEF Event, GpuManagerEvent

(* The type invariant: every step of the sampler, of its owner and of its   *)
(* consumer keeps the state well typed, the event channel within capacity.  *)
LEMMA TypeStep ==
  ASSUME TypeOK, [Next]_vars
  PROVE  TypeOK'
<1> USE SamplerAssumption DEF TypeOK
<1>a. NoStates \in States
  BY DEF States
<1>b. ASSUME NEW b \in [change : Nat, fault : Nat]
      PROVE  /\ b.change > 0 => [b EXCEPT !.change = @ - 1] \in [change : Nat, fault : Nat]
             /\ b.fault > 0 => [b EXCEPT !.fault = @ - 1] \in [change : Nat, fault : Nat]
  OBVIOUS
<1>1. ASSUME NEW g \in GpuUuid, NEW state \in DeviceState, DeviceChange(g, state)
      PROVE  TypeOK'
  BY <1>1, <1>b DEF DeviceChange, DeviceMap, sampler, consumer
<1>2. ASSUME NEW t \in Ticker, Tick(t) PROVE TypeOK'
  <2>1. [tick[t] EXCEPT !.at = "entered"] \in TickState
    BY TickMoves
  <2> QED
    BY <1>2, <2>1 DEF Tick, At, consumer
<1>3. ASSUME NEW t \in Ticker, Guard(t) PROVE TypeOK'
  <2>1. /\ [Idle EXCEPT !.at = IF t = Owner THEN "failed" ELSE "idle"] \in TickState
        /\ [tick[t] EXCEPT !.at = "observing"] \in TickState
    BY TickMoves, IdleIsTick
  <2> QED
    BY <1>3, <2>1 DEF Guard, At, consumer
<1>4. ASSUME NEW t \in Ticker, Observe(t) PROVE TypeOK'
  <2>1. [at |-> "observed", revision |-> observations + 1, states |-> devices] \in TickState
    BY DEF TickState, States
  <2> QED
    BY <1>4, <2>1 DEF Observe, At, consumer
<1>c. ASSUME NEW t \in Ticker, NEW code \in {"ok", "failed"}, Finish(t, code)
      PROVE  tick' \in [Ticker -> TickState] /\ tick_lock' \in BOOLEAN
  <2>1. [Idle EXCEPT !.at = IF t = Owner THEN code ELSE "idle"] \in TickState
    BY TickMoves, IdleIsTick
  <2> QED
    BY <1>c, <2>1 DEF Finish
<1>5. ASSUME NEW t \in Ticker, ObserveFails(t) PROVE TypeOK'
  <2>1. tick' \in [Ticker -> TickState] /\ tick_lock' \in BOOLEAN
    BY <1>5, <1>c DEF ObserveFails
  <2>2. /\ events' \in Seq(GpuManagerEvent)
        /\ Len(events') <= EventCapacity
        /\ dropped' \in BOOLEAN
    BY <1>5, <1>a, SentIsTyped, EventIsTyped DEF ObserveFails
  <2> QED
    BY <1>5, <2>1, <2>2, <1>b DEF ObserveFails, At, consumer
<1>6. ASSUME NEW t \in Ticker, Publish(t) PROVE TypeOK'
  <2>0. tick[t] \in TickState
    OBVIOUS
  <2>1. [tick[t] EXCEPT !.at = "published"] \in TickState
    BY <2>0, TickMoves
  <2>3. published' \in [revision : Nat, states : States]
    BY <1>6, <2>0 DEF Publish, TickState
  <2>2. /\ events' \in Seq(GpuManagerEvent)
        /\ Len(events') <= EventCapacity
        /\ dropped' \in BOOLEAN
    BY <1>6, <1>a, SentIsTyped, EventIsTyped DEF Publish
  <2> QED
    BY <1>6, <2>1, <2>2, <2>3 DEF Publish, At, consumer
<1>7. ASSUME NEW t \in Ticker, PublishRejected(t) PROVE TypeOK'
  <2>1. tick' \in [Ticker -> TickState] /\ tick_lock' \in BOOLEAN
    BY <1>7, <1>c DEF PublishRejected
  <2> QED
    BY <1>7, <2>1, <1>b DEF PublishRejected, At, consumer
<1>8. ASSUME NEW t \in Ticker, Report(t) PROVE TypeOK'
  <2>1. tick' \in [Ticker -> TickState] /\ tick_lock' \in BOOLEAN
    BY <1>8, <1>c DEF Report
  <2>2. /\ events' \in Seq(GpuManagerEvent)
        /\ Len(events') <= EventCapacity
        /\ dropped' \in BOOLEAN
    BY <1>8, SentIsTyped, EventIsTyped DEF Report
  <2> QED
    BY <1>8, <2>1, <2>2 DEF Report, At, consumer
<1>9. ASSUME NEW t \in Ticker, LoadFails(t) PROVE TypeOK'
  <2>1. tick' \in [Ticker -> TickState] /\ tick_lock' \in BOOLEAN
    BY <1>9, <1>c DEF LoadFails
  <2> QED
    BY <1>9, <2>1, <1>b DEF LoadFails, At, consumer
<1>10. CASE Start
  <2>1. [tick[Owner] EXCEPT !.at = "entered"] \in TickState
    BY TickMoves
  <2> QED
    BY <1>10, <2>1 DEF Start, consumer
<1>11. ASSUME NEW accepted \in BOOLEAN, Started(accepted) PROVE TypeOK'
  BY <1>11, IdleIsTick DEF Started, At
<1>12. CASE Stop \/ Join
  BY <1>12 DEF Stop, Join, consumer
<1>13. CASE Receive
  <2>1. events # <<>> => /\ Head(events) \in GpuManagerEvent
                         /\ Tail(events) \in Seq(GpuManagerEvent)
                         /\ Len(Tail(events)) = Len(events) - 1
    OBVIOUS
  <2>2. /\ events' \in Seq(GpuManagerEvent) /\ Len(events') <= EventCapacity
        /\ Head(events).states \in States
    BY <1>13, <2>1 DEF Receive, GpuManagerEvent
  <2>3. reported' \in States /\ state_changed' \in BOOLEAN
    BY <1>13, <2>2 DEF Receive
  <2> QED
    BY <1>13, <2>2, <2>3 DEF Receive, sampler
<1>14. CASE Schedule \/ ScheduleUnread
  BY <1>14, <1>b DEF Schedule, ScheduleUnread, sampler
<1>15. CASE UNCHANGED vars
  BY <1>15 DEF vars, sampler, consumer
<1> QED
  BY <1>1, <1>2, <1>3, <1>4, <1>5, <1>6, <1>7, <1>8, <1>9, <1>10, <1>11, <1>12, <1>13, <1>14,
     <1>15 DEF Next

(* The state the constructor leaves is well typed.                          *)
LEMMA InitIsTyped == Init => TypeOK
<1>1. NoStates \in States /\ <<>> \in Seq(GpuManagerEvent) /\ Len(<<>>) <= EventCapacity
  BY SamplerAssumption DEF States
<1>2. /\ [change |-> MaxChanges, fault |-> MaxFaults] \in [change : Nat, fault : Nat]
      /\ [revision |-> 0, states |-> NoStates] \in [revision : Nat, states : States]
      /\ 0 \in Nat
  BY <1>1, SamplerAssumption
<1>3. [t \in Ticker |-> Idle] \in [Ticker -> TickState]
  BY IdleIsTick
<1> QED
  BY <1>1, <1>2, <1>3, Zenon DEF Init, TypeOK

(* The reachable states of the sampler are well typed, for any number of    *)
(* threads and devices and any capacity.                                    *)
THEOREM SamplerTypeCorrect == Spec => []TypeOK
BY InitIsTyped, TypeStep, PTL DEF Spec

-----------------------------------------------------------------------------
(* Order of publication.                                                    *)

(* Every step keeps one sampler at a time.                                  *)
LEMMA OneSamplerStep ==
  ASSUME TypeOK, OneSampler, [Next]_vars
  PROVE  OneSampler'
<1> USE SamplerAssumption DEF OneSampler, Sampling
<1>t. tick \in [Ticker -> TickState] /\ \A t \in Ticker : tick[t] \in TickState
  BY DEF TypeOK
<1>n. observations \in Nat /\ published.revision \in Nat
  BY DEF TypeOK
<1>1. ASSUME NEW g \in GpuUuid, NEW state \in DeviceState, DeviceChange(g, state)
      PROVE  OneSampler'
  BY <1>1 DEF DeviceChange, sampler
<1>2. ASSUME NEW t \in Ticker, Tick(t) PROVE OneSampler'
  BY <1>2, <1>t DEF Tick, At, TickState
<1>3. ASSUME NEW t \in Ticker, Guard(t) PROVE OneSampler'
  BY <1>3, <1>t DEF Guard, At, Idle, TickState
<1>4. ASSUME NEW t \in Ticker, Observe(t) PROVE OneSampler'
  BY <1>4, <1>t, <1>n DEF Observe, At, TickState, TypeOK
<1>f. ASSUME NEW t \in Ticker, NEW code \in {"ok", "failed"}, Finish(t, code),
             tick[t].at \in Sampling, UNCHANGED <<published, observations>>
      PROVE  OneSampler'
  BY <1>f, <1>t DEF Finish, Idle, TickState
<1>5. ASSUME NEW t \in Ticker, ObserveFails(t) \/ PublishRejected(t) \/ Report(t) \/ LoadFails(t)
      PROVE  OneSampler'
  BY <1>5, <1>f DEF ObserveFails, PublishRejected, Report, LoadFails, At
<1>6. ASSUME NEW t \in Ticker, Publish(t) PROVE OneSampler'
  BY <1>6, <1>t, <1>n DEF Publish, At, TickState
<1>7. CASE Start
  BY <1>7, <1>t DEF Start, TickState
<1>8. ASSUME NEW accepted \in BOOLEAN, Started(accepted) PROVE OneSampler'
  BY <1>8, <1>t DEF Started, Idle, TickState
<1>u. ASSUME UNCHANGED <<tick, tick_lock, published, observations>> PROVE OneSampler'
  BY <1>u
<1>9. CASE Stop \/ Join \/ Receive \/ Schedule \/ ScheduleUnread
  BY <1>9, <1>u DEF Stop, Join, Receive, Schedule, ScheduleUnread, sampler
<1>10. CASE UNCHANGED vars
  BY <1>10 DEF vars, sampler
<1> QED
  BY <1>1, <1>2, <1>3, <1>4, <1>5, <1>6, <1>7, <1>8, <1>9, <1>10 DEF Next

(* Whatever ticks overlap, an observation is never replaced by an older     *)
(* one: TickGuard keeps observation and publication in one order.           *)
THEOREM ObservationsStayInOrder == Spec => PublishedInOrder
<1>1. Init => TypeOK /\ OneSampler
  BY InitIsTyped DEF Init, OneSampler, Sampling, Idle
<1>2. TypeOK /\ OneSampler /\ [Next]_vars => (TypeOK /\ OneSampler)'
  BY TypeStep, OneSamplerStep
<1>3. TypeOK /\ OneSampler /\ [Next]_vars => [published'.revision >= published.revision]_vars
  <2> SUFFICES ASSUME TypeOK, OneSampler, [Next]_vars
               PROVE  published'.revision >= published.revision
    OBVIOUS
  <2>1. ASSUME NEW t \in Ticker, Publish(t) PROVE published'.revision >= published.revision
    BY <2>1 DEF Publish, At, OneSampler, TypeOK, TickState
  <2>2. CASE UNCHANGED published
    BY <2>2 DEF TypeOK
  <2> QED
    BY <2>1, <2>2 DEF Next, vars, sampler, DeviceChange, Tick, Guard, Observe, ObserveFails,
       PublishRejected, Report, LoadFails, Start, Started, Stop, Join, Receive, Schedule,
       ScheduleUnread
<1> QED
  BY <1>1, <1>2, <1>3, PTL DEF Spec, PublishedInOrder

-----------------------------------------------------------------------------
(* Reports of changes.                                                      *)

(* send_event leaves the channel or appends an event of the same kind and   *)
(* content.                                                                 *)
LEMMA SentAppends ==
  ASSUME TypeOK, NEW e \in GpuManagerEvent, Sent(e)
  PROVE  \/ Full /\ events' = events
         \/ ~Full /\ \E marked \in GpuManagerEvent :
              marked.kind = e.kind /\ marked.states = e.states /\ events' = Append(events, marked)
<1>1. CASE Full
  BY <1>1 DEF Sent
<1>2. CASE ~Full
  <2> DEFINE marked == [e EXCEPT !.dropped_earlier = dropped]
  <2>1. marked \in GpuManagerEvent /\ marked.kind = e.kind /\ marked.states = e.states
    BY DEF GpuManagerEvent, TypeOK
  <2>2. events' = Append(events, marked)
    BY <1>2 DEF Sent
  <2> QED
    BY <1>2, <2>1, <2>2
<1> QED
  BY <1>1, <1>2

(* An event of another kind does not change what was told.                  *)
LEMMA OtherAppended ==
  ASSUME NEW es \in Seq(GpuManagerEvent), NEW e \in GpuManagerEvent, NEW b,
         NewestCarries(es, b), ~Change(e)
  PROVE  /\ NewestCarries(Append(es, e), b)
         /\ NoChange(Append(es, e)) <=> NoChange(es)
<1> DEFINE as == Append(es, e)  n == Len(es) + 1
<1>1. /\ n \in DOMAIN as /\ as[n] = e
      /\ \A i \in DOMAIN as : i = n \/ i \in DOMAIN es
      /\ \A i \in DOMAIN es : i \in DOMAIN as /\ as[i] = es[i]
  OBVIOUS
<1> HIDE DEF as, n
<1>2. NoChange(as) <=> NoChange(es)
  BY <1>1 DEF NoChange
<1>3. NewestCarries(as, b)
  BY <1>1 DEF NewestCarries
<1> QED
  BY <1>2, <1>3 DEF as

(* A change event becomes the newest.                                       *)
LEMMA ChangeAppended ==
  ASSUME NEW es \in Seq(GpuManagerEvent), NEW e \in GpuManagerEvent, Change(e)
  PROVE  NewestCarries(Append(es, e), e.states) /\ ~NoChange(Append(es, e))
<1> DEFINE as == Append(es, e)  n == Len(es) + 1
<1>1. /\ n \in DOMAIN as /\ as[n] = e
      /\ \A i \in DOMAIN as : i = n \/ n > i
  OBVIOUS
<1> HIDE DEF as, n
<1>2. ~NoChange(as) /\ NewestCarries(as, e.states)
  BY <1>1 DEF NoChange, NewestCarries
<1> QED
  BY <1>2 DEF as

(* Receiving the oldest event.                                              *)
LEMMA OldestReceived ==
  ASSUME NEW es \in Seq(GpuManagerEvent), es # <<>>, NEW b, NewestCarries(es, b)
  PROVE  /\ NewestCarries(Tail(es), b)
         /\ NoChange(Tail(es)) /\ Change(Head(es)) => Head(es).states = b
         /\ NoChange(Tail(es)) /\ ~Change(Head(es)) => NoChange(es)
         /\ NoChange(es) => NoChange(Tail(es))
<1> DEFINE ts == Tail(es)
<1>1. /\ Head(es) = es[1] /\ 1 \in DOMAIN es
      /\ \A i \in DOMAIN es : i = 1 \/ (i - 1 \in DOMAIN ts /\ ts[i - 1] = es[i])
      /\ \A i \in DOMAIN ts : i \in Nat /\ i + 1 \in DOMAIN es /\ ts[i] = es[i + 1]
      /\ \A i \in DOMAIN es : i \in Nat
  OBVIOUS
<1> HIDE DEF ts
<1>2. NewestCarries(ts, b)
  <2> SUFFICES ASSUME NEW i \in DOMAIN ts, Change(ts[i]),
                      \A k \in DOMAIN ts : k > i => ~Change(ts[k])
               PROVE  ts[i].states = b
    BY DEF NewestCarries
  <2>1. i + 1 \in DOMAIN es /\ es[i + 1] = ts[i] /\ i \in Nat
    BY <1>1
  <2>2. \A k \in DOMAIN es : k > i + 1 => ~Change(es[k])
    <3> SUFFICES ASSUME NEW k \in DOMAIN es, k > i + 1 PROVE ~Change(es[k])
      OBVIOUS
    <3>1. k - 1 \in DOMAIN ts /\ ts[k - 1] = es[k] /\ k - 1 > i
      BY <1>1, <2>1
    <3> QED
      BY <3>1
  <2> QED
    BY <2>1, <2>2 DEF NewestCarries
<1>3. NoChange(ts) /\ Change(Head(es)) => Head(es).states = b
  <2> SUFFICES ASSUME NoChange(ts), Change(es[1]) PROVE es[1].states = b
    BY <1>1
  <2>1. \A k \in DOMAIN es : k > 1 => ~Change(es[k])
    <3> SUFFICES ASSUME NEW k \in DOMAIN es, k > 1 PROVE ~Change(es[k])
      OBVIOUS
    <3>1. k - 1 \in DOMAIN ts /\ ts[k - 1] = es[k]
      BY <1>1
    <3> QED
      BY <3>1 DEF NoChange
  <2> QED
    BY <1>1, <2>1 DEF NewestCarries
<1>4. NoChange(ts) /\ ~Change(Head(es)) => NoChange(es)
  BY <1>1 DEF NoChange
<1>5. NoChange(es) => NoChange(ts)
  BY <1>1 DEF NoChange
<1> QED
  BY <1>2, <1>3, <1>4, <1>5 DEF ts

(* Every step keeps the baseline told.                                      *)
LEMMA BaselineStep ==
  ASSUME TypeOK, OneSampler, BaselineIsTold, [Next]_vars
  PROVE  BaselineIsTold'
<1> USE SamplerAssumption DEF BaselineIsTold
<1>t. /\ tick \in [Ticker -> TickState] /\ \A t \in Ticker : tick[t] \in TickState
      /\ events \in Seq(GpuManagerEvent)
  BY DEF TypeOK
<1>n. NoStates \in States /\ \A d \in DeviceMap : d # NoStates
  BY NoStatesAssumption DEF States
(* A step that leaves the reports alone and moves one tick.                 *)
<1>m. ASSUME NEW t \in Ticker, NEW v \in TickState, tick' = [tick EXCEPT ![t] = v],
             t = Owner => v.at # "ok" /\ phase' = "starting",
             phase' # phase => t = Owner,
             UNCHANGED <<events, baseline, reported>>
      PROVE  BaselineIsTold'
  BY <1>m, <1>t
<1>1. ASSUME NEW g \in GpuUuid, NEW state \in DeviceState, DeviceChange(g, state)
      PROVE  BaselineIsTold'
  BY <1>1 DEF DeviceChange, sampler, consumer
<1>2. ASSUME NEW t \in Ticker, Tick(t) PROVE BaselineIsTold'
  <2>1. [tick[t] EXCEPT !.at = "entered"] \in TickState
    BY <1>t, TickMoves
  <2> QED
    BY <1>2, <1>m, <2>1 DEF Tick, consumer
<1>3. ASSUME NEW t \in Ticker, Guard(t) PROVE BaselineIsTold'
  <2>1. /\ [Idle EXCEPT !.at = IF t = Owner THEN "failed" ELSE "idle"] \in TickState
        /\ [tick[t] EXCEPT !.at = "observing"] \in TickState
    BY <1>t, TickMoves, IdleIsTick
  <2>2. PICK v \in TickState : tick' = [tick EXCEPT ![t] = v] /\ v.at # "ok"
    BY <1>3, <2>1 DEF Guard, TickState, Idle
  <2> QED
    BY <1>3, <1>m, <2>2 DEF Guard, At, consumer
<1>4. ASSUME NEW t \in Ticker, Observe(t) PROVE BaselineIsTold'
  <2> DEFINE sample == [at |-> "observed", revision |-> observations + 1, states |-> devices]
  <2>1. sample \in TickState /\ sample.at # "ok"
    BY DEF TickState, States, TypeOK
  <2>2. tick' = [tick EXCEPT ![t] = sample]
    BY <1>4 DEF Observe
  <2> QED
    BY <1>4, <1>m, <2>1, <2>2 DEF Observe, At, consumer
(* A streak event, or none, does not change what was told.                  *)
<1>s. ASSUME NEW kind \in {"ERROR_STREAK_STARTED", "ERROR_STREAK_ENDED"},
             Sent(Event(kind, NoStates)) \/ UNCHANGED events
      PROVE  NewestCarries(events', baseline) /\ (NoChange(events') <=> NoChange(events))
  <2>1. CASE UNCHANGED events
    BY <2>1
  <2>2. CASE Sent(Event(kind, NoStates))
    <3>1. Event(kind, NoStates) \in GpuManagerEvent /\ Event(kind, NoStates).kind = kind
      BY <1>n, EventIsTyped DEF Event
    <3>2. \/ events' = events
          \/ \E marked \in GpuManagerEvent : ~Change(marked) /\ events' = Append(events, marked)
      BY <2>2, <3>1, SentAppends DEF Change
    <3> QED
      BY <3>2, <1>t, OtherAppended
  <2> QED
    BY <1>s, <2>1, <2>2
(* The end of a tick that reports no change.                                *)
<1>f. ASSUME NEW t \in Ticker, NEW code \in {"ok", "failed"}, Finish(t, code),
             t = Owner => code = "failed", tick[t].at \in Sampling,
             NewestCarries(events', baseline), NoChange(events') <=> NoChange(events),
             UNCHANGED <<phase, baseline, reported>>
      PROVE  BaselineIsTold'
  BY <1>f, <1>t DEF Finish, Idle, Sampling
<1>5. ASSUME NEW t \in Ticker, ObserveFails(t) PROVE BaselineIsTold'
  BY <1>5, <1>f, <1>s DEF ObserveFails, At, Sampling, consumer
<1>6. ASSUME NEW t \in Ticker, Publish(t) PROVE BaselineIsTold'
  <2>1. NewestCarries(events', baseline) /\ (NoChange(events') <=> NoChange(events))
    BY <1>6, <1>s DEF Publish
  <2>2. tick'[Owner].at = tick[Owner].at \/ (t = Owner /\ tick'[Owner].at = "published")
    BY <1>6, <1>t DEF Publish, TickState
  <2> QED
    BY <1>6, <2>1, <2>2 DEF Publish, At, consumer
<1>7. ASSUME NEW t \in Ticker, PublishRejected(t) \/ LoadFails(t) PROVE BaselineIsTold'
  BY <1>7, <1>f DEF PublishRejected, LoadFails, At, Sampling, consumer
<1>8. ASSUME NEW t \in Ticker, Report(t) PROVE BaselineIsTold'
  <2> DEFINE states == published.states
             change == baseline # NoStates /\ states # baseline
  <2>1. states \in DeviceMap /\ states \in States /\ states # NoStates
    BY <1>8, <1>n DEF Report, At, OneSampler, States
  <2>2. baseline' # NoStates /\ UNCHANGED <<phase, reported>>
    BY <1>8, <2>1 DEF Report, consumer
  <2>3. tick'[Owner].at # "idle" => phase' = "starting"
    BY <1>8, <1>t DEF Report, At, Finish, Idle
  <2>4. CASE ~change
    <3>1. events' = events /\ baseline' = states
      BY <1>8, <2>4 DEF Report
    <3>2. baseline = states \/ baseline = NoStates
      BY <2>4
    <3>3. CASE baseline = states
      BY <3>1, <3>3, <2>2, <2>3
    <3>4. CASE baseline = NoStates
      <4>1. NoChange(events) /\ phase # "started"
        BY <3>4
      <4>2. NewestCarries(events, states)
        BY <4>1 DEF NoChange, NewestCarries
      <4> QED
        BY <3>1, <4>1, <4>2, <2>2, <2>3
    <3> QED
      BY <3>2, <3>3, <3>4
  <2>5. CASE change /\ Full
    <3>1. baseline' = baseline
      BY <1>8, <2>5 DEF Report
    <3>2. events' = events
      BY <1>8, <2>5 DEF Report, Sent
    <3> QED
      BY <3>1, <3>2, <2>2, <2>3
  <2>6. CASE change /\ ~Full
    <3>1. baseline' = states /\ Sent(Event("GPU_STATE_CHANGED", states))
      BY <1>8, <2>6 DEF Report
    <3>2. /\ Event("GPU_STATE_CHANGED", states) \in GpuManagerEvent
          /\ Event("GPU_STATE_CHANGED", states).kind = "GPU_STATE_CHANGED"
          /\ Event("GPU_STATE_CHANGED", states).states = states
      BY <2>1, EventIsTyped DEF Event
    <3>3. PICK marked \in GpuManagerEvent :
            Change(marked) /\ marked.states = states /\ events' = Append(events, marked)
      BY <2>6, <3>1, <3>2, SentAppends DEF Change
    <3>4. NewestCarries(events', states) /\ ~NoChange(events')
      BY <3>3, <1>t, ChangeAppended
    <3> QED
      BY <3>1, <3>4, <2>2, <2>3
  <2> QED
    BY <2>4, <2>5, <2>6
<1>9. CASE Start
  BY <1>9, <1>t DEF Start, consumer, TickState
<1>10. ASSUME NEW accepted \in BOOLEAN, Started(accepted) PROVE BaselineIsTold'
  BY <1>10, <1>t DEF Started, Idle, At
<1>11. CASE Stop \/ Join
  BY <1>11 DEF Stop, Join, consumer
<1>12. CASE Receive
  <2>1. events # <<>> /\ events' = Tail(events) /\ UNCHANGED <<phase, tick, baseline>>
    BY <1>12 DEF Receive, sampler
  <2>2. /\ NewestCarries(Tail(events), baseline)
        /\ NoChange(Tail(events)) /\ Change(Head(events)) => Head(events).states = baseline
        /\ NoChange(Tail(events)) /\ ~Change(Head(events)) => NoChange(events)
        /\ NoChange(events) => NoChange(Tail(events))
    BY <2>1, <1>t, OldestReceived
  <2>3. reported' = IF Change(Head(events)) THEN Head(events).states ELSE reported
    BY <1>12 DEF Receive, Change
  <2> QED
    BY <2>1, <2>2, <2>3
<1>13. CASE Schedule \/ ScheduleUnread \/ UNCHANGED vars
  BY <1>13 DEF Schedule, ScheduleUnread, vars, sampler, consumer
<1> QED
  BY <1>1, <1>2, <1>3, <1>4, <1>5, <1>6, <1>7, <1>8, <1>9, <1>10, <1>11, <1>12, <1>13 DEF Next

(* No rejected event, failed publication or failed load hides a change of   *)
(* the devices that lasts, for any number of threads, devices and faults    *)
(* and any capacity of the channel.                                         *)
THEOREM LastingChangesAreReported == Spec => []StaleOnlyAfterRevert
<1>1. Init => TypeOK /\ OneSampler /\ BaselineIsTold
  <2> SUFFICES ASSUME Init PROVE TypeOK /\ OneSampler /\ BaselineIsTold
    OBVIOUS
  <2>1. TypeOK
    BY InitIsTyped
  <2>2. OneSampler
    BY DEF Init, OneSampler, Sampling, Idle
  <2>3. BaselineIsTold
    BY SamplerAssumption DEF Init, BaselineIsTold, NewestCarries, NoChange, Idle
  <2> QED
    BY <2>1, <2>2, <2>3
<1>2. TypeOK /\ OneSampler /\ BaselineIsTold /\ [Next]_vars
        => (TypeOK /\ OneSampler /\ BaselineIsTold)'
  BY TypeStep, OneSamplerStep, BaselineStep
<1>3. BaselineIsTold => StaleOnlyAfterRevert
  BY DEF BaselineIsTold, StaleOnlyAfterRevert, AtRest, NoChange
<1> QED
  BY <1>1, <1>2, <1>3, PTL DEF Spec
=============================================================================
