--------------------------- MODULE AsyncThrottler ---------------------------
(***************************************************************************)
(* The throttler every web request goes through (core/api_throttler).      *)
(*                                                                         *)
(* A request names a limit id and waits in acquire until its own limit and *)
(* all limits linked to it have capacity; then it is logged under each of  *)
(* them and sent.  The lock is never held across an await, so one attempt  *)
(* of acquire (flush, check and append) is one step of the event loop.     *)
(*                                                                         *)
(* Time passes in ticks, and a log entry has an age instead of a timestamp.*)
(* The variables granted, inFlight and seen are not in the code: they      *)
(* record what was let through, how long it travels, and what the exchange *)
(* has counted.                                                            *)
(***************************************************************************)
EXTENDS Naturals, Sequences, FiniteSets, SequencesExt

CONSTANTS
  Ids,         \* The limit ids in use.
  Limits,      \* The configured ones.
  RawLimit,    \* RateLimit.limit of each.
  SharePct,    \* rate_limits_share_pct: the part of each limit to use.
  Interval,    \* RateLimit.time_interval of each, in ticks.
  Margin,      \* safety_margin_pct of that interval, in ticks.
  Weight,      \* RateLimit.weight of each.
  Links,       \* RateLimit.linked_limits of each: a sequence of [id, weight].
  Requests,    \* The tasks that make requests.
  Path,        \* The limit id each task asks for, configured or not.
  MaxDelay,    \* Bound: how long a request travels to the exchange, in ticks.
  MaxCalls     \* Bound: the calls of one task.

ASSUME ThrottlerAssumption ==
  /\ Limits \subseteq Ids
  /\ RawLimit \in [Limits -> Nat \ {0}]
  /\ SharePct \in 1..100
  /\ Interval \in [Limits -> Nat \ {0}]
  /\ Margin \in [Limits -> Nat]
  /\ Weight \in [Limits -> Nat \ {0}]
  /\ Links \in [Limits -> Seq([id : Ids, weight : Nat \ {0}])]
  /\ IsFiniteSet(Requests)
  /\ Path \in [Requests -> Ids]
  /\ MaxDelay \in Nat /\ MaxCalls \in Nat

(* No request travels longer than the safety margin.                        *)
ASSUME DelayAssumption == \A l \in Limits : MaxDelay <= Margin[l]

(* The constants modules of the connectors link a limit to others, and to   *)
(* each of them once.                                                       *)
ASSUME LinkAssumption ==
  \A l \in Limits : \A i, j \in DOMAIN Links[l] :
    /\ Links[l][i].id # l
    /\ Links[l][i].id = Links[l][j].id => i = j

VARIABLES
  phase,     \* Where each task is: idle, waiting in acquire, or sent.
  calls,     \* The calls of each task so far.
  logs,      \* _task_logs.
  granted,   \* Weight let through under each limit, in the last so many ticks.
  inFlight,  \* How long the request of a task has travelled.
  seen       \* Weight that reached the exchange, likewise.

vars == <<phase, calls, logs, granted, inFlight, seen>>

-----------------------------------------------------------------------------
(* Sequences. *)

(* The elements of a sequence at the given positions.                       *)
Members(s, kept) ==
  [i \in 1..Cardinality(kept) |-> s[CHOOSE k \in kept : Cardinality({j \in kept : j <= k}) = i]]

(* The sum of a sequence of numbers.                                        *)
Total(s) ==
  LET sum[n \in 0..Len(s)] == IF n = 0 THEN 0 ELSE sum[n - 1] + s[n]
  IN  sum[Len(s)]

-----------------------------------------------------------------------------
(* Limits. *)

(* A regression: the scaled limit may be zero. *)
LimitScaledToZero(l) == (RawLimit[l] * SharePct) \div 100

(* AsyncThrottlerBase.__init__ scales the limits, but not below one. *)
Limit(l) == Max({1, (RawLimit[l] * SharePct) \div 100})

(* A regression: the safety margin is left out. *)
IntervalOnly(l) == Interval[l]

(* How long an entry counts. *)
Window(l) == Interval[l] + Margin[l]

(* get_related_limits: the linked limits that are configured, and the       *)
(* limit itself.                                                            *)
RelatedLimits(p) ==
  IF p \in Limits
  THEN Members(Links[p], {i \in DOMAIN Links[p] : Links[p][i].id \in Limits})
         \o <<[id |-> p, weight |-> Weight[p]]>>
  ELSE <<>>

(* What they take of one limit.                                             *)
WeightUnder(related, l) ==
  Total([i \in DOMAIN related |-> IF related[i].id = l THEN related[i].weight ELSE 0])

-----------------------------------------------------------------------------
(* What was let through, or counted, in the last ticks: h[l][a] is the     *)
(* weight under l that is at most a ticks old.                              *)

NoWeight == [l \in Limits |-> [a \in 0..Window(l) |-> 0]]

AddWeights(h, related) ==
  [l \in Limits |-> [a \in 0..Window(l) |-> h[l][a] + WeightUnder(related, l)]]

Older(h) == [l \in Limits |-> [a \in 0..Window(l) |-> IF a = 0 THEN 0 ELSE h[l][a - 1]]]

-----------------------------------------------------------------------------
(* The task logs. *)

TaskLog(x) == [id |-> x.id, weight |-> x.weight, age |-> 0]

(* The regressions: an entry expires after its interval already, or a tick   *)
(* late.                                                                    *)
ExpiredEarly(task) == task.age > Interval[task.id]
ExpiredLate(task) == task.age > Window(task.id) + 1

Expired(task) == task.age > Window(task.id)

(* flush removes from the list it iterates over, so it skips the entry      *)
(* after each one it removes: of a run of expired entries every second one  *)
(* stays.  (Of two equal entries, remove takes the first; the other keeps    *)
(* its place here.)                                                         *)
Flush(ts) ==
  LET RunLength(k) == k - Max({j \in 0..k : j = 0 \/ ~Expired(ts[j])})
      kept == {k \in DOMAIN ts : RunLength(k) % 2 = 0}
  IN  Members(ts, kept)

UsedWithin(ts, l, age) ==
  Total([i \in DOMAIN ts |-> IF ts[i].id = l /\ ts[i].age <= age THEN ts[i].weight ELSE 0])

CapacityUsed(ts, l) == UsedWithin(ts, l, Window(l))

WithinCapacity(ts, related) ==
  \A x \in ToSet(related) : CapacityUsed(ts, x.id) + x.weight <= Limit(x.id)

(* A regression: a call is logged for its path only. *)
AppendPathOnly(ts, p) == Append(ts, TaskLog([id |-> p, weight |-> Weight[p]]))

(* acquire logs the limit of the request itself, and then the related ones,  *)
(* which hold it again.                                                      *)
AppendLogs(ts, p) ==
  LET logged == <<[id |-> p, weight |-> Weight[p]]>> \o RelatedLimits(p)
  IN  ts \o [i \in DOMAIN logged |-> TaskLog(logged[i])]

-----------------------------------------------------------------------------
(* The actions. *)

Init ==
  /\ phase = [r \in Requests |-> "idle"]
  /\ calls = [r \in Requests |-> 0]
  /\ logs = <<>>
  /\ granted = NoWeight
  /\ inFlight = [r \in Requests |-> 0]
  /\ seen = NoWeight

(* What an attempt of acquire does: the call is let through, or it is held  *)
(* back.  A limit id that is not configured has no limits to wait for, and  *)
(* acquire raises when it logs the call.                                    *)
LetThrough(r) ==
  /\ Path[r] \in Limits
  /\ WithinCapacity(Flush(logs), RelatedLimits(Path[r]))
  /\ logs' = AppendLogs(Flush(logs), Path[r])
  /\ phase' = [phase EXCEPT ![r] = "sent"]
  /\ granted' = AddWeights(granted, RelatedLimits(Path[r]))
  /\ inFlight' = [inFlight EXCEPT ![r] = 0]

HoldBack(r) ==
  /\ ~WithinCapacity(Flush(logs), RelatedLimits(Path[r]))
  /\ logs' = Flush(logs)
  /\ phase' = [phase EXCEPT ![r] = "waiting"]
  /\ UNCHANGED <<granted, inFlight>>

Raise(r) ==
  /\ Path[r] \notin Limits
  /\ logs' = Flush(logs)
  /\ phase' = [phase EXCEPT ![r] = "idle"]
  /\ UNCHANGED <<granted, inFlight>>

(* async with throttler.execute_task(limit_id): the first attempt does not  *)
(* suspend.                                                                 *)
ExecuteTask(r) ==
  /\ phase[r] = "idle"
  /\ calls[r] < MaxCalls
  /\ calls' = [calls EXCEPT ![r] = @ + 1]
  /\ LetThrough(r) \/ HoldBack(r) \/ Raise(r)
  /\ UNCHANGED seen

(* A task that was held back has slept and tries again. *)
Retry(r) ==
  /\ phase[r] = "waiting"
  /\ LetThrough(r) \/ HoldBack(r)
  /\ UNCHANGED <<calls, seen>>

(* A waiting task is cancelled: its caller has a timeout. *)
Cancel(r) ==
  /\ phase[r] = "waiting"
  /\ phase' = [phase EXCEPT ![r] = "idle"]
  /\ UNCHANGED <<calls, logs, granted, inFlight, seen>>

(* The request reaches the exchange, which counts it. *)
Arrive(r) ==
  /\ phase[r] = "sent"
  /\ phase' = [phase EXCEPT ![r] = "idle"]
  /\ seen' = AddWeights(seen, RelatedLimits(Path[r]))
  /\ UNCHANGED <<calls, logs, granted, inFlight>>

(* Time passes, if no request travels longer than MaxDelay. *)
Tick ==
  /\ \A r \in Requests : phase[r] = "sent" => inFlight[r] < MaxDelay
  /\ inFlight' = [r \in Requests |-> IF phase[r] = "sent" THEN inFlight[r] + 1 ELSE inFlight[r]]
  /\ logs' = [i \in DOMAIN logs |-> [logs[i] EXCEPT !.age = IF Expired(logs[i]) THEN @ ELSE @ + 1]]
  /\ granted' = Older(granted)
  /\ seen' = Older(seen)
  /\ UNCHANGED <<phase, calls>>

Next ==
  \/ \E r \in Requests : ExecuteTask(r)
  \/ \E r \in Requests : Retry(r)
  \/ \E r \in Requests : Cancel(r)
  \/ \E r \in Requests : Arrive(r)
  \/ Tick

Spec == Init /\ [][Next]_vars

(* Time passes, requests arrive, and the event loop runs every task that    *)
(* has slept: one that has capacity whenever it looks is let through.  The  *)
(* last is weak fairness of Retry with its enabling condition written out.  *)
HasCapacity(r) == phase[r] = "waiting" /\ WithinCapacity(Flush(logs), RelatedLimits(Path[r]))

FairSpec ==
  /\ Spec
  /\ WF_vars(Tick)
  /\ \A r \in Requests :
       /\ WF_vars(Arrive(r))
       /\ []<>~HasCapacity(r) \/ []<><<Retry(r)>>_phase

-----------------------------------------------------------------------------
(* Properties. *)

TypeOK ==
  /\ phase \in [Requests -> {"idle", "waiting", "sent"}]
  /\ calls \in [Requests -> 0..MaxCalls]
  /\ logs \in Seq([id : Limits, weight : Nat \ {0}, age : Nat])
  /\ \A i \in DOMAIN logs : logs[i].age <= Window(logs[i].id) + 1
  /\ DOMAIN granted = Limits /\ \A l \in Limits : granted[l] \in [0..Window(l) -> Nat]
  /\ inFlight \in [Requests -> 0..MaxDelay]
  /\ DOMAIN seen = Limits /\ \A l \in Limits : seen[l] \in [0..Window(l) -> Nat]

(* flush forgets no request before its window is over, although it removes  *)
(* from the list it walks over: the log of a limit covers what was let      *)
(* through.                                                                 *)
LogsCoverGrants ==
  \A l \in Limits : CapacityUsed(logs, l) >= granted[l][Window(l)]

(* The exchange never counts more than the limit in an interval, although   *)
(* requests travel for different times: that is what the safety margin is   *)
(* for.                                                                     *)
ExchangeLimitRespected ==
  \A l \in Limits : seen[l][Interval[l]] <= Limit(l)

(* A task that waits is let through, raises or gives up, once the others    *)
(* stop calling: capacity that is taken is given back, and a limit scaled   *)
(* down still lets one call through.                                        *)
WaitingEnds == \A r \in Requests : phase[r] = "waiting" ~> phase[r] # "waiting"

(* The limit is the number of calls times weight that is permitted in an    *)
(* interval: a call is held back only if it would exceed a limit.           *)
FullLimitUsable ==
  [][\A r \in Requests : phase[r] = "idle" /\ phase'[r] = "waiting" =>
       \E x \in ToSet(RelatedLimits(Path[r])) :
         granted[x.id][Window(x.id)] + x.weight > Limit(x.id)]_vars
=============================================================================
