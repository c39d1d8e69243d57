------------------------------ MODULE BootGate ------------------------------
(***************************************************************************)
(* One cold boot at a time per Mac, and a person never refused for it:     *)
(* the relay's HostBootGate together with the one timer the relay keeps    *)
(* for it (RelayServer.applyGate).                                         *)
(*                                                                         *)
(* Each Mac has a boot slot, a one-place reservation for a person's boot,  *)
(* an ageing window that keeps a free slot for automation, and a memory    *)
(* pressure reading that holds for a while.  Every gate call is written    *)
(* here as an operator from one Mac's record to a result: the new record,  *)
(* the boots sent to the agent and the boots answered by the relay.        *)
(***************************************************************************)
EXTENDS Integers, Sequences, FiniteSets

CONSTANTS
  Hosts,            \* the Macs (hostKeyOf)
  Sessions,         \* one session per device
  HostOf,           \* the Mac each session's device runs on
  Requests,         \* boot correlators; one is reused only when nothing holds it
  None,             \* the absent value (null, and the empty requestId)
  BootMs, SettleCapMs, NoSampleMs, HumanWaitMs, ReboundMs,   \* GateTiming
  AgingCount, AgingWindowMs, RecentRefusalMs,
  SettleSamples, SettleSpread, SettleCeiling, FreshMs,       \* SETTLE
  MinSampleGapMs,
  Cpu,              \* the CPU readings an agent may report
  Pressure,         \* the pressure readings it may report with them; "none" is no reading
  TimerLag,         \* how late the relay's timer may fire
  MaxTime           \* bound on the clock, for model checking

ASSUME GateAssumption ==
  /\ HostOf \in [Sessions -> Hosts]
  /\ None \notin Nat /\ None \notin Sessions /\ None \notin Requests
  /\ None \notin {"host-booting", "host-memory-critical"}
  /\ {BootMs, SettleCapMs, NoSampleMs, HumanWaitMs, ReboundMs,
      AgingWindowMs, FreshMs} \subseteq Nat \ {0}
  /\ {AgingCount, RecentRefusalMs, SettleSamples, SettleSpread, SettleCeiling,
      MinSampleGapMs, TimerLag, MaxTime} \subseteq Nat
  /\ Cpu \subseteq Nat
  /\ Pressure \subseteq {"critical", "normal", "none"}

VARIABLES
  host,     \* HostBootGate.hosts
  now,      \* Date.now()
  timer,    \* when RelayServer.bootGateTimer is due, or None
  ask       \* where each boot request is: with nobody, held by the gate, at the agent

vars == <<host, now, timer, ask>>

Time == Nat \cup {None}

-----------------------------------------------------------------------------
(* The state of one Mac.                                                    *)

NewSlot(s, r, phase, since, readyAt) ==
  [session |-> s, req |-> r, phase |-> phase, since |-> since, readyAt |-> readyAt,
   samples |-> <<>>, droppedFirst |-> FALSE, lastSampleAt |-> None, reboundAt |-> None]

NoSlot == NewSlot(None, None, "free", 0, None)

NoHeld == [session |-> None, req |-> None, since |-> 0, reason |-> "host-booting"]

NewHost == [slot |-> NoSlot, reservation |-> NoHeld, humanStreak |-> 0,
            lastAutomatedRefusalAt |-> None, agingWindowUntil |-> None,
            criticalUntil |-> None, windowLeft |-> None]

Free(h) == h.slot.session = None
Vacant(h) == h.reservation.session = None
WindowOpen(h) == h.agingWindowUntil # None

IsCritical(h, t) == h.criticalUntil # None /\ t < h.criticalUntil

WaitReason(h, t) == IF IsCritical(h, t) THEN "host-memory-critical" ELSE "host-booting"

AutomationWaiting(h, t) ==
  h.lastAutomatedRefusalAt # None /\ t - h.lastAutomatedRefusalAt <= RecentRefusalMs

(* What a gate call decided: sent = boots forwarded to the agent, ended =   *)
(* boots the relay answered itself (refused or withdrawn).                  *)
Quiet(h)      == [host |-> h, sent |-> {}, ended |-> {}]
Deliver(h, r) == [host |-> h, sent |-> {r}, ended |-> {}]
Answer(h, r)  == [host |-> h, sent |-> {}, ended |-> {r}]

-----------------------------------------------------------------------------
(* The private steps of the gate.                                           *)

TakeSlot(h, s, r, t) == [h EXCEPT !.slot = NewSlot(s, r, "booting", t, None)]

(* The streak is only ever compared with AgingCount, so it is counted up to *)
(* one more than that.                                                      *)
NoteHumanGrant(h, t) ==
  [h EXCEPT !.humanStreak = IF ~AutomationWaiting(h, t) THEN 0
                            ELSE IF @ > AgingCount THEN @ ELSE @ + 1]

GrantToPerson(h, s, r, t) == NoteHumanGrant(TakeSlot(h, s, r, t), t)

Vacate(h) == [h EXCEPT !.reservation = NoHeld]

Hold(h, s, r, since, t) ==
  [h EXCEPT !.reservation = [session |-> s, req |-> r, since |-> since,
                             reason |-> WaitReason(h, t)]]

(* A faulty dispatch that ignores an open window.                           *)
DispatchPastWindow(h, t) ==
  IF Vacant(h) \/ ~Free(h) \/ IsCritical(h, t) THEN Quiet(h)
  ELSE Deliver(GrantToPerson(Vacate(h), h.reservation.session, h.reservation.req, t),
               h.reservation.req)

DispatchReservation(h, t) ==
  IF Vacant(h) \/ ~Free(h) \/ WindowOpen(h) \/ IsCritical(h, t)
  THEN Quiet(h)
  ELSE Deliver(GrantToPerson(Vacate(h), h.reservation.session, h.reservation.req, t),
               h.reservation.req)

(* A faulty release that forgets the held person.                           *)
ReleaseOnly(h, t) == Quiet([h EXCEPT !.slot = NoSlot])

(* A faulty release that lets one person more by before it opens a window.  *)
ReleaseOneMore(h, t) ==
  LET freed == [h EXCEPT !.slot = NoSlot]
  IN  IF AutomationWaiting(h, t) /\ h.humanStreak > AgingCount
      THEN Quiet([freed EXCEPT !.agingWindowUntil = t + AgingWindowMs])
      ELSE DispatchReservation(freed, t)

Release(h, t) ==
  LET freed == [h EXCEPT !.slot = NoSlot]
  IN  IF AutomationWaiting(h, t) /\ h.humanStreak >= AgingCount
      THEN Quiet([freed EXCEPT !.agingWindowUntil = t + AgingWindowMs])
      ELSE DispatchReservation(freed, t)

(* A faulty refreshWaiting that tells a held person nothing.                *)
RefreshNever(h, t) == h

(* refreshWaiting: told again only when the reason changed, so always current. *)
RefreshWaiting(h, t) ==
  IF Vacant(h) THEN h ELSE [h EXCEPT !.reservation.reason = WaitReason(h, t)]

CriticalEnded(h, t) ==
  LET left == IF h.windowLeft = None THEN AgingWindowMs ELSE h.windowLeft
      res  == DispatchReservation(
                [h EXCEPT !.criticalUntil = None, !.windowLeft = None,
                          !.agingWindowUntil = IF @ = None THEN None ELSE t + left], t)
  IN  [res EXCEPT !.host = RefreshWaiting(res.host, t)]

DeliverAnyway(h, s, r, t) ==
  IF Free(h) /\ (~WindowOpen(h) \/ IsCritical(h, t))
  THEN Deliver(GrantToPerson(h, s, r, t), r)
  ELSE Deliver(h, r)

-----------------------------------------------------------------------------
(* admit: one boot request.                                                 *)

AdmitHeldAgain(h, r, cost, t) ==
  LET old == h.reservation
  IN  IF cost = "warm"
      THEN [host |-> Vacate(h), sent |-> {r}, ended |-> {old.req}]
      ELSE Answer(Hold(h, old.session, r, old.since, t), old.req)

AdmitSlotAgain(h, r, t) ==
  Deliver([h EXCEPT !.slot = [@ EXCEPT !.req = r, !.phase = "booting", !.since = t,
                              !.readyAt = None, !.samples = <<>>,
                              !.droppedFirst = FALSE, !.reboundAt = None]], r)

(* A faulty automated branch that no longer reads the pressure.             *)
AdmitUnpressed(h, s, r, t) ==
  IF Free(h) /\ (WindowOpen(h) \/ Vacant(h))
  THEN Deliver([TakeSlot(h, s, r, t) EXCEPT !.humanStreak = 0, !.agingWindowUntil = None], r)
  ELSE Answer([h EXCEPT !.lastAutomatedRefusalAt = t], r)

AdmitAutomated(h, s, r, t) ==
  IF ~IsCritical(h, t) /\ Free(h) /\ (WindowOpen(h) \/ Vacant(h))
  THEN Deliver([TakeSlot(h, s, r, t) EXCEPT !.humanStreak = 0, !.agingWindowUntil = None], r)
  ELSE Answer([h EXCEPT !.lastAutomatedRefusalAt = t], r)

(* A faulty person's branch that overwrites whoever is waiting.             *)
AdmitOver(h, s, r, t) ==
  IF Free(h) /\ ~WindowOpen(h) /\ ~IsCritical(h, t)
  THEN Deliver(GrantToPerson(h, s, r, t), r)
  ELSE Quiet(Hold(h, s, r, t, t))

AdmitPerson(h, s, r, t) ==
  IF Free(h) /\ ~WindowOpen(h) /\ ~IsCritical(h, t)
  THEN Deliver(GrantToPerson(h, s, r, t), r)
  ELSE IF Vacant(h) THEN Quiet(Hold(h, s, r, t, t))
  ELSE IF Free(h) /\ IsCritical(h, t)
  THEN DeliverAnyway(Hold(h, s, r, t, t), h.reservation.session, h.reservation.req, t)
  ELSE DeliverAnyway(h, s, r, t)

Admit(h, s, r, cost, class, t) ==
  IF h.reservation.session = s THEN AdmitHeldAgain(h, r, cost, t)
  ELSE IF h.slot.session = s THEN AdmitSlotAgain(h, r, t)
  ELSE IF cost = "warm" THEN Deliver(h, r)
  ELSE IF class = "automated" THEN AdmitAutomated(h, s, r, t)
  ELSE AdmitPerson(h, s, r, t)

-----------------------------------------------------------------------------
(* onEvent: the closed list of events.                                      *)

EvReady(h, s, cold, t) ==
  IF h.slot.session = s
  THEN IF cold = "no" THEN Release(h, t)
       ELSE Quiet([h EXCEPT !.slot = [@ EXCEPT !.phase = "settling", !.readyAt = t,
                                      !.samples = <<>>, !.droppedFirst = FALSE,
                                      !.lastSampleAt = None]])
  ELSE IF cold = "yes" /\ Free(h)
  THEN Quiet([h EXCEPT !.slot = NewSlot(s, None, "settling", t, t)])
  ELSE Quiet(h)

Highest(samples) == CHOOSE x \in {samples[i] : i \in DOMAIN samples} :
                      \A i \in DOMAIN samples : samples[i] <= x
Lowest(samples) == CHOOSE x \in {samples[i] : i \in DOMAIN samples} :
                      \A i \in DOMAIN samples : x <= samples[i]

(* The gate keeps every sample; isSettled reads the last SettleSamples, so  *)
(* only those are kept here.                                                *)
LastSamples(samples) ==
  IF Len(samples) <= SettleSamples THEN samples
  ELSE SubSeq(samples, Len(samples) - SettleSamples + 1, Len(samples))

IsSettled(samples) ==
  /\ Len(samples) >= SettleSamples
  /\ Highest(samples) < SettleCeiling
  /\ Highest(samples) - Lowest(samples) <= SettleSpread

(* A faulty sampler that takes every agent's report.                        *)
EvSampleEvery(h, cpu, t) ==
  LET taken == IF h.slot.droppedFirst THEN LastSamples(Append(h.slot.samples, cpu)) ELSE <<>>
      next  == [h EXCEPT !.slot = [@ EXCEPT !.lastSampleAt = t, !.samples = taken,
                                            !.droppedFirst = TRUE]]
  IN  IF h.slot.phase # "settling" THEN Quiet(h)
      ELSE IF IsSettled(taken) THEN Release(next, t) ELSE Quiet(next)

EvSample(h, cpu, t) ==
  LET slot  == h.slot
      stale == slot.lastSampleAt # None /\ t - slot.lastSampleAt > FreshMs
      kept  == IF stale THEN <<>> ELSE slot.samples
      taken == IF slot.droppedFirst THEN LastSamples(Append(kept, cpu)) ELSE kept
      next  == [h EXCEPT !.slot = [@ EXCEPT !.lastSampleAt = t, !.samples = taken,
                                            !.droppedFirst = TRUE]]
  IN  IF \/ Free(h) \/ slot.phase # "settling"
         \/ slot.lastSampleAt # None /\ t - slot.lastSampleAt < MinSampleGapMs
      THEN Quiet(h)
      ELSE IF slot.droppedFirst /\ IsSettled(taken) THEN Release(next, t)
      ELSE Quiet(next)

(* A faulty pressure reading whose frozen window can have less than nothing. *)
EvPressureSigned(h, critical, t) ==
  LET left == IF WindowOpen(h) THEN h.agingWindowUntil - t ELSE h.windowLeft
      up   == [h EXCEPT !.criticalUntil = t + FreshMs]
  IN  IF critical
      THEN Quiet(IF IsCritical(h, t) THEN up
                 ELSE RefreshWaiting([up EXCEPT !.windowLeft = left], t))
      ELSE IF h.criticalUntil = None THEN Quiet(h) ELSE CriticalEnded(h, t)

EvPressure(h, critical, t) ==
  LET left == IF ~WindowOpen(h) THEN h.windowLeft
              ELSE IF h.agingWindowUntil > t THEN h.agingWindowUntil - t ELSE 0
      up   == [h EXCEPT !.criticalUntil = t + FreshMs]
  IN  IF critical
      THEN Quiet(IF IsCritical(h, t) THEN up
                 ELSE RefreshWaiting([up EXCEPT !.windowLeft = left], t))
      ELSE IF h.criticalUntil = None THEN Quiet(h)
      ELSE CriticalEnded(h, t)

(* r = None is an id-less boot-error: a stream that died outside a boot.    *)
EvBootError(h, s, r, t) ==
  IF h.slot.session = s /\ (r = None \/ r = h.slot.req) THEN Release(h, t) ELSE Quiet(h)

EvBrowserClosed(h, s) ==
  IF h.reservation.session = s THEN Answer(Vacate(h), h.reservation.req) ELSE Quiet(h)

(* shutdown-done and session-removed: withdrawn first, so the release that  *)
(* follows cannot dispatch the boot of the session that is going away.      *)
EvGone(h, s, t) ==
  LET out == EvBrowserClosed(h, s)
  IN  IF out.host.slot.session = s
      THEN [Release(out.host, t) EXCEPT !.ended = out.ended]
      ELSE out

EvRebound(h, s, t) ==
  IF h.slot.session = s THEN Quiet([h EXCEPT !.slot.reboundAt = t]) ELSE Quiet(h)

-----------------------------------------------------------------------------
(* tick, in the order the code does it: stale pressure, slot deadlines,     *)
(* the ageing window, the held person.                                      *)

SlotExpired(h, t) ==
  /\ ~Free(h)
  /\ \/ /\ h.slot.phase = "booting"
        /\ \/ h.slot.reboundAt # None /\ t >= h.slot.reboundAt + ReboundMs
           \/ t >= h.slot.since + BootMs
     \/ /\ h.slot.phase = "settling"
        /\ \/ t >= h.slot.readyAt + SettleCapMs
           \/ h.slot.lastSampleAt = None /\ t >= h.slot.readyAt + NoSampleMs

TickPressure(h, t) ==
  IF h.criticalUntil # None /\ t >= h.criticalUntil THEN CriticalEnded(h, t) ELSE Quiet(h)

TickSlot(h, t) == IF SlotExpired(h, t) THEN Release(h, t) ELSE Quiet(h)

TickWindow(h, t) ==
  IF WindowOpen(h) /\ t >= h.agingWindowUntil /\ ~IsCritical(h, t)
  THEN DispatchReservation([h EXCEPT !.agingWindowUntil = None, !.humanStreak = 0], t)
  ELSE Quiet(h)

(* A faulty tick that lets the held person go one instant late.             *)
TickHeldLate(h, t) ==
  IF ~Vacant(h) /\ t > h.reservation.since + HumanWaitMs
  THEN DeliverAnyway(Vacate(h), h.reservation.session, h.reservation.req, t)
  ELSE Quiet(h)

TickHeld(h, t) ==
  LET held == h.reservation
  IN  IF ~Vacant(h) /\ t >= held.since + HumanWaitMs
      THEN DeliverAnyway(Vacate(h), held.session, held.req, t)
      ELSE Quiet(h)

TickHost(h, t) ==
  LET a == TickPressure(h, t)
      b == TickSlot(a.host, t)
      c == TickWindow(b.host, t)
      d == TickHeld(c.host, t)
  IN  [host |-> d.host, sent |-> a.sent \cup b.sent \cup c.sent \cup d.sent, ended |-> {}]

(* nextDeadline: when tick must next run.                                   *)
Deadlines(h, t) ==
  LET slot == h.slot
      sett == ~Free(h) /\ slot.phase = "settling"
      boot == ~Free(h) /\ slot.phase = "booting"
  IN  (IF boot THEN {slot.since + BootMs} ELSE {})
      \cup (IF boot /\ slot.reboundAt # None THEN {slot.reboundAt + ReboundMs} ELSE {})
      \cup (IF sett THEN {slot.readyAt + SettleCapMs} ELSE {})
      \cup (IF sett /\ slot.lastSampleAt = None THEN {slot.readyAt + NoSampleMs} ELSE {})
      \cup (IF h.criticalUntil # None THEN {h.criticalUntil} ELSE {})
      \cup (IF WindowOpen(h) /\ ~IsCritical(h, t) THEN {h.agingWindowUntil} ELSE {})
      \cup (IF ~Vacant(h) THEN {h.reservation.since + HumanWaitMs} ELSE {})

(* Faulty deadlines: the latest one, or only those of slots.                *)
NextDeadlineLatest(hs, t) ==
  LET all == UNION {Deadlines(hs[m], t) : m \in Hosts}
  IN  IF all = {} THEN None ELSE CHOOSE d \in all : \A e \in all : e <= d
NextDeadlineUnheld(hs, t) ==
  LET all == UNION {Deadlines(Vacate(hs[m]), t) : m \in Hosts}
  IN  IF all = {} THEN None ELSE CHOOSE d \in all : \A e \in all : d <= e

NextDeadline(hs, t) ==
  LET all == UNION {Deadlines(hs[m], t) : m \in Hosts}
  IN  IF all = {} THEN None ELSE CHOOSE d \in all : \A e \in all : d <= e

(* wouldRefuseAutomated: what a lease asks of each Mac without recording.   *)
WouldRefuseAutomated(h, t) ==
  IF IsCritical(h, t) THEN "host-memory-critical"
  ELSE IF Free(h) /\ (WindowOpen(h) \/ Vacant(h)) THEN None
  ELSE "host-booting"

-----------------------------------------------------------------------------
(* Carrying out what the gate decided (applyGate and forwardBoot).          *)

NoAsk == [session |-> None, class |-> "none", at |-> "nobody"]

(* A boot that was held is resolved again when it is forwarded; when its    *)
(* client lost the session or the agent is away it is answered and the gate *)
(* is told (boot-error).  At most one held boot is sent by one gate call,   *)
(* and after it the reservation is empty or the Mac critical, so the        *)
(* release this causes sends no other.                                      *)
Carry(res, dead, t) ==
  LET lost == {r \in res.sent : ask[r].at = "held" /\ ask[r].session \in dead}
      back == IF res.host.slot.req \in lost THEN Release(res.host, t).host ELSE res.host
  IN  [host |-> back, sent |-> res.sent \ lost, ended |-> res.ended \cup lost]

Settle(asks, res) ==
  [r \in Requests |->
     IF r \in res.ended THEN NoAsk
     ELSE IF r \in res.sent THEN [asks[r] EXCEPT !.at = "agent"]
     ELSE asks[r]]

(* The effects are carried out, then the single timer is armed again.       *)
Apply(m, asks, res, dead) ==
  LET out == Carry(res, dead, now)
  IN  /\ host' = [host EXCEPT ![m] = out.host]
      /\ ask' = Settle(asks, out)
      /\ timer' = NextDeadline(host', now)
      /\ UNCHANGED now

HeldSessions == {host[m].reservation.session : m \in Hosts} \ {None}

Unused(r) == ask[r].at = "nobody" /\ \A m \in Hosts : host[m].slot.req # r

(* The boots the old agent process had, or the removed session asked for.   *)
Forget(s) ==
  [r \in Requests |-> IF ask[r].session = s /\ ask[r].at = "agent" THEN NoAsk ELSE ask[r]]

-----------------------------------------------------------------------------
(* The handlers.  dead is the set of sessions whose held boot could not be  *)
(* forwarded at this moment.                                                *)

(* The browser socket closes, or session:leave.                             *)
Leave(s, dead) == Apply(HostOf[s], ask, EvBrowserClosed(host[HostOf[s]], s), dead)

(* device:boot by the session's holder.  Who holds a session changes        *)
(* without the gate being told (a join takes over from a holder that        *)
(* stopped answering), so either kind of client may be the one that asks.   *)
Boot(s, r, cost, class, dead) ==
  /\ Unused(r)
  /\ LET m == HostOf[s] IN
       Apply(m, [ask EXCEPT ![r] = [session |-> s, class |-> class, at |-> "held"]],
             Admit(host[m], s, r, cost, class, now), dead)

AtAgent(s, r) == ask[r].at = "agent" /\ ask[r].session = s

(* device:ready, with the agent's own account of whether it was a cold boot. *)
Ready(s, r, cold, dead) ==
  /\ AtAgent(s, r)
  /\ Apply(HostOf[s], [ask EXCEPT ![r] = NoAsk],
           EvReady(host[HostOf[s]], s, cold, now), dead)

(* device:boot-error, answering a boot or (r = None) answering none.        *)
BootError(s, r, dead) ==
  /\ r # None => AtAgent(s, r)
  /\ Apply(HostOf[s], IF r = None THEN ask ELSE [ask EXCEPT ![r] = NoAsk],
           EvBootError(host[HostOf[s]], s, r, now), dead)

ShutdownDone(s, dead) ==
  Apply(HostOf[s], ask, EvGone(host[HostOf[s]], s, now), dead)

SessionRemoved(s, dead) ==
  Apply(HostOf[s], Forget(s), EvGone(host[HostOf[s]], s, now), dead)

(* A restarted agent took the session over; its old process's boots are     *)
(* answered, and the slot is kept.                                          *)
Rebound(s) ==
  Apply(HostOf[s], Forget(s), EvRebound(host[HostOf[s]], s, now), {})

(* agent:resources: the CPU sample, then the pressure on the same report.   *)
Resources(m, cpu, pressure, dead) ==
  LET a == Carry(EvSample(host[m], cpu, now), dead, now)
      b == IF pressure = "none" THEN Quiet(a.host)
           ELSE EvPressure(a.host, pressure = "critical", now)
  IN  Apply(m, Settle(ask, a), b, dead)
    
(* The timer fires: at its deadline or up to TimerLag later.                *)
Tick(dead) ==
  LET out == [m \in Hosts |-> Carry(TickHost(host[m], now), dead, now)]
  IN  /\ timer # None /\ now >= timer
      /\ host' = [m \in Hosts |-> out[m].host]
      /\ ask' = Settle(ask, [sent  |-> UNION {out[m].sent : m \in Hosts},
                             ended |-> UNION {out[m].ended : m \in Hosts}])
      /\ timer' = NextDeadline(host', now)
      /\ UNCHANGED now

Advance ==
  /\ now < MaxTime
  /\ timer # None => now < timer + TimerLag
  /\ now' = now + 1
  /\ UNCHANGED <<host, timer, ask>>

Init ==
  /\ host = [m \in Hosts |-> NewHost]
  /\ now = 0
  /\ timer = None
  /\ ask = [r \in Requests |-> NoAsk]

Next ==
  \/ \E dead \in SUBSET HeldSessions :
       \/ \E s \in Sessions : Leave(s, dead) \/ ShutdownDone(s, dead) \/ SessionRemoved(s, dead)
       \/ \E s \in Sessions, r \in Requests :
            \/ \E cost \in {"cold", "warm"}, class \in {"interactive", "automated"} :
                 Boot(s, r, cost, class, dead)
            \/ \E cold \in {"yes", "no", "unsaid"} : Ready(s, r, cold, dead)
       \/ \E s \in Sessions, r \in Requests \cup {None} : BootError(s, r, dead)
       \/ \E m \in Hosts, cpu \in Cpu, p \in Pressure :
            Resources(m, cpu, p, dead)
       \/ Tick(dead)
  \/ \E s \in Sessions : Rebound(s)
  \/ Advance

Spec == Init /\ [][Next]_vars
-----------------------------------------------------------------------------
(* Properties.                                                              *)

SlotType ==
  [session : Sessions \cup {None}, req : Requests \cup {None},
   phase : {"free", "booting", "settling"}, since : Nat, readyAt : Time,
   samples : Seq(Nat), droppedFirst : BOOLEAN, lastSampleAt : Time, reboundAt : Time]

HeldType ==
  [session : Sessions \cup {None}, req : Requests \cup {None}, since : Nat,
   reason : {"host-booting", "host-memory-critical"}]

HostType ==
  [slot : SlotType, reservation : HeldType, humanStreak : Nat,
   lastAutomatedRefusalAt : Time, agingWindowUntil : Time, criticalUntil : Time,
   windowLeft : Time]

AskType == [session : Sessions \cup {None}, class : {"none", "interactive", "automated"},
            at : {"nobody", "held", "agent"}]

SlotShape(slot) ==
  /\ (slot.phase = "free") <=> (slot.session = None)
  /\ slot.phase = "settling" => slot.readyAt # None

\* Every variable has its type, and a slot its shape: free exactly when it names
\* no session, and with a ready time once it settles.
TypeOK ==
  /\ host \in [Hosts -> HostType]
  /\ \A m \in Hosts : SlotShape(host[m].slot)
  /\ now \in Nat
  /\ timer \in Time
  /\ ask \in [Requests -> AskType]

\* The relay's single timer is due, or armed no later than any deadline a Mac has
\* pending, whatever the order in which events moved those deadlines (applyGate
\* re-arms from nextDeadline after every call, nested ones included).
TimerCoversDeadlines ==
  \A m \in Hosts : \A d \in Deadlines(host[m], now) : timer # None /\ (timer <= d \/ timer <= now)

\* A person's boot waits in the reservation at most HumanWaitMs (and the timer's
\* own lateness): "for at most humanWaitMs", through re-sent boots, pressure
\* changes, windows and slots handed on in front of it.
HumanWaitBounded ==
  \A m \in Hosts : ~Vacant(host[m]) =>
    now <= host[m].reservation.since + HumanWaitMs + TimerLag

\* A slot is always let go: a booting one BootMs after it was last taken, a
\* settling one SettleCapMs after its ready, whatever the agent sends or omits.
SlotBounded ==
  \A m \in Hosts :
    LET slot == host[m].slot IN
      /\ slot.phase = "booting"  => now <= slot.since + BootMs + TimerLag
      /\ slot.phase = "settling" => now <= slot.readyAt + SettleCapMs + TimerLag

\* A boot is held by the gate exactly when it is in a reservation: every other
\* admitted boot was forwarded or answered, none is overwritten or lost, and
\* none is held twice.
HeldIsReserved ==
  \A r \in Requests :
    (ask[r].at = "held") <=>
      \E m \in Hosts : host[m].reservation.req = r /\ host[m].reservation.session = ask[r].session

\* A person never waits for nothing: while a boot is held its Mac has a slot
\* taken, an ageing window open or a pressure reading that still counts.
WaitHasCause ==
  \A m \in Hosts : ~Vacant(host[m]) =>
    ~Free(host[m]) \/ WindowOpen(host[m]) \/ host[m].criticalUntil # None

\* A held person was last told the reason that is true now; only a pressure
\* reading that ran out an instant ago, its tick still due, may differ.
ToldReasonIsCurrent ==
  \A m \in Hosts : ~Vacant(host[m]) =>
    LET told == host[m].reservation.reason IN
      /\ IsCritical(host[m], now) => told = "host-memory-critical"
      /\ told = "host-memory-critical" => host[m].criticalUntil # None

\* A booting slot stands for a boot that is really out: its newest request is at
\* the agent, or the agent restarted under it.  A boot that could not be
\* forwarded, failed, or was removed with its session holds no slot.
SlotHasBoot ==
  \A m \in Hosts :
    LET slot == host[m].slot IN
      slot.phase = "booting" => (ask[slot.req].at = "agent" \/ slot.reboundAt # None)

\* What the gate holds and what is out agree, from a boot's request to its
\* answer, whichever of refusal, failure, leave or restart comes between.
BootsAreAccounted == HeldIsReserved /\ SlotHasBoot

\* What a lease reads of a Mac is what admit would answer an automated cold boot
\* of a session the gate does not know there, at every reachable moment:
\* wouldRefuseAutomated "mirrors the automated branch of admit".
LeaseMirrorsAdmit ==
  \A m \in Hosts, s \in Sessions, r \in Requests :
    (s # host[m].slot.session /\ s # host[m].reservation.session) =>
      (WouldRefuseAutomated(host[m], now) = None)
        <=> (r \in Admit(host[m], s, r, "cold", "automated", now).sent)

\* While an ageing window is open and the Mac is not critical, no person's boot
\* takes the slot, free or just released: only an automated boot, the ready of a
\* boot already let through, or a tick that closes the window: at its end, or as
\* it resumes with nothing left of it after a pressure reading ran out.
WindowIsForAutomation ==
  [][\A m \in Hosts :
       (/\ WindowOpen(host[m]) /\ ~IsCritical(host[m], now)
        /\ host'[m].slot.session \notin {None, host[m].slot.session})
       => \/ host'[m].slot.phase = "settling"
          \/ ask'[host'[m].slot.req].class = "automated"
          \/ now >= host[m].agingWindowUntil
          \/ host[m].criticalUntil # None /\ host[m].windowLeft = 0]_vars

\* A tick leaves nothing overdue: it either disarms the timer or arms it for a
\* later instant, so the relay's timer cannot spin on a deadline tick ignores.
TickNeverSpins ==
  [][(timer' # None /\ timer' <= now) => ~\E dead \in SUBSET HeldSessions : Tick(dead)]_vars

\* CPU reports let a slot go no sooner than SettleSamples gaps after the ready,
\* however many agents on the Mac report side by side.
SettleTakesItsTime ==
  [][\A m \in Hosts :
       (/\ host[m].slot.phase = "settling" /\ host'[m].slot # host[m].slot
        /\ host'[m].slot.phase # "settling"
        /\ now < host[m].slot.readyAt + SettleSamples * MinSampleGapMs)
       => ~\E cpu \in Cpu, p \in Pressure : Resources(m, cpu, p, {})]_vars
=============================================================================
