--------------------------- MODULE BootGateProofs ---------------------------
(***************************************************************************)
(* Theorems about BootGate, for every set of Macs, sessions and requests   *)
(* and every timing: type correctness, the bound on a person's wait, the   *)
(* bound on a slot, and that a held boot always waits for something; then, *)
(* about the boots the gate holds, sends and answers: what is held is what *)
(* a reservation says, a held person knows why it waits, a window is       *)
(* automation's, a tick leaves nothing overdue and a slot settles no       *)
(* sooner than its readings allow.                                         *)
(*                                                                         *)
(* The invariant is a predicate on one Mac's record, SoundHost(h, t), that *)
(* every operator of the gate preserves (one lemma each), together with    *)
(* the fact that the relay's timer is armed no later than any deadline of  *)
(* a slot, a reservation or a pressure reading.                            *)
(***************************************************************************)
EXTENDS BootGate, SequenceTheorems, WellFoundedInduction, TLAPS

\* t is no more than the timer's lateness past a deadline.
InTime(t, d) == t <= d + TimerLag

\* The deadlines of a slot, a pressure reading and a reservation.  An ageing
\* window's is left out: it stands still while the Mac is critical.
FirmDeadline(h, d) ==
  \/ h.slot.phase = "booting" /\ d = h.slot.since + BootMs
  \/ h.slot.phase = "booting" /\ h.slot.reboundAt # None /\ d = h.slot.reboundAt + ReboundMs
  \/ h.slot.phase = "settling" /\ d = h.slot.readyAt + SettleCapMs
  \/ h.slot.phase = "settling" /\ h.slot.lastSampleAt = None /\ d = h.slot.readyAt + NoSampleMs
  \/ h.criticalUntil # None /\ d = h.criticalUntil
  \/ ~Vacant(h) /\ d = h.reservation.since + HumanWaitMs

Cause(h) == ~Vacant(h) => (~Free(h) \/ WindowOpen(h) \/ h.criticalUntil # None)

TypedHost(h) == h \in HostType /\ SlotShape(h.slot)

InTimeSlot(slot, t) ==
  /\ slot.phase = "booting" => InTime(t, slot.since + BootMs)
  /\ (slot.phase = "booting" /\ slot.reboundAt # None) => InTime(t, slot.reboundAt + ReboundMs)
  /\ slot.phase = "settling" => InTime(t, slot.readyAt + SettleCapMs)
  /\ (slot.phase = "settling" /\ slot.lastSampleAt = None) => InTime(t, slot.readyAt + NoSampleMs)

InTimeHost(h, t) ==
  /\ InTimeSlot(h.slot, t)
  /\ h.criticalUntil # None => InTime(t, h.criticalUntil)
  /\ ~Vacant(h) => InTime(t, h.reservation.since + HumanWaitMs)

SoundHost(h, t) == TypedHost(h) /\ InTimeHost(h, t)

\* What every gate call hands back: a sound record in which a held boot waits
\* for something.
SoundResult(res, t) == SoundHost(res.host, t) /\ Cause(res.host)

USE GateAssumption

-----------------------------------------------------------------------------
\* An empty slot is well formed and inside its times (freeSlot).
LEMMA NoSlotSound == \A t \in Nat : NoSlot \in SlotType /\ SlotShape(NoSlot) /\ InTimeSlot(NoSlot, t)
  BY DEF NoSlot, NewSlot, SlotType, SlotShape, InTimeSlot, Time

\* An empty reservation has its type.
LEMMA NoHeldTyped == NoHeld \in HeldType
  BY DEF NoHeld, HeldType

\* What the record needs of a new slot to stay sound.
LEMMA SlotReplaced ==
  ASSUME NEW h, NEW t \in Nat, SoundHost(h, t), NEW slot \in SlotType,
         SlotShape(slot), InTimeSlot(slot, t)
  PROVE  /\ SoundHost([h EXCEPT !.slot = slot], t)
         /\ [h EXCEPT !.slot = slot].slot = slot
  BY DEF SoundHost, TypedHost, InTimeHost, HostType, Vacant

\* A slot just taken is well formed and starts now (takeSlot).
LEMMA NewSlotSound ==
  ASSUME NEW t \in Nat, NEW s \in Sessions, NEW r \in Requests \cup {None}
  PROVE  /\ LET slot == NewSlot(s, r, "booting", t, None)
            IN  slot \in SlotType /\ SlotShape(slot) /\ InTimeSlot(slot, t)
         /\ LET slot == NewSlot(s, r, "settling", t, t)
            IN  slot \in SlotType /\ SlotShape(slot) /\ InTimeSlot(slot, t)
  BY DEF NewSlot, SlotType, SlotShape, InTimeSlot, InTime, Time

\* Giving a free slot to a person keeps a Mac's record sound (grantToHuman).
LEMMA GrantSound ==
  ASSUME NEW h, NEW t \in Nat, SoundHost(h, t), NEW s \in Sessions, NEW r \in Requests \cup {None}
  PROVE  SoundHost(TakeSlot(h, s, r, t), t) /\ SoundHost(GrantToPerson(h, s, r, t), t)
  <1> DEFINE k == TakeSlot(h, s, r, t)
  <1>1. SoundHost(k, t)
    BY SlotReplaced, NewSlotSound DEF TakeSlot
  <1> HIDE DEF k
  <1>2. SoundHost(NoteHumanGrant(k, t), t)
    <2> DEFINE n == IF ~AutomationWaiting(k, t) THEN 0
                    ELSE IF k.humanStreak > AgingCount THEN k.humanStreak ELSE k.humanStreak + 1
    <2>1. n \in Nat
      BY <1>1 DEF SoundHost, TypedHost, HostType
    <2>2. NoteHumanGrant(k, t) = [k EXCEPT !.humanStreak = n]
      BY DEF NoteHumanGrant
    <2> HIDE DEF n
    <2> QED
      BY <1>1, <2>1, <2>2 DEF SoundHost, TypedHost, InTimeHost, HostType, Vacant
  <1> QED
    BY <1>1, <1>2 DEF GrantToPerson, k

\* Emptying the reservation keeps a Mac's record sound.
LEMMA VacateSound ==
  ASSUME NEW h, NEW t \in Nat, SoundHost(h, t)
  PROVE  /\ SoundHost(Vacate(h), t)
         /\ Vacate(h) = [h EXCEPT !.reservation = NoHeld]
         /\ Vacate(h).reservation = NoHeld /\ Vacant(Vacate(h))
  <1>1. NoHeld.session = None
    BY DEF NoHeld
  <1> QED
    BY <1>1, NoHeldTyped DEF Vacate, SoundHost, TypedHost, InTimeHost, HostType, Vacant

\* Putting a person in the empty reservation of a busy Mac keeps its record sound.
LEMMA HoldSound ==
  ASSUME NEW h, NEW t \in Nat, SoundHost(h, t), NEW s \in Sessions, NEW r \in Requests,
         NEW since \in Nat, InTime(t, since + HumanWaitMs)
  PROVE  SoundHost(Hold(h, s, r, since, t), t)
  <1> DEFINE v == [session |-> s, req |-> r, since |-> since, reason |-> WaitReason(h, t)]
  <1>1. v \in HeldType /\ v.since = since /\ v.session = s
    BY DEF HeldType, WaitReason
  <1>2. Hold(h, s, r, since, t) = [h EXCEPT !.reservation = v]
    BY DEF Hold
  <1> HIDE DEF v
  <1> QED
    BY <1>1, <1>2 DEF SoundHost, TypedHost, InTimeHost, HostType, Vacant

\* Sending or answering alone changes nothing of the record.
LEMMA PlainResults ==
  ASSUME NEW h, NEW r
  PROVE  Quiet(h).host = h /\ Deliver(h, r).host = h /\ Answer(h, r).host = h
  BY DEF Quiet, Deliver, Answer

\* Sending the reserved boot when nothing stands in its way keeps the record sound (dispatchReservation).
LEMMA DispatchSound ==
  ASSUME NEW h, NEW t \in Nat, SoundHost(h, t)
  PROVE  SoundResult(DispatchReservation(h, t), t)
  <1> DEFINE stay == Vacant(h) \/ ~Free(h) \/ WindowOpen(h) \/ IsCritical(h, t)
  <1>1. CASE stay
    <2>1. DispatchReservation(h, t).host = h
      BY <1>1, PlainResults DEF DispatchReservation
    <2>2. Cause(h)
      BY <1>1 DEF Cause, IsCritical
    <2> QED
      BY <2>1, <2>2 DEF SoundResult
  <1>2. CASE ~stay
    <2> DEFINE s == h.reservation.session
               r == h.reservation.req
               k == GrantToPerson(Vacate(h), s, r, t)
    <2>1. DispatchReservation(h, t).host = k
      BY <1>2, PlainResults DEF DispatchReservation
    <2>2. s \in Sessions /\ r \in Requests \cup {None}
      BY <1>2 DEF SoundHost, TypedHost, HostType, HeldType, Vacant
    <2>3. SoundHost(k, t)
      BY <2>2, VacateSound, GrantSound
    <2>4. k.reservation = Vacate(h).reservation
      BY VacateSound DEF GrantToPerson, NoteHumanGrant, TakeSlot, SoundHost, TypedHost, HostType
    <2>5. Cause(k)
      BY <2>4, VacateSound DEF Cause, Vacant
    <2> QED
      BY <2>1, <2>3, <2>5 DEF SoundResult
  <1> QED
    BY <1>1, <1>2

\* Emptying the slot keeps the record sound, before anything waits again.
LEMMA FreedSound ==
  ASSUME NEW h, NEW t \in Nat, SoundHost(h, t)
  PROVE  SoundHost([h EXCEPT !.slot = NoSlot], t)
  BY NoSlotSound, SlotReplaced

\* A window set or closed leaves the rest of the record sound.
LEMMA WindowSound ==
  ASSUME NEW h, NEW t \in Nat, SoundHost(h, t), NEW until \in Time
  PROVE  /\ SoundHost([h EXCEPT !.agingWindowUntil = until], t)
         /\ [h EXCEPT !.agingWindowUntil = until].agingWindowUntil = until
  BY DEF SoundHost, TypedHost, InTimeHost, HostType, Vacant

\* Releasing the slot, with the dispatch or the window that follows it, keeps the record sound (releaseSlot).
LEMMA ReleaseSound ==
  ASSUME NEW h, NEW t \in Nat, SoundHost(h, t)
  PROVE  SoundResult(Release(h, t), t)
  <1> DEFINE k == [h EXCEPT !.slot = NoSlot]
             w == [k EXCEPT !.agingWindowUntil = t + AgingWindowMs]
  <1>1. SoundHost(k, t)
    BY FreedSound
  <1>2. t + AgingWindowMs \in Time /\ t + AgingWindowMs # None
    BY DEF Time
  <1>3. SoundResult(DispatchReservation(k, t), t)
    BY <1>1, DispatchSound
  <1>4. SoundHost(w, t) /\ Cause(w)
    <2> HIDE DEF k
    <2> QED
      BY <1>1, <1>2, WindowSound DEF Cause, WindowOpen
  <1>5. Release(h, t) = Quiet(w) \/ Release(h, t) = DispatchReservation(k, t)
    BY DEF Release
  <1> HIDE DEF k, w
  <1> QED
    BY <1>3, <1>4, <1>5, PlainResults DEF SoundResult

\* Telling a waiting viewer its reason again keeps the record sound.
LEMMA RefreshSound ==
  ASSUME NEW h, NEW t \in Nat, SoundHost(h, t)
  PROVE  /\ SoundHost(RefreshWaiting(h, t), t)
         /\ Cause(h) => Cause(RefreshWaiting(h, t))
  <1> DEFINE k == [h EXCEPT !.reservation.reason = WaitReason(h, t)]
  <1>1. WaitReason(h, t) \in {"host-booting", "host-memory-critical"}
    BY DEF WaitReason
  <1>2. /\ k \in HostType /\ k.slot = h.slot /\ k.criticalUntil = h.criticalUntil
        /\ k.reservation.since = h.reservation.since
        /\ k.reservation.session = h.reservation.session
        /\ k.agingWindowUntil = h.agingWindowUntil
    BY <1>1 DEF SoundHost, TypedHost, HostType, HeldType
  <1>3. RefreshWaiting(h, t) = h \/ RefreshWaiting(h, t) = k
    BY DEF RefreshWaiting
  <1> HIDE DEF k
  <1> QED
    BY <1>2, <1>3 DEF SoundHost, TypedHost, InTimeHost, Cause, Vacant, Free, WindowOpen

\* The end of a critical reading, which restarts a frozen window, keeps the record sound.
LEMMA CriticalEndedSound ==
  ASSUME NEW h, NEW t \in Nat, SoundHost(h, t)
  PROVE  SoundResult(CriticalEnded(h, t), t)
  <1> DEFINE left  == IF h.windowLeft = None THEN AgingWindowMs ELSE h.windowLeft
             until == IF h.agingWindowUntil = None THEN None ELSE t + left
             k     == [h EXCEPT !.criticalUntil = None, !.windowLeft = None,
                                !.agingWindowUntil = IF @ = None THEN None ELSE t + left]
             d     == DispatchReservation(k, t)
  <1>1. until \in Time
    BY DEF Time, SoundHost, TypedHost, HostType
  <1>2. k = [h EXCEPT !.criticalUntil = None, !.windowLeft = None, !.agingWindowUntil = until]
    OBVIOUS
  <1> HIDE DEF until
  <1>3. SoundHost(k, t)
    BY <1>1, <1>2 DEF SoundHost, TypedHost, InTimeHost, HostType, Vacant, Time
  <1> HIDE DEF k
  <1>4. SoundResult(d, t)
    BY <1>3, DispatchSound
  <1>5. CriticalEnded(h, t).host = RefreshWaiting(d.host, t)
    BY DEF CriticalEnded, DispatchReservation, Quiet, Deliver, k
  <1> QED
    BY <1>4, <1>5, RefreshSound DEF SoundResult

\* Sending a boot past whatever it waited behind keeps the record sound.
LEMMA DeliverAnywaySound ==
  ASSUME NEW h, NEW t \in Nat, SoundHost(h, t), Cause(h), NEW s \in Sessions, NEW r \in Requests \cup {None}
  PROVE  SoundResult(DeliverAnyway(h, s, r, t), t)
  <1> DEFINE k == GrantToPerson(h, s, r, t)
  <1>1. SoundHost(k, t)
    BY GrantSound
  <1>2. k.reservation = h.reservation /\ k.slot = NewSlot(s, r, "booting", t, None)
    BY DEF GrantToPerson, NoteHumanGrant, TakeSlot, SoundHost, TypedHost, HostType
  <1>3. Cause(k)
    BY <1>2 DEF Cause, Free, NewSlot
  <1>4. DeliverAnyway(h, s, r, t).host \in {h, k}
    BY PlainResults DEF DeliverAnyway
  <1> HIDE DEF k
  <1> QED
    BY <1>1, <1>3, <1>4 DEF SoundResult

-----------------------------------------------------------------------------
(* admit.                                                                   *)

LEMMA HoldCause ==
  ASSUME NEW h, NEW t \in Nat, SoundHost(h, t), NEW s \in Sessions, NEW r \in Requests,
         NEW since \in Nat, ~Free(h) \/ WindowOpen(h) \/ h.criticalUntil # None
  PROVE  Cause(Hold(h, s, r, since, t))
  BY DEF Hold, Cause, Free, WindowOpen, SoundHost, TypedHost, HostType

\* A second boot of the session that waits keeps the record sound (admit's coalescing).
LEMMA AdmitHeldAgainSound ==
  ASSUME NEW h, NEW t \in Nat, SoundHost(h, t), Cause(h), NEW r \in Requests, NEW cost,
         h.reservation.session \in Sessions
  PROVE  SoundResult(AdmitHeldAgain(h, r, cost, t), t)
  <1>1. ~Vacant(h) /\ h.reservation.since \in Nat
    BY DEF Vacant, SoundHost, TypedHost, HostType, HeldType
  <1>2. SoundHost(Vacate(h), t) /\ Cause(Vacate(h))
    BY VacateSound DEF Cause
  <1>3. SoundHost(Hold(h, h.reservation.session, r, h.reservation.since, t), t)
    BY <1>1, HoldSound DEF SoundHost, InTimeHost
  <1>4. Cause(Hold(h, h.reservation.session, r, h.reservation.since, t))
    BY <1>1, HoldCause DEF Cause
  <1>5. AdmitHeldAgain(h, r, cost, t).host
          \in {Vacate(h), Hold(h, h.reservation.session, r, h.reservation.since, t)}
    BY DEF AdmitHeldAgain, Answer
  <1> QED
    BY <1>2, <1>3, <1>4, <1>5 DEF SoundResult

\* A second boot of the session that has the slot keeps the record sound.
LEMMA AdmitSlotAgainSound ==
  ASSUME NEW h, NEW t \in Nat, SoundHost(h, t), NEW r \in Requests, h.slot.session \in Sessions
  PROVE  SoundResult(AdmitSlotAgain(h, r, t), t)
  <1> DEFINE slot == [h.slot EXCEPT !.req = r, !.phase = "booting", !.since = t, !.readyAt = None,
                                    !.samples = <<>>, !.droppedFirst = FALSE, !.reboundAt = None]
             k    == [h EXCEPT !.slot = slot]
  <1>1. slot \in SlotType
    <2>1. h.slot \in SlotType
      BY DEF SoundHost, TypedHost, HostType
    <2>2. None \in Time /\ <<>> \in Seq(Nat) /\ r \in Requests \cup {None}
      BY DEF Time
    <2> QED
      BY <2>1, <2>2 DEF SlotType
  <1>2. slot.session = h.slot.session /\ slot.phase = "booting" /\ slot.since = t /\ slot.reboundAt = None
    BY DEF SoundHost, TypedHost, HostType, SlotType
  <1>3. AdmitSlotAgain(h, r, t).host = k
    BY DEF AdmitSlotAgain, Deliver
  <1> HIDE DEF slot
  <1>4. SlotShape(slot) /\ InTimeSlot(slot, t)
    BY <1>2 DEF SlotShape, InTimeSlot, InTime
  <1>5. SoundHost(k, t) /\ k.slot = slot
    BY <1>1, <1>4, SlotReplaced
  <1>6. Cause(k)
    BY <1>2, <1>5 DEF Cause, Free
  <1> QED
    BY <1>3, <1>5, <1>6 DEF SoundResult

\* Admitting or refusing an automated boot keeps the record sound.
LEMMA AdmitAutomatedSound ==
  ASSUME NEW h, NEW t \in Nat, SoundHost(h, t), Cause(h), NEW s \in Sessions, NEW r \in Requests
  PROVE  SoundResult(AdmitAutomated(h, s, r, t), t)
  <1> DEFINE g == TakeSlot(h, s, r, t)
             k == [g EXCEPT !.humanStreak = 0, !.agingWindowUntil = None]
             n == [h EXCEPT !.lastAutomatedRefusalAt = t]
  <1>1. SoundHost(k, t)
    <2>1. SoundHost(g, t) /\ None \in Time
      BY GrantSound DEF Time
    <2> HIDE DEF g
    <2> QED
      BY <2>1 DEF SoundHost, TypedHost, InTimeHost, HostType, Vacant
  <1>2. k.slot = NewSlot(s, r, "booting", t, None)
    BY DEF TakeSlot, SoundHost, TypedHost, HostType
  <1>3. Cause(k)
    BY <1>2, SMTT(20) DEF Cause, Free, NewSlot
  <1>4. SoundHost(n, t)
    BY DEF SoundHost, TypedHost, InTimeHost, HostType, Vacant, Time
  <1>5. Cause(n)
    BY DEF Cause, Free, Vacant, WindowOpen, SoundHost, TypedHost, HostType
  <1>6. AdmitAutomated(h, s, r, t).host \in {k, n}
    BY DEF AdmitAutomated, Deliver, Answer
  <1> QED
    BY <1>1, <1>3, <1>4, <1>5, <1>6 DEF SoundResult

\* Admitting or holding a person's boot keeps the record sound.
LEMMA AdmitPersonSound ==
  ASSUME NEW h, NEW t \in Nat, SoundHost(h, t), Cause(h), NEW s \in Sessions, NEW r \in Requests
  PROVE  SoundResult(AdmitPerson(h, s, r, t), t)
  <1> DEFINE k  == GrantToPerson(h, s, r, t)
             w  == Hold(h, s, r, t, t)
             hs == h.reservation.session
             hr == h.reservation.req
  <1>1. CASE Free(h) /\ ~WindowOpen(h) /\ ~IsCritical(h, t)
    <2>1. SoundHost(k, t)
      BY GrantSound
    <2>2. k.slot = NewSlot(s, r, "booting", t, None)
      BY DEF GrantToPerson, NoteHumanGrant, TakeSlot, SoundHost, TypedHost, HostType
    <2>3. Cause(k)
      BY <2>2 DEF Cause, Free, NewSlot
    <2>4. AdmitPerson(h, s, r, t).host = k
      BY <1>1, PlainResults DEF AdmitPerson
    <2> QED
      BY <2>1, <2>3, <2>4 DEF SoundResult
  <1>2. SoundHost(w, t)
    BY HoldSound DEF InTime
  <1>3. CASE ~(Free(h) /\ ~WindowOpen(h) /\ ~IsCritical(h, t)) /\ Vacant(h)
    <2>1. Cause(w)
      BY <1>3, HoldCause DEF IsCritical
    <2>2. AdmitPerson(h, s, r, t).host = w
      BY <1>3, PlainResults DEF AdmitPerson
    <2> QED
      BY <1>2, <2>1, <2>2 DEF SoundResult
  <1>4. CASE ~(Free(h) /\ ~WindowOpen(h) /\ ~IsCritical(h, t)) /\ ~Vacant(h)
    <2>1. hs \in Sessions /\ hr \in Requests \cup {None}
      BY <1>4 DEF SoundHost, TypedHost, HostType, HeldType, Vacant
    <2>2. CASE Free(h) /\ IsCritical(h, t)
      <3>1. Cause(w)
        BY <2>2, HoldCause DEF IsCritical
      <3>2. AdmitPerson(h, s, r, t) = DeliverAnyway(w, hs, hr, t)
        BY <1>4, <2>2 DEF AdmitPerson
      <3> QED
        BY <1>2, <2>1, <3>1, <3>2, DeliverAnywaySound
    <2>3. CASE ~(Free(h) /\ IsCritical(h, t))
      <3>1. AdmitPerson(h, s, r, t) = DeliverAnyway(h, s, r, t)
        BY <1>4, <2>3 DEF AdmitPerson
      <3> QED
        BY <3>1, DeliverAnywaySound
    <2> QED
      BY <2>2, <2>3
  <1> QED
    BY <1>1, <1>3, <1>4

\* Every branch of admit keeps the record sound.
LEMMA AdmitSound ==
  ASSUME NEW h, NEW t \in Nat, SoundHost(h, t), Cause(h), NEW s \in Sessions, NEW r \in Requests,
         NEW cost, NEW class
  PROVE  SoundResult(Admit(h, s, r, cost, class, t), t)
  <1>1. CASE h.reservation.session = s
    BY <1>1, AdmitHeldAgainSound DEF Admit
  <1>2. CASE h.reservation.session # s /\ h.slot.session = s
    BY <1>2, AdmitSlotAgainSound DEF Admit
  <1>3. CASE h.reservation.session # s /\ h.slot.session # s /\ cost = "warm"
    BY <1>3, PlainResults DEF Admit, SoundResult
  <1>4. CASE /\ h.reservation.session # s /\ h.slot.session # s /\ cost # "warm"
             /\ class = "automated"
    BY <1>4, AdmitAutomatedSound DEF Admit
  <1>5. CASE /\ h.reservation.session # s /\ h.slot.session # s /\ cost # "warm"
             /\ class # "automated"
    BY <1>5, AdmitPersonSound DEF Admit
  <1> QED
    BY <1>1, <1>2, <1>3, <1>4, <1>5

-----------------------------------------------------------------------------
(* onEvent.                                                                 *)

LEMMA EvReadySound ==
  ASSUME NEW h, NEW t \in Nat, SoundHost(h, t), Cause(h), NEW s \in Sessions, NEW cold
  PROVE  SoundResult(EvReady(h, s, cold, t), t)
  <1> DEFINE slot == [h.slot EXCEPT !.phase = "settling", !.readyAt = t, !.samples = <<>>,
                                    !.droppedFirst = FALSE, !.lastSampleAt = None]
             k    == [h EXCEPT !.slot = slot]
             new  == NewSlot(s, None, "settling", t, t)
             n    == [h EXCEPT !.slot = new]
  <1>1. CASE h.slot.session = s
    <2>1. slot \in SlotType
      <3>1. h.slot \in SlotType
        BY DEF SoundHost, TypedHost, HostType
      <3>2. None \in Time /\ t \in Time /\ <<>> \in Seq(Nat)
        BY DEF Time
      <3> QED
        BY <3>1, <3>2 DEF SlotType
    <2>2. slot.session = s /\ slot.phase = "settling" /\ slot.readyAt = t
      BY <1>1 DEF SoundHost, TypedHost, HostType, SlotType
    <2> HIDE DEF slot
    <2>3. SlotShape(slot) /\ InTimeSlot(slot, t)
      BY <2>2 DEF SlotShape, InTimeSlot, InTime
    <2>4. SoundHost(k, t) /\ k.slot = slot
      BY <2>1, <2>3, SlotReplaced
    <2>5. Cause(k)
      BY <2>2, <2>4 DEF Cause, Free
    <2>6. EvReady(h, s, cold, t) = Release(h, t) \/ EvReady(h, s, cold, t).host = k
      BY <1>1, PlainResults DEF EvReady, slot
    <2> HIDE DEF k
    <2> QED
      BY <2>4, <2>5, <2>6, ReleaseSound DEF SoundResult
  <1>2. CASE h.slot.session # s
    <2>1. new \in SlotType /\ SlotShape(new) /\ InTimeSlot(new, t) /\ new.session = s
      BY NewSlotSound DEF NewSlot
    <2>2. EvReady(h, s, cold, t).host \in {h, n}
      BY <1>2, PlainResults DEF EvReady
    <2> HIDE DEF new
    <2>3. SoundHost(n, t) /\ n.slot = new
      BY <2>1, SlotReplaced
    <2>4. Cause(n)
      BY <2>1, <2>3 DEF Cause, Free
    <2> QED
      BY <2>2, <2>3, <2>4 DEF SoundResult
  <1> QED
    BY <1>1, <1>2

\* The last few of a list of readings are readings, and no more than asked for.
LEMMA LastSamplesType ==
  ASSUME NEW samples \in Seq(Nat)
  PROVE  LastSamples(samples) \in Seq(Nat)
  <1>1. SettleSamples \in Nat
    OBVIOUS
  <1>2. Len(samples) \in Nat /\ \A i \in 1 .. Len(samples) : samples[i] \in Nat
    BY LenProperties, ElementOfSeq
  <1>3. CASE Len(samples) <= SettleSamples
    BY <1>3 DEF LastSamples
  <1>4. CASE ~(Len(samples) <= SettleSamples)
    <2> DEFINE first == Len(samples) - SettleSamples + 1
    <2>1. first \in Int /\ first >= 1
      BY <1>1, <1>2, <1>4
    <2>2. LastSamples(samples) = SubSeq(samples, first, Len(samples))
      BY <1>4 DEF LastSamples
    <2> HIDE DEF first
    <2>3. \A i \in first .. Len(samples) : samples[i] \in Nat
      BY <1>2, <2>1
    <2>4. SubSeq(samples, first, Len(samples)) \in Seq(Nat)
      BY <1>2, <2>1, <2>3, SubSeqProperties, SMTT(20)
    <2> QED
      BY <2>2, <2>4
  <1> QED
    BY <1>3, <1>4

\* A CPU reading keeps the record sound, whether it settles the slot or not (onSample).
LEMMA EvSampleSound ==
  ASSUME NEW h, NEW t \in Nat, SoundHost(h, t), Cause(h), NEW cpu \in Nat
  PROVE  SoundResult(EvSample(h, cpu, t), t)
  <1> DEFINE stale == h.slot.lastSampleAt # None /\ t - h.slot.lastSampleAt > FreshMs
             kept  == IF stale THEN <<>> ELSE h.slot.samples
             taken == IF h.slot.droppedFirst THEN LastSamples(Append(kept, cpu)) ELSE kept
             slot  == [h.slot EXCEPT !.lastSampleAt = t, !.samples = taken, !.droppedFirst = TRUE]
             next  == [h EXCEPT !.slot = slot]
  <1>1. h.slot \in SlotType /\ t \in Time
    BY DEF SoundHost, TypedHost, HostType, Time
  <1>2. kept \in Seq(Nat)
    BY <1>1, SMTT(20) DEF SlotType
  <1>3. taken \in Seq(Nat)
    <2> HIDE DEF kept
    <2>1. Append(kept, cpu) \in Seq(Nat)
      BY <1>2
    <2> QED
      BY <1>2, <2>1, LastSamplesType
  <1>4. EvSample(h, cpu, t).host = h \/ EvSample(h, cpu, t) = Release(next, t)
        \/ (EvSample(h, cpu, t).host = next /\ ~Free(h))
    BY PlainResults, ZenonT(30) DEF EvSample
  <1> HIDE DEF taken
  <1>5. slot \in SlotType
    BY <1>1, <1>3 DEF SlotType
  <1>6. /\ slot.session = h.slot.session /\ slot.phase = h.slot.phase /\ slot.since = h.slot.since
        /\ slot.readyAt = h.slot.readyAt /\ slot.reboundAt = h.slot.reboundAt
        /\ slot.lastSampleAt = t
    BY <1>1 DEF SlotType
  <1> HIDE DEF slot
  <1>7. SlotShape(slot) /\ InTimeSlot(slot, t)
    BY <1>6 DEF SlotShape, InTimeSlot, SoundHost, TypedHost, InTimeHost
  <1>8. SoundHost(next, t) /\ next.slot = slot
    BY <1>5, <1>7, SlotReplaced
  <1>9. ~Free(h) => Cause(next)
    BY <1>6, <1>8 DEF Cause, Free
  <1> HIDE DEF next
  <1> QED
    BY <1>4, <1>8, <1>9, ReleaseSound DEF SoundResult

\* A pressure reading keeps the record sound (onPressure).
LEMMA EvPressureSound ==
  ASSUME NEW h, NEW t \in Nat, SoundHost(h, t), Cause(h), NEW critical \in BOOLEAN
  PROVE  SoundResult(EvPressure(h, critical, t), t)
  <1> DEFINE left == IF ~WindowOpen(h) THEN h.windowLeft
                     ELSE IF h.agingWindowUntil > t THEN h.agingWindowUntil - t ELSE 0
             up   == [h EXCEPT !.criticalUntil = t + FreshMs]
             k    == [up EXCEPT !.windowLeft = left]
  <1>1. left \in Time
    BY DEF Time, WindowOpen, SoundHost, TypedHost, HostType
  <1>2. EvPressure(h, critical, t).host \in {up, RefreshWaiting(k, t), h}
        \/ EvPressure(h, critical, t) = CriticalEnded(h, t)
    BY PlainResults DEF EvPressure
  <1> HIDE DEF left
  <1>3. t + FreshMs \in Time /\ t + FreshMs # None /\ InTime(t, t + FreshMs)
    BY DEF Time, InTime
  <1>4. SoundHost(up, t) /\ up.criticalUntil = t + FreshMs
    BY <1>3 DEF SoundHost, TypedHost, InTimeHost, HostType, Vacant
  <1> HIDE DEF up
  <1>5. SoundHost(k, t) /\ k.criticalUntil = t + FreshMs
    BY <1>1, <1>4 DEF SoundHost, TypedHost, InTimeHost, HostType, Vacant
  <1>6. Cause(up) /\ Cause(k)
    BY <1>3, <1>4, <1>5 DEF Cause
  <1> HIDE DEF k
  <1>7. SoundHost(RefreshWaiting(k, t), t) /\ Cause(RefreshWaiting(k, t))
    BY <1>5, <1>6, RefreshSound
  <1>8. CASE EvPressure(h, critical, t) = CriticalEnded(h, t)
    BY <1>8, CriticalEndedSound
  <1> QED
    BY <1>2, <1>4, <1>6, <1>7, <1>8 DEF SoundResult

\* A boot's failure keeps the record sound.
LEMMA EvBootErrorSound ==
  ASSUME NEW h, NEW t \in Nat, SoundHost(h, t), Cause(h), NEW s, NEW r
  PROVE  SoundResult(EvBootError(h, s, r, t), t)
  BY ReleaseSound, PlainResults DEF EvBootError, SoundResult

\* A viewer's leaving keeps the record sound: what it waited for is withdrawn.
LEMMA EvBrowserClosedSound ==
  ASSUME NEW h, NEW t \in Nat, SoundHost(h, t), Cause(h), NEW s
  PROVE  SoundResult(EvBrowserClosed(h, s), t)
  <1>1. Cause(Vacate(h))
    BY VacateSound DEF Cause
  <1> QED
    BY <1>1, VacateSound, PlainResults DEF EvBrowserClosed, SoundResult

\* A session's end keeps the record sound.
LEMMA EvGoneSound ==
  ASSUME NEW h, NEW t \in Nat, SoundHost(h, t), Cause(h), NEW s
  PROVE  SoundResult(EvGone(h, s, t), t)
  <1> DEFINE out == EvBrowserClosed(h, s)
  <1>1. SoundResult(out, t)
    BY EvBrowserClosedSound
  <1>2. SoundResult(Release(out.host, t), t)
    BY <1>1, ReleaseSound DEF SoundResult
  <1>3. EvGone(h, s, t).host \in {out.host, Release(out.host, t).host}
    BY DEF EvGone, Release, DispatchReservation, Quiet, Deliver
  <1> HIDE DEF out
  <1> QED
    BY <1>1, <1>2, <1>3 DEF SoundResult

\* A session kept across its agent's return keeps the record sound.
LEMMA EvReboundSound ==
  ASSUME NEW h, NEW t \in Nat, SoundHost(h, t), Cause(h), NEW s
  PROVE  SoundResult(EvRebound(h, s, t), t)
  <1> DEFINE slot == [h.slot EXCEPT !.reboundAt = t]
             k    == [h EXCEPT !.slot = slot]
  <1>1. h.slot \in SlotType /\ t \in Time
    BY DEF SoundHost, TypedHost, HostType, Time
  <1>2. /\ slot \in SlotType /\ slot.session = h.slot.session /\ slot.phase = h.slot.phase
        /\ slot.since = h.slot.since /\ slot.readyAt = h.slot.readyAt
        /\ slot.lastSampleAt = h.slot.lastSampleAt /\ slot.reboundAt = t
    BY <1>1 DEF SlotType
  <1>3. EvRebound(h, s, t).host \in {h, k}
    BY <1>1, PlainResults DEF EvRebound, SlotType, SoundHost, TypedHost, HostType
  <1> HIDE DEF slot
  <1>4. SlotShape(slot) /\ InTimeSlot(slot, t)
    BY <1>2 DEF SlotShape, InTimeSlot, InTime, SoundHost, TypedHost, InTimeHost
  <1>5. SoundHost(k, t) /\ k.slot = slot
    BY <1>2, <1>4, SlotReplaced
  <1>6. Cause(k)
    BY <1>2, <1>5 DEF Cause, Free, Vacant, WindowOpen, SoundHost, TypedHost, HostType
  <1> QED
    BY <1>3, <1>5, <1>6 DEF SoundResult

-----------------------------------------------------------------------------
(* tick.                                                                    *)

LEMMA TickSound ==
  ASSUME NEW h, NEW t \in Nat, SoundHost(h, t), Cause(h)
  PROVE  SoundResult(TickHost(h, t), t)
  <1> DEFINE a == TickPressure(h, t)
             b == TickSlot(a.host, t)
             c == TickWindow(b.host, t)
             d == TickHeld(c.host, t)
  <1>1. SoundResult(a, t)
    BY CriticalEndedSound, PlainResults DEF TickPressure, SoundResult
  <1> HIDE DEF a
  <1>2. SoundResult(b, t)
    BY <1>1, ReleaseSound, PlainResults DEF TickSlot, SoundResult
  <1> HIDE DEF b
  <1>3. SoundResult(c, t)
    <2> DEFINE k == b.host
               w == [k EXCEPT !.agingWindowUntil = None]
               z == [w EXCEPT !.humanStreak = 0]
    <2>1. SoundHost(w, t)
      BY <1>2, WindowSound DEF SoundResult, Time
    <2>2. [k EXCEPT !.agingWindowUntil = None, !.humanStreak = 0] = z
      OBVIOUS
    <2> HIDE DEF w
    <2>3. SoundHost(z, t)
      BY <2>1 DEF SoundHost, TypedHost, InTimeHost, HostType, Vacant
    <2>4. c.host = k \/ c = DispatchReservation(z, t)
      BY <2>2, PlainResults DEF TickWindow
    <2> HIDE DEF z
    <2> QED
      BY <1>2, <2>3, <2>4, DispatchSound DEF SoundResult
  <1> HIDE DEF c
  <1>4. SoundResult(d, t)
    <2> DEFINE k == c.host
               v == Vacate(k)
    <2>1. CASE ~Vacant(k) /\ t >= k.reservation.since + HumanWaitMs
      <3>1. k.reservation.session \in Sessions /\ k.reservation.req \in Requests \cup {None}
        BY <1>3, <2>1 DEF SoundResult, SoundHost, TypedHost, HostType, HeldType, Vacant
      <3>2. SoundHost(v, t) /\ Cause(v)
        BY <1>3, VacateSound DEF SoundResult, Cause
      <3>3. d = DeliverAnyway(v, k.reservation.session, k.reservation.req, t)
        BY <2>1 DEF TickHeld
      <3> QED
        BY <3>1, <3>2, <3>3, DeliverAnywaySound
    <2>2. CASE ~(~Vacant(k) /\ t >= k.reservation.since + HumanWaitMs)
      <3>1. d.host = k
        BY <2>2, PlainResults DEF TickHeld
      <3> QED
        BY <1>3, <3>1 DEF SoundResult
    <2> QED
      BY <2>1, <2>2
  <1>5. TickHost(h, t).host = d.host
    BY DEF TickHost, a, b, c
  <1> QED
    BY <1>4, <1>5 DEF SoundResult

-----------------------------------------------------------------------------
(* The timer.                                                               *)

LEMMA LeastNatural ==
  ASSUME NEW T \in SUBSET Nat, T # {}
  PROVE  \E d \in T : \A e \in T : d <= e
  <1>1. PICK d \in T : \A e \in T : ~(<<e, d>> \in OpToRel(<, Nat))
    BY NatLessThanWellFounded, WFMin
  <1>2. \A e \in T : ~(e < d)
    BY <1>1 DEF OpToRel
  <1> QED
    BY <1>2

\* The deadlines of a sound record are times.
LEMMA DeadlinesAreNatural ==
  ASSUME NEW h, NEW t \in Nat, TypedHost(h)
  PROVE  Deadlines(h, t) \subseteq Nat
  <1>1. h.slot.since \in Nat /\ h.reservation.since \in Nat
        /\ h.slot.readyAt \in Time /\ h.slot.reboundAt \in Time
        /\ h.criticalUntil \in Time /\ h.agingWindowUntil \in Time
    BY DEF TypedHost, HostType, SlotType, HeldType
  <1>2. h.slot.phase = "settling" => h.slot.readyAt \in Nat
    BY <1>1 DEF TypedHost, SlotShape, Time
  <1> QED
    BY <1>1, <1>2 DEF Deadlines, Time, WindowOpen

\* Each deadline that binds a record is among those the timer looks at (nextDeadline).
LEMMA FirmDeadlineIsDeadline ==
  ASSUME NEW h, NEW t \in Nat, TypedHost(h), NEW d, FirmDeadline(h, d)
  PROVE  d \in Deadlines(h, t)
  <1>1. h.slot.phase # "free" => ~Free(h)
    BY DEF TypedHost, SlotShape, Free
  <1> QED
    BY <1>1 DEF FirmDeadline, Deadlines

\* The timer is armed no later than any deadline of any Mac.
LEMMA NextDeadlineIsFirst ==
  ASSUME NEW hs, NEW t \in Nat, \A m \in Hosts : TypedHost(hs[m])
  PROVE  /\ NextDeadline(hs, t) \in Time
         /\ \A m \in Hosts : \A d \in Deadlines(hs[m], t) :
              NextDeadline(hs, t) # None /\ NextDeadline(hs, t) <= d
  <1> DEFINE all == UNION {Deadlines(hs[m], t) : m \in Hosts}
  <1>1. all \in SUBSET Nat
    BY DeadlinesAreNatural
  <1>2. CASE all = {}
    BY <1>2 DEF NextDeadline, Time
  <1>3. CASE all # {}
    <2> DEFINE n == CHOOSE d \in all : \A e \in all : d <= e
    <2>1. NextDeadline(hs, t) = n
      BY <1>3 DEF NextDeadline
    <2>2. \A m \in Hosts : Deadlines(hs[m], t) \subseteq all
      OBVIOUS
    <2> HIDE DEF all
    <2>3. n \in all /\ \A e \in all : n <= e
      BY <1>1, <1>3, LeastNatural
    <2> QED
      BY <1>1, <2>1, <2>2, <2>3 DEF Time
  <1> QED
    BY <1>2, <1>3

-----------------------------------------------------------------------------
(* The invariant.                                                           *)

\* The timer covers every firm deadline, and an open window's unless a pressure
\* reading, whose own deadline it then covers, has the window frozen.
Armed ==
  \A m \in Hosts :
    /\ \A d : FirmDeadline(host[m], d) => (timer # None /\ timer <= d)
    /\ WindowOpen(host[m]) =>
         /\ timer # None
         /\ timer <= host[m].agingWindowUntil \/ host[m].criticalUntil # None

GateInv ==
  /\ TypeOK
  /\ \A m \in Hosts : SoundHost(host[m], now) /\ Cause(host[m])
  /\ Armed

\* Carrying out what a gate call decided, where a boot it sends may be lost, keeps the record sound (applyGate).
LEMMA CarrySound ==
  ASSUME NEW res, NEW t \in Nat, SoundResult(res, t), NEW dead
  PROVE  SoundResult(Carry(res, dead, t), t)
  <1>1. Carry(res, dead, t).host \in {res.host, Release(res.host, t).host}
    BY DEF Carry
  <1>2. SoundResult(Release(res.host, t), t)
    BY ReleaseSound DEF SoundResult
  <1> QED
    BY <1>1, <1>2 DEF SoundResult

\* Settling the boots a gate call answered or sent keeps the type of `ask`.
LEMMA SettleType ==
  ASSUME NEW asks \in [Requests -> AskType], NEW res
  PROVE  Settle(asks, res) \in [Requests -> AskType]
  <1>1. NoAsk \in AskType
    BY DEF NoAsk, AskType
  <1>2. \A r \in Requests : [asks[r] EXCEPT !.at = "agent"] \in AskType
    BY DEF AskType
  <1> QED
    BY <1>1, <1>2 DEF Settle

\* Records of the Macs that are sound now, with the timer armed from them, give
\* the invariant in the next state.
LEMMA RearmedInv ==
  ASSUME now \in Nat, now' = now,
         host' \in [Hosts -> HostType],
         \A m \in Hosts : SoundHost(host'[m], now) /\ Cause(host'[m]),
         timer' = NextDeadline(host', now),
         ask' \in [Requests -> AskType]
  PROVE  GateInv'
  <1>1. \A m \in Hosts : TypedHost(host'[m])
    BY DEF SoundHost
  <1>2. /\ timer' \in Time
        /\ \A m \in Hosts : \A d \in Deadlines(host'[m], now) : timer' # None /\ timer' <= d
    BY <1>1, NextDeadlineIsFirst
  <1>3. TypeOK'
    BY <1>1, <1>2 DEF TypeOK, TypedHost
  <1>4. ASSUME NEW m \in Hosts, NEW d, FirmDeadline(host'[m], d)
        PROVE  timer' # None /\ timer' <= d
    BY <1>1, <1>2, <1>4, FirmDeadlineIsDeadline
  <1>5. ASSUME NEW m \in Hosts, WindowOpen(host'[m])
        PROVE  /\ timer' # None
               /\ timer' <= host'[m].agingWindowUntil \/ host'[m].criticalUntil # None
    <2>1. CASE IsCritical(host'[m], now)
      <3>1. FirmDeadline(host'[m], host'[m].criticalUntil)
        BY <2>1 DEF FirmDeadline, IsCritical
      <3> QED
        BY <1>4, <2>1, <3>1 DEF IsCritical
    <2>2. CASE ~IsCritical(host'[m], now)
      <3>1. host'[m].agingWindowUntil \in Deadlines(host'[m], now)
        BY <1>5, <2>2 DEF Deadlines
      <3> QED
        BY <1>2, <3>1
    <2> QED
      BY <2>1, <2>2
  <1>6. Armed'
    BY <1>4, <1>5 DEF Armed, FirmDeadline, WindowOpen, Vacant
  <1> QED
    BY <1>3, <1>6 DEF GateInv, SoundHost, TypedHost, InTimeHost, InTimeSlot, InTime, SlotShape,
                      Cause, Vacant, Free, WindowOpen

\* The initial state satisfies the invariant.
LEMMA InitInv == Init => GateInv
  <1> SUFFICES ASSUME Init PROVE GateInv
    OBVIOUS
  <1>1. NewHost \in HostType /\ NewHost.slot = NoSlot /\ NewHost.reservation = NoHeld
        /\ NewHost.criticalUntil = None /\ NewHost.agingWindowUntil = None
    BY NoSlotSound, NoHeldTyped DEF NewHost, HostType, Time
  <1>2. NoHeld.session = None /\ NoSlot.phase = "free" /\ NoSlot.session = None
    BY DEF NoHeld, NoSlot, NewSlot
  <1>3. SoundHost(NewHost, 0) /\ Cause(NewHost)
    BY <1>1, <1>2, NoSlotSound
    DEF SoundHost, TypedHost, InTimeHost, Cause, Vacant
  <1>4. TypeOK
    BY <1>1, <1>2, NoSlotSound DEF Init, TypeOK, Time, NoAsk, AskType
  <1>5. Armed
    BY <1>1, <1>2 DEF Init, Armed, FirmDeadline, Vacant, WindowOpen
  <1> QED
    BY <1>3, <1>4, <1>5 DEF Init, GateInv

-----------------------------------------------------------------------------
(* Every step keeps the invariant.                                          *)

LEMMA ApplyInv ==
  ASSUME GateInv, NEW m \in Hosts, NEW asks \in [Requests -> AskType], NEW res, NEW dead,
         SoundResult(res, now), Apply(m, asks, res, dead)
  PROVE  GateInv'
  <1> DEFINE out == Carry(res, dead, now)
  <1>1. now \in Nat /\ host \in [Hosts -> HostType]
    BY DEF GateInv, TypeOK
  <1>2. SoundResult(out, now)
    BY <1>1, CarrySound
  <1>3. /\ now' = now /\ host' = [host EXCEPT ![m] = out.host]
        /\ ask' = Settle(asks, out) /\ timer' = NextDeadline(host', now)
    BY DEF Apply
  <1> HIDE DEF out
  <1>4. host' \in [Hosts -> HostType]
    BY <1>1, <1>2, <1>3 DEF SoundResult, SoundHost, TypedHost
  <1>5. \A n \in Hosts : SoundHost(host'[n], now) /\ Cause(host'[n])
    BY <1>1, <1>2, <1>3 DEF SoundResult, GateInv
  <1>6. ask' \in [Requests -> AskType]
    BY <1>3, SettleType
  <1> QED
    BY <1>1, <1>3, <1>4, <1>5, <1>6, RearmedInv

\* Forgetting the correlators of ended boots keeps the type of `ask`.
LEMMA ForgetType ==
  ASSUME TypeOK, NEW s
  PROVE  Forget(s) \in [Requests -> AskType]
  BY DEF TypeOK, Forget, NoAsk, AskType

\* A tick of the timer keeps the invariant.
LEMMA TickInv ==
  ASSUME GateInv, NEW dead, Tick(dead)
  PROVE  GateInv'
  <1> DEFINE out == [m \in Hosts |-> Carry(TickHost(host[m], now), dead, now)]
  <1>1. now \in Nat /\ ask \in [Requests -> AskType]
    BY DEF GateInv, TypeOK
  <1>2. \A m \in Hosts : SoundResult(out[m], now)
    BY <1>1, TickSound, CarrySound DEF GateInv
  <1>3. /\ now' = now /\ host' = [m \in Hosts |-> out[m].host]
        /\ timer' = NextDeadline(host', now)
    BY DEF Tick
  <1>4. ask' \in [Requests -> AskType]
    BY <1>1, SettleType DEF Tick
  <1> HIDE DEF out
  <1>5. \A m \in Hosts : SoundHost(host'[m], now) /\ Cause(host'[m])
    BY <1>2, <1>3 DEF SoundResult
  <1>6. host' \in [Hosts -> HostType]
    BY <1>2, <1>3 DEF SoundResult, SoundHost, TypedHost
  <1> QED
    BY <1>1, <1>3, <1>4, <1>5, <1>6, RearmedInv

\* The clock moves only while the timer is not yet TimerLag late.
LEMMA AdvanceInv ==
  ASSUME GateInv, Advance
  PROVE  GateInv'
  <1>1. /\ now \in Nat /\ now' = now + 1 /\ host' = host /\ timer' = timer /\ ask' = ask
        /\ timer # None => (timer \in Nat /\ now + 1 <= timer + TimerLag)
    BY DEF GateInv, TypeOK, Advance, Time
  <1>2. ASSUME NEW m \in Hosts, NEW d \in Nat, FirmDeadline(host[m], d)
        PROVE  InTime(now + 1, d)
    <2>1. timer # None /\ timer <= d
      BY <1>2 DEF GateInv, Armed
    <2> QED
      BY <1>1, <2>1 DEF InTime
  <1>3. ASSUME NEW m \in Hosts
        PROVE  SoundHost(host[m], now + 1)
    <2>1. TypedHost(host[m])
      BY DEF GateInv, SoundHost
    <2>2. /\ host[m].slot.since \in Nat /\ host[m].reservation.since \in Nat
          /\ host[m].slot.readyAt \in Time /\ host[m].slot.reboundAt \in Time
          /\ host[m].criticalUntil \in Time
          /\ host[m].slot.phase = "settling" => host[m].slot.readyAt # None
      BY <2>1 DEF TypedHost, HostType, SlotType, HeldType, SlotShape
    <2>3. InTimeSlot(host[m].slot, now + 1)
      BY <1>2, <2>2 DEF InTimeSlot, FirmDeadline, Time
    <2>4. host[m].criticalUntil # None => InTime(now + 1, host[m].criticalUntil)
      BY <1>2, <2>2 DEF FirmDeadline, Time
    <2>5. ~Vacant(host[m]) => InTime(now + 1, host[m].reservation.since + HumanWaitMs)
      BY <1>2, <2>2 DEF FirmDeadline
    <2> QED
      BY <2>1, <2>3, <2>4, <2>5 DEF SoundHost, InTimeHost
  <1>4. now' \in Nat
    BY <1>1
  <1>5. TypeOK'
    BY <1>1, <1>4 DEF GateInv, TypeOK
  <1>6. \A m \in Hosts : SoundHost(host'[m], now') /\ Cause(host'[m])
    BY <1>1, <1>3 DEF GateInv
  <1>7. Armed'
    BY <1>1 DEF GateInv, Armed, FirmDeadline, Vacant, WindowOpen
  <1>8. (\A m \in Hosts : SoundHost(host[m], now) /\ Cause(host[m]))'
    BY <1>6 DEF SoundHost, TypedHost, InTimeHost, InTimeSlot, InTime, SlotShape,
                Cause, Vacant, Free, WindowOpen
  <1> QED
    BY <1>5, <1>7, <1>8 DEF GateInv

\* Every step of the gate, the agents, the viewers and the clock keeps the invariant.
LEMMA StepInv == GateInv /\ [Next]_vars => GateInv'
  <1> SUFFICES ASSUME GateInv, [Next]_vars
               PROVE  GateInv'
    OBVIOUS
  <1>1. /\ now \in Nat /\ ask \in [Requests -> AskType]
        /\ \A s \in Sessions : HostOf[s] \in Hosts
        /\ \A m \in Hosts : SoundHost(host[m], now) /\ Cause(host[m])
    BY DEF GateInv, TypeOK
  <1>2. ASSUME NEW s \in Sessions, NEW dead, Leave(s, dead)
        PROVE  GateInv'
    <2>1. SoundResult(EvBrowserClosed(host[HostOf[s]], s), now)
      BY <1>1, EvBrowserClosedSound
    <2> QED
      BY <1>1, <1>2, <2>1, ApplyInv DEF Leave
  <1>3. ASSUME NEW s \in Sessions, NEW dead, ShutdownDone(s, dead)
        PROVE  GateInv'
    <2>1. SoundResult(EvGone(host[HostOf[s]], s, now), now)
      BY <1>1, EvGoneSound
    <2> QED
      BY <1>1, <1>3, <2>1, ApplyInv DEF ShutdownDone
  <1>4. ASSUME NEW s \in Sessions, NEW dead, SessionRemoved(s, dead)
        PROVE  GateInv'
    <2>1. SoundResult(EvGone(host[HostOf[s]], s, now), now)
      BY <1>1, EvGoneSound
    <2>2. Forget(s) \in [Requests -> AskType]
      BY ForgetType DEF GateInv
    <2> QED
      BY <1>1, <1>4, <2>1, <2>2, ApplyInv DEF SessionRemoved
  <1>5. ASSUME NEW s \in Sessions, NEW r \in Requests, NEW cost,
               NEW class \in {"interactive", "automated"}, NEW dead, Boot(s, r, cost, class, dead)
        PROVE  GateInv'
    <2>1. SoundResult(Admit(host[HostOf[s]], s, r, cost, class, now), now)
      BY <1>1, AdmitSound
    <2>2. [ask EXCEPT ![r] = [session |-> s, class |-> class, at |-> "held"]]
            \in [Requests -> AskType]
      BY <1>1 DEF AskType
    <2> QED
      BY <1>1, <1>5, <2>1, <2>2, ApplyInv DEF Boot
  <1>6. NoAsk \in AskType
    BY DEF NoAsk, AskType
  <1>7. ASSUME NEW s \in Sessions, NEW r \in Requests, NEW cold, NEW dead, Ready(s, r, cold, dead)
        PROVE  GateInv'
    <2>1. SoundResult(EvReady(host[HostOf[s]], s, cold, now), now)
      BY <1>1, EvReadySound
    <2>2. [ask EXCEPT ![r] = NoAsk] \in [Requests -> AskType]
      BY <1>1, <1>6
    <2> QED
      BY <1>1, <1>7, <2>1, <2>2, ApplyInv DEF Ready
  <1>8. ASSUME NEW s \in Sessions, NEW r \in Requests \cup {None}, NEW dead, BootError(s, r, dead)
        PROVE  GateInv'
    <2>1. SoundResult(EvBootError(host[HostOf[s]], s, r, now), now)
      BY <1>1, EvBootErrorSound
    <2>2. (IF r = None THEN ask ELSE [ask EXCEPT ![r] = NoAsk]) \in [Requests -> AskType]
      BY <1>1, <1>6
    <2> QED
      BY <1>1, <1>8, <2>1, <2>2, ApplyInv DEF BootError
  <1>9. ASSUME NEW m \in Hosts, NEW cpu \in Cpu, NEW p \in Pressure, NEW dead,
               Resources(m, cpu, p, dead)
        PROVE  GateInv'
    <2> DEFINE a == Carry(EvSample(host[m], cpu, now), dead, now)
               b == IF p = "none" THEN Quiet(a.host) ELSE EvPressure(a.host, p = "critical", now)
    <2>1. SoundResult(a, now)
      BY <1>1, EvSampleSound, CarrySound
    <2>2. Settle(ask, a) \in [Requests -> AskType]
      BY <1>1, SettleType
    <2>3. Apply(m, Settle(ask, a), b, dead)
      BY <1>9 DEF Resources
    <2> HIDE DEF a
    <2>4. (p = "critical") \in BOOLEAN
      OBVIOUS
    <2>5. SoundResult(b, now)
      BY <1>1, <2>1, <2>4, EvPressureSound, PlainResults DEF SoundResult
    <2> HIDE DEF b
    <2> QED
      BY <1>9, <2>2, <2>3, <2>5, ApplyInv
  <1>10. ASSUME NEW dead, Tick(dead)
         PROVE  GateInv'
    BY <1>10, TickInv
  <1>11. ASSUME NEW s \in Sessions, Rebound(s)
         PROVE  GateInv'
    <2>1. SoundResult(EvRebound(host[HostOf[s]], s, now), now)
      BY <1>1, EvReboundSound
    <2>2. Forget(s) \in [Requests -> AskType]
      BY ForgetType DEF GateInv
    <2> QED
      BY <1>1, <1>11, <2>1, <2>2, ApplyInv DEF Rebound
  <1>12. CASE Advance
    BY <1>12, AdvanceInv
  <1>13. CASE UNCHANGED vars
    BY <1>13 DEF vars, GateInv, TypeOK, Armed, SoundHost, TypedHost, InTimeHost, InTimeSlot,
                 InTime, SlotShape, Cause, FirmDeadline, Vacant, Free, WindowOpen
  <1>14. ASSUME NEW dead, NEW s \in Sessions,
                Leave(s, dead) \/ ShutdownDone(s, dead) \/ SessionRemoved(s, dead)
         PROVE  GateInv'
    BY <1>14, <1>2, <1>3, <1>4
  <1>15. ASSUME NEW dead, NEW s \in Sessions, NEW r \in Requests,
                \/ \E cost \in {"cold", "warm"}, class \in {"interactive", "automated"} :
                     Boot(s, r, cost, class, dead)
                \/ \E cold \in {"yes", "no", "unsaid"} : Ready(s, r, cold, dead)
         PROVE  GateInv'
    BY <1>15, <1>5, <1>7
  <1>16. CASE \E dead \in SUBSET HeldSessions, s \in Sessions :
                Leave(s, dead) \/ ShutdownDone(s, dead) \/ SessionRemoved(s, dead)
    BY <1>16, <1>14
  <1>17. CASE \E dead \in SUBSET HeldSessions, s \in Sessions, r \in Requests :
                \/ \E cost \in {"cold", "warm"}, class \in {"interactive", "automated"} :
                     Boot(s, r, cost, class, dead)
                \/ \E cold \in {"yes", "no", "unsaid"} : Ready(s, r, cold, dead)
    BY <1>17, <1>15
  <1>18. CASE \E dead \in SUBSET HeldSessions, s \in Sessions, r \in Requests \cup {None} :
                BootError(s, r, dead)
    BY <1>18, <1>8
  <1>19. CASE \E dead \in SUBSET HeldSessions, m \in Hosts, cpu \in Cpu, p \in Pressure :
                Resources(m, cpu, p, dead)
    BY <1>19, <1>9
  <1>20. CASE \E dead \in SUBSET HeldSessions : Tick(dead)
    BY <1>20, <1>10
  <1>21. CASE \E s \in Sessions : Rebound(s)
    BY <1>21, <1>11
  <1> QED
    BY <1>12, <1>13, <1>16, <1>17, <1>18, <1>19, <1>20, <1>21 DEF Next

\* The inductive invariant holds in every reachable state of the gate and its timer.
THEOREM Invariance == Spec => []GateInv
  <1> QED
    BY InitInv, StepInv, PTL DEF Spec

-----------------------------------------------------------------------------
(* The theorems.                                                            *)

\* Every variable keeps its type and every slot its shape, whatever the Macs,
\* the timings and the order of requests, agent answers and ticks.
THEOREM TypeCorrect == Spec => []TypeOK
  <1>1. GateInv => TypeOK
    BY DEF GateInv
  <1> QED
    BY Invariance, <1>1, PTL

\* No person waits in a reservation longer than humanWaitMs and the timer's own
\* lateness, for any number of Macs, sessions and boots and any timing constants.
THEOREM WaitBounded == Spec => []HumanWaitBounded
  <1>1. GateInv => HumanWaitBounded
    BY DEF GateInv, SoundHost, InTimeHost, InTime, HumanWaitBounded
  <1> QED
    BY Invariance, <1>1, PTL

\* No boot keeps a Mac's slot past its deadline, whatever the agent sends or omits.
THEOREM SlotIsBounded == Spec => []SlotBounded
  <1>1. GateInv => SlotBounded
    BY DEF GateInv, SoundHost, InTimeHost, InTimeSlot, InTime, SlotBounded
  <1> QED
    BY Invariance, <1>1, PTL

\* A boot is held only while something that will end is in its way: a slot, an
\* ageing window or a pressure reading.
THEOREM HeldHasCause == Spec => []WaitHasCause
  <1>1. GateInv => WaitHasCause
    BY DEF GateInv, Cause, WaitHasCause
  <1> QED
    BY Invariance, <1>1, PTL

\* The one timer of the relay never leaves a deadline of any Mac uncovered.
THEOREM TimerIsEnough == Spec => []TimerCoversDeadlines
  <1>1. GateInv => TimerCoversDeadlines
    <2> SUFFICES ASSUME GateInv, NEW m \in Hosts, NEW d \in Deadlines(host[m], now)
                 PROVE  timer # None /\ (timer <= d \/ timer <= now)
      BY DEF TimerCoversDeadlines
    <2>1. CASE WindowOpen(host[m]) /\ ~IsCritical(host[m], now) /\ d = host[m].agingWindowUntil
      <3>1. timer # None /\ (timer <= d \/ host[m].criticalUntil # None)
        BY <2>1 DEF GateInv, Armed
      <3>2. CASE host[m].criticalUntil # None
        <4>1. FirmDeadline(host[m], host[m].criticalUntil)
          BY <3>2 DEF FirmDeadline
        <4>2. timer <= host[m].criticalUntil
          BY <4>1 DEF GateInv, Armed
        <4>3. host[m].criticalUntil <= now
          BY <2>1, <3>2 DEF IsCritical, GateInv, TypeOK, HostType, Time
        <4>4. timer \in Nat /\ now \in Nat /\ host[m].criticalUntil \in Nat
          BY <3>1, <3>2 DEF GateInv, TypeOK, HostType, Time
        <4> QED
          BY <3>1, <4>2, <4>3, <4>4
      <3> QED
        BY <3>1, <3>2
    <2>2. CASE ~(WindowOpen(host[m]) /\ ~IsCritical(host[m], now) /\ d = host[m].agingWindowUntil)
      <3>1. FirmDeadline(host[m], d)
        BY <2>2 DEF Deadlines, FirmDeadline
      <3> QED
        BY <3>1 DEF GateInv, Armed
    <2> QED
      BY <2>1, <2>2
  <1> QED
    BY Invariance, <1>1, PTL

-----------------------------------------------------------------------------
(* What a gate call may do to the reservation and the slot of one Mac is the
   relation Moved, which every operator but admit satisfies and which composes;
   admit has a relation of its own.  Accounted, the agreement of a Mac's record
   with the requests, is preserved by both.                                 *)

(* The boots that are out.                                                  *)

\* s names no session, or one whose device runs on m.
Home(m, s) == s = None \/ (s \in Sessions /\ HostOf[s] = m)

Homed(m, h) == Home(m, h.slot.session) /\ Home(m, h.reservation.session)

\* The slot's newest boot is with an agent that has not restarted under it.
Out(h) == h.slot.phase = "booting" /\ h.slot.reboundAt = None

\* The request is on its way or waits, for a device of m.
Of(m, a) == a.at # "nobody" /\ a.session \in Sessions /\ HostOf[a.session] = m

\* What m's record h and the account A of the requests say of each other.
Accounted(m, h, A) ==
  /\ Homed(m, h)
  /\ Vacant(h) => h.reservation.req = None
  /\ ~Vacant(h) => /\ h.reservation.req \in Requests
                   /\ A[h.reservation.req].at = "held"
                   /\ A[h.reservation.req].session = h.reservation.session
  /\ \A r \in Requests : (A[r].at = "held" /\ Of(m, A[r])) => h.reservation.req = r
  /\ Out(h) => /\ h.slot.req \in Requests
               /\ A[h.slot.req].at = "agent"
               /\ A[h.slot.req].session = h.slot.session

AskedFor(A) == \A r \in Requests : A[r].at # "nobody" => A[r].session \in Sessions

AccountInv == AskedFor(ask) /\ \A m \in Hosts : Accounted(m, host[m], ask)

\* The reason a held person was last told is the one that holds at t.
Told(h, t) ==
  ~Vacant(h) => /\ IsCritical(h, t) => h.reservation.reason = "host-memory-critical"
                /\ h.reservation.reason = "host-memory-critical" => h.criticalUntil # None

\* Readings counted for a slot are as many gaps after its ready as there are of them.
Counted(h, t) ==
  h.slot.phase = "settling" =>
    /\ h.slot.readyAt <= t
    /\ IF h.slot.lastSampleAt = None
       THEN ~h.slot.droppedFirst /\ h.slot.samples = <<>>
       ELSE /\ h.slot.lastSampleAt <= t
            /\ h.slot.readyAt + Len(h.slot.samples) * MinSampleGapMs <= h.slot.lastSampleAt

-----------------------------------------------------------------------------
(* What a gate call does to one Mac's reservation and slot.                 *)

HeldStays(h, k) ==
  k.reservation.session = h.reservation.session /\ k.reservation.req = h.reservation.req

Vacated(k) == k.reservation.session = None /\ k.reservation.req = None

\* A boot that is out of k's slot was out of h's.
SlotStays(h, k) ==
  Out(k) => Out(h) /\ k.slot.session = h.slot.session /\ k.slot.req = h.slot.req

SlotGiven(h, k) == k.slot.session = h.reservation.session /\ k.slot.req = h.reservation.req

\* No boot leaves the gate.
KeptBy(h, res) ==
  /\ res.sent = {} /\ res.ended = {}
  /\ HeldStays(h, res.host) /\ SlotStays(h, res.host)

\* The held boot is sent, with the slot or without it.
SentBy(h, res) ==
  /\ ~Vacant(h) /\ res.sent = {h.reservation.req} /\ res.ended = {}
  /\ Vacated(res.host)
  /\ SlotStays(h, res.host) \/ SlotGiven(h, res.host)

\* The held boot is answered by the relay.
EndedBy(h, res) ==
  /\ ~Vacant(h) /\ res.sent = {} /\ res.ended = {h.reservation.req}
  /\ Vacated(res.host)
  /\ SlotStays(h, res.host)

Moved(m, h, res) ==
  /\ Homed(m, h) => Homed(m, res.host)
  /\ KeptBy(h, res) \/ SentBy(h, res) \/ EndedBy(h, res)

\* An empty reservation names nobody.
LEMMA NoHeldEmpty == NoHeld.session = None /\ NoHeld.req = None
  BY DEF NoHeld

\* Two gate calls on one Mac in a row move its boots as one call would.
LEMMA MovedThen ==
  ASSUME NEW m, NEW h, NEW a, NEW b, Moved(m, h, a), Moved(m, a.host, b),
         NEW res, res.host = b.host, res.sent = a.sent \cup b.sent, res.ended = a.ended \cup b.ended
  PROVE  Moved(m, h, res)
  <1>1. Homed(m, h) => Homed(m, res.host)
    BY DEF Moved
  <1>2. CASE KeptBy(h, a)
    <2>1. CASE KeptBy(a.host, b)
      BY <1>1, <1>2, <2>1 DEF Moved, KeptBy, HeldStays, SlotStays
    <2>2. CASE SentBy(a.host, b)
      BY <1>1, <1>2, <2>2 DEF Moved, KeptBy, SentBy, Vacated, HeldStays, SlotStays, SlotGiven, Vacant
    <2>3. CASE EndedBy(a.host, b)
      BY <1>1, <1>2, <2>3 DEF Moved, KeptBy, EndedBy, Vacated, HeldStays, SlotStays, Vacant
    <2> QED BY <2>1, <2>2, <2>3 DEF Moved
  <1>3. CASE ~KeptBy(h, a)
    <2>1. Vacated(a.host) /\ Vacant(a.host) /\ (SentBy(h, a) \/ EndedBy(h, a))
      BY <1>3 DEF Moved, SentBy, EndedBy, Vacant, Vacated
    <2>2. KeptBy(a.host, b)
      BY <2>1 DEF Moved, SentBy, EndedBy
    <2>3. SlotStays(h, a.host) => SlotStays(h, b.host)
      BY <2>2 DEF KeptBy, SlotStays
    <2>4. SlotGiven(h, a.host) => SlotGiven(h, b.host) \/ SlotStays(h, b.host)
      BY <2>2 DEF KeptBy, SlotStays, SlotGiven
    <2>5. HeldStays(a.host, b.host) /\ Vacated(b.host) /\ b.sent = {} /\ b.ended = {}
      BY <2>1, <2>2 DEF KeptBy, HeldStays, Vacated
    <2>6. SentBy(h, a) => SentBy(h, res)
      BY <2>3, <2>4, <2>5 DEF SentBy
    <2>7. EndedBy(h, a) => EndedBy(h, res)
      BY <2>3, <2>5 DEF EndedBy
    <2> QED BY <2>1, <2>6, <2>7, <1>1 DEF Moved
  <1> QED BY <1>2, <1>3

-----------------------------------------------------------------------------
(* The private steps of the gate, case by case.                             *)

\* The pressure reading and what it froze of the window are left alone.
PressureStays(h, k) == k.criticalUntil = h.criticalUntil /\ k.windowLeft = h.windowLeft

\* h's held boot was sent and given the slot at t, and nothing else changed.
Dispatched(h, res, t) ==
  /\ ~Vacant(h) /\ ~WindowOpen(h) /\ ~IsCritical(h, t)
  /\ res.sent = {h.reservation.req}
  /\ res.host.slot = NewSlot(h.reservation.session, h.reservation.req, "booting", t, None)
  /\ res.host.reservation = NoHeld
  /\ res.host.agingWindowUntil = h.agingWindowUntil

\* A grant takes the slot and leaves the rest but the streak (grantToHuman).
LEMMA GrantFrame ==
  ASSUME NEW h \in HostType, NEW s, NEW r, NEW t
  PROVE  LET k == GrantToPerson(h, s, r, t) IN
           /\ k.slot = NewSlot(s, r, "booting", t, None)
           /\ k.reservation = h.reservation
           /\ k.agingWindowUntil = h.agingWindowUntil
           /\ PressureStays(h, k)
  BY DEF GrantToPerson, NoteHumanGrant, TakeSlot, HostType, PressureStays

\* The three kinds of result have the parts they were made of.
LEMMA ResultParts ==
  ASSUME NEW h, NEW r
  PROVE  /\ Quiet(h).host = h /\ Quiet(h).sent = {} /\ Quiet(h).ended = {}
         /\ Deliver(h, r).host = h /\ Deliver(h, r).sent = {r} /\ Deliver(h, r).ended = {}
         /\ Answer(h, r).host = h /\ Answer(h, r).sent = {} /\ Answer(h, r).ended = {r}
  BY DEF Quiet, Deliver, Answer

\* A free slot names nobody and has no boot; a new one has the boot it names.
LEMMA SlotParts ==
  /\ NoSlot.session = None /\ NoSlot.phase = "free"
  /\ \A s, r, p, t, e : LET slot == NewSlot(s, r, p, t, e) IN
       /\ slot.session = s /\ slot.req = r /\ slot.phase = p /\ slot.since = t
       /\ slot.readyAt = e /\ slot.samples = <<>> /\ slot.droppedFirst = FALSE
       /\ slot.lastSampleAt = None /\ slot.reboundAt = None
  BY DEF NoSlot, NewSlot

\* The reservation is sent only to a free slot with nothing else in its way.
LEMMA DispatchCases ==
  ASSUME NEW h, NEW t \in Nat, SoundHost(h, t)
  PROVE  LET d == DispatchReservation(h, t) IN
           /\ d.ended = {} /\ PressureStays(h, d.host)
           /\ \/ /\ d = Quiet(h)
                 /\ Vacant(h) \/ ~Free(h) \/ WindowOpen(h) \/ IsCritical(h, t)
              \/ Free(h) /\ Dispatched(h, d, t)
  <1>1. CASE Vacant(h) \/ ~Free(h) \/ WindowOpen(h) \/ IsCritical(h, t)
    BY <1>1, ResultParts DEF DispatchReservation, PressureStays
  <1>2. CASE ~(Vacant(h) \/ ~Free(h) \/ WindowOpen(h) \/ IsCritical(h, t))
    <2> DEFINE v == Vacate(h)
               k == GrantToPerson(v, h.reservation.session, h.reservation.req, t)
    <2>1. v \in HostType /\ v.reservation = NoHeld /\ PressureStays(h, v)
          /\ v.agingWindowUntil = h.agingWindowUntil
      BY NoHeldTyped DEF Vacate, SoundHost, TypedHost, HostType, PressureStays
    <2>2. DispatchReservation(h, t) = Deliver(k, h.reservation.req)
      BY <1>2 DEF DispatchReservation
    <2> HIDE DEF v
    <2>3. /\ k.slot = NewSlot(h.reservation.session, h.reservation.req, "booting", t, None)
          /\ k.reservation = NoHeld /\ k.agingWindowUntil = h.agingWindowUntil
          /\ PressureStays(h, k)
      BY <2>1, GrantFrame DEF PressureStays
    <2> HIDE DEF k
    <2> QED BY <1>2, <2>2, <2>3, ResultParts DEF Dispatched
  <1> QED BY <1>1, <1>2

\* A release empties the slot and opens a window or sends the reservation.
LEMMA ReleaseCases ==
  ASSUME NEW h, NEW t \in Nat, SoundHost(h, t)
  PROVE  LET d == Release(h, t) IN
           /\ d = [host |-> d.host, sent |-> d.sent, ended |-> {}]
           /\ PressureStays(h, d.host)
           /\ \/ /\ d.sent = {} /\ d.host.slot = NoSlot /\ d.host.reservation = h.reservation
                 /\ \/ d.host.agingWindowUntil = t + AgingWindowMs
                    \/ /\ d.host.agingWindowUntil = h.agingWindowUntil
                       /\ Vacant(h) \/ WindowOpen(h) \/ IsCritical(h, t)
              \/ Dispatched(h, d, t)
  <1> DEFINE k == [h EXCEPT !.slot = NoSlot]
             w == [k EXCEPT !.agingWindowUntil = t + AgingWindowMs]
  <1>1. /\ SoundHost(k, t) /\ k.slot = NoSlot /\ k.reservation = h.reservation
        /\ k.agingWindowUntil = h.agingWindowUntil /\ PressureStays(h, k)
    BY FreedSound DEF SoundHost, TypedHost, HostType, PressureStays
  <1>2. /\ w.slot = NoSlot /\ w.reservation = h.reservation /\ PressureStays(h, w)
        /\ w.agingWindowUntil = t + AgingWindowMs
    BY DEF SoundHost, TypedHost, HostType, PressureStays
  <1>3. CASE AutomationWaiting(h, t) /\ h.humanStreak >= AgingCount
    <2>1. Release(h, t) = Quiet(w)
      BY <1>3 DEF Release
    <2> HIDE DEF w
    <2> QED BY <1>2, <2>1 DEF Quiet
  <1>4. CASE ~(AutomationWaiting(h, t) /\ h.humanStreak >= AgingCount)
    <2>1. Release(h, t) = DispatchReservation(k, t)
      BY <1>4 DEF Release
    <2> HIDE DEF k
    <2>2. /\ Free(k) /\ (Vacant(k) <=> Vacant(h)) /\ (WindowOpen(k) <=> WindowOpen(h))
          /\ IsCritical(k, t) <=> IsCritical(h, t)
      BY <1>1, SlotParts DEF Free, Vacant, WindowOpen, IsCritical, PressureStays
    <2>3. DispatchReservation(k, t) = [host |-> DispatchReservation(k, t).host,
                                       sent |-> DispatchReservation(k, t).sent, ended |-> {}]
      BY DEF DispatchReservation, Quiet, Deliver
    <2>4. CASE DispatchReservation(k, t) = Quiet(k)
      <3> DEFINE d == DispatchReservation(k, t)
      <3>1. d.host = k /\ d.sent = {}
        BY <2>4, ResultParts
      <3>2. Vacant(k) \/ ~Free(k) \/ WindowOpen(k) \/ IsCritical(k, t)
        BY <1>1, <3>1, DispatchCases DEF Dispatched
      <3>3. Vacant(h) \/ WindowOpen(h) \/ IsCritical(h, t)
        BY <2>2, <3>2
      <3> HIDE DEF d
      <3> QED BY <1>1, <2>1, <2>3, <3>1, <3>3 DEF d
    <2>5. CASE Dispatched(k, DispatchReservation(k, t), t)
      <3>1. Dispatched(h, DispatchReservation(k, t), t)
        BY <1>1, <2>2, <2>5 DEF Dispatched
      <3>2. PressureStays(h, DispatchReservation(k, t).host)
        BY <1>1, DispatchCases DEF PressureStays
      <3> QED BY <2>1, <2>3, <3>1, <3>2
    <2> QED BY <1>1, <2>4, <2>5, DispatchCases
  <1> QED BY <1>3, <1>4

-----------------------------------------------------------------------------
(* Every operator but admit moves boots as Moved says.  Where the slot is   *)
(* let go or settled, what it held before does not matter: g stands for any *)
(* record with the same reservation.                                        *)

SameHeld(g, h) == g.reservation = h.reservation

\* A release frees the slot or gives it to the held boot, whatever had it.
LEMMA ReleaseMoves ==
  ASSUME NEW m, NEW h, NEW t \in Nat, SoundHost(h, t), NEW g, SameHeld(g, h)
  PROVE  Moved(m, g, Release(h, t))
  <1> DEFINE d == Release(h, t)
  <1>1. d.ended = {}
    BY ReleaseCases
  <1>2. CASE d.sent = {} /\ d.host.slot = NoSlot /\ d.host.reservation = h.reservation
    <2>1. Homed(m, g) => Homed(m, d.host)
      BY <1>2, SlotParts DEF Homed, Home, SameHeld
    <2>2. KeptBy(g, d)
      BY <1>1, <1>2, SlotParts DEF KeptBy, HeldStays, SlotStays, SameHeld, Out
    <2> QED BY <2>1, <2>2 DEF Moved
  <1>3. CASE Dispatched(h, d, t)
    <2>1. Homed(m, g) => Homed(m, d.host)
      BY <1>3, SlotParts, NoHeldEmpty, SMTT(20) DEF Homed, Home, SameHeld, Dispatched
    <2>2. SentBy(g, d)
      BY <1>1, <1>3, SlotParts, NoHeldEmpty, SMTT(20)
      DEF SentBy, Dispatched, SlotGiven, SameHeld, Vacant, Vacated
    <2> QED BY <2>1, <2>2 DEF Moved
  <1> QED BY <1>2, <1>3, ReleaseCases

\* The dispatch sends the held boot with the slot, or nothing.
LEMMA DispatchMoves ==
  ASSUME NEW m, NEW h, NEW t \in Nat, SoundHost(h, t)
  PROVE  Moved(m, h, DispatchReservation(h, t))
  <1> DEFINE d == DispatchReservation(h, t)
  <1>1. d.ended = {}
    BY DispatchCases
  <1>2. CASE d = Quiet(h)
    <2>1. d.host = h /\ d.sent = {}
      BY <1>2, ResultParts
    <2>2. HeldStays(h, d.host) /\ SlotStays(h, d.host) /\ (Homed(m, h) => Homed(m, d.host))
      BY <2>1 DEF HeldStays, SlotStays
    <2> HIDE DEF d
    <2>3. Moved(m, h, d)
      BY <1>1, <2>1, <2>2 DEF Moved, KeptBy
    <2> QED BY <2>3 DEF d
  <1>3. CASE Dispatched(h, d, t)
    <2>1. Homed(m, h) => Homed(m, d.host)
      BY <1>3, SlotParts, NoHeldEmpty, SMTT(20) DEF Homed, Home, Dispatched
    <2>2. SentBy(h, d)
      BY <1>1, <1>3, SlotParts, NoHeldEmpty, SMTT(20) DEF SentBy, Dispatched, SlotGiven, Vacated
    <2> QED BY <2>1, <2>2 DEF Moved
  <1> QED BY <1>2, <1>3, DispatchCases

\* A record changed in neither its boot nor its reservation moves nothing.
LEMMA QuietMoves ==
  ASSUME NEW m, NEW h, NEW k, HeldStays(h, k), SlotStays(h, k),
         Home(m, k.slot.session) \/ k.slot.session = h.slot.session
  PROVE  Moved(m, h, Quiet(k))
  BY ResultParts DEF Moved, KeptBy, HeldStays, Homed

\* A moved boot stays moved when the record is changed elsewhere before or after.
LEMMA MovedAround ==
  ASSUME NEW m, NEW g, NEW h, NEW k, NEW res, NEW out, Moved(m, h, res),
         g.slot = h.slot, HeldStays(g, h), k.slot = res.host.slot, HeldStays(res.host, k),
         out.host = k, out.sent = res.sent, out.ended = res.ended
  PROVE  Moved(m, g, out)
  <1>1. Homed(m, g) => Homed(m, k)
    BY DEF Moved, Homed, HeldStays
  <1>2. KeptBy(h, res) => KeptBy(g, out)
    BY DEF KeptBy, HeldStays, SlotStays, Out
  <1>3. SentBy(h, res) => SentBy(g, out)
    BY DEF SentBy, HeldStays, SlotStays, SlotGiven, Out, Vacant, Vacated
  <1>4. EndedBy(h, res) => EndedBy(g, out)
    BY DEF EndedBy, HeldStays, SlotStays, Out, Vacant, Vacated
  <1> QED BY <1>1, <1>2, <1>3, <1>4 DEF Moved

\* Telling the reason again touches neither session nor boot.
LEMMA RefreshTouches ==
  ASSUME NEW h \in HostType, NEW t
  PROVE  RefreshWaiting(h, t).slot = h.slot /\ HeldStays(h, RefreshWaiting(h, t))
  BY DEF RefreshWaiting, HeldStays, HostType, HeldType

\* Telling the reason again leaves slot, session and boot alone.
LEMMA RefreshFrame ==
  ASSUME NEW h, NEW t \in Nat, SoundHost(h, t)
  PROVE  LET k == RefreshWaiting(h, t) IN
           /\ k.slot = h.slot /\ HeldStays(h, k) /\ PressureStays(h, k)
           /\ k.agingWindowUntil = h.agingWindowUntil
           /\ k.reservation.since = h.reservation.since
           /\ ~Vacant(h) => k.reservation.reason = WaitReason(h, t)
  BY DEF RefreshWaiting, HeldStays, PressureStays, SoundHost, TypedHost, HostType, HeldType

\* The end of a pressure reading may dispatch, and then tells who still waits.
LEMMA CriticalEndedCases ==
  ASSUME NEW h, NEW t \in Nat, SoundHost(h, t)
  PROVE  \E k : LET d == DispatchReservation(k, t) IN
           /\ SoundHost(k, t) /\ k.slot = h.slot /\ k.reservation = h.reservation
           /\ k.criticalUntil = None /\ k.windowLeft = None
           /\ k.agingWindowUntil = IF h.agingWindowUntil = None THEN None
                                   ELSE t + (IF h.windowLeft = None THEN AgingWindowMs ELSE h.windowLeft)
           /\ CriticalEnded(h, t) = [host |-> RefreshWaiting(d.host, t), sent |-> d.sent, ended |-> {}]
  <1> DEFINE left  == IF h.windowLeft = None THEN AgingWindowMs ELSE h.windowLeft
             until == IF h.agingWindowUntil = None THEN None ELSE t + left
             k     == [h EXCEPT !.criticalUntil = None, !.windowLeft = None,
                                !.agingWindowUntil = IF @ = None THEN None ELSE t + left]
             d     == DispatchReservation(k, t)
  <1>1. until \in Time
    <2>1. h.windowLeft \in Time /\ AgingWindowMs \in Nat
      BY DEF SoundHost, TypedHost, HostType
    <2>2. left \in Nat
      BY <2>1 DEF Time
    <2> HIDE DEF left
    <2> QED BY <2>2 DEF Time
  <1>2. k = [h EXCEPT !.criticalUntil = None, !.windowLeft = None, !.agingWindowUntil = until]
    OBVIOUS
  <1> HIDE DEF until
  <1>3. /\ SoundHost(k, t) /\ k.slot = h.slot /\ k.reservation = h.reservation
        /\ k.criticalUntil = None /\ k.windowLeft = None /\ k.agingWindowUntil = until
    BY <1>1, <1>2 DEF SoundHost, TypedHost, InTimeHost, HostType, Vacant, Time
  <1>4. CriticalEnded(h, t) = [host |-> RefreshWaiting(d.host, t), sent |-> d.sent, ended |-> {}]
    BY SMTT(20) DEF CriticalEnded, DispatchReservation, Quiet, Deliver
  <1> HIDE DEF k
  <1> QED BY <1>3, <1>4 DEF until

LEMMA CriticalEndedMoves ==
  ASSUME NEW m, NEW h, NEW t \in Nat, SoundHost(h, t)
  PROVE  Moved(m, h, CriticalEnded(h, t)) /\ CriticalEnded(h, t).ended = {}
  <1>1. PICK k : LET d == DispatchReservation(k, t) IN
           /\ SoundHost(k, t) /\ k.slot = h.slot /\ k.reservation = h.reservation
           /\ CriticalEnded(h, t) = [host |-> RefreshWaiting(d.host, t), sent |-> d.sent, ended |-> {}]
    BY CriticalEndedCases
  <1> DEFINE d == DispatchReservation(k, t)
  <1>2. Moved(m, k, d) /\ d.ended = {} /\ SoundHost(d.host, t)
    BY <1>1, DispatchMoves, DispatchCases, DispatchSound DEF SoundResult
  <1> HIDE DEF d
  <1>3. RefreshWaiting(d.host, t).slot = d.host.slot /\ HeldStays(d.host, RefreshWaiting(d.host, t))
    BY <1>2, RefreshFrame
  <1> DEFINE out == CriticalEnded(h, t)
  <1>4. out.host = RefreshWaiting(d.host, t) /\ out.sent = d.sent /\ out.ended = {}
    BY <1>1 DEF d
  <1> HIDE DEF out
  <1>5. Moved(m, h, out)
    BY <1>1, <1>2, <1>3, <1>4, MovedAround DEF HeldStays
  <1> QED BY <1>4, <1>5 DEF out

\* A boot let through regardless is sent, with the slot or without it.
LEMMA DeliverAnywayCases ==
  ASSUME NEW h \in HostType, NEW t \in Nat, NEW s, NEW r, NEW d, d = DeliverAnyway(h, s, r, t)
  PROVE  /\ d.sent = {r} /\ d.ended = {} /\ d.host.reservation = h.reservation
         /\ PressureStays(h, d.host) /\ d.host.agingWindowUntil = h.agingWindowUntil
         /\ \/ /\ d.host.slot = h.slot
               /\ ~Free(h) \/ (WindowOpen(h) /\ ~IsCritical(h, t))
            \/ /\ d.host.slot = NewSlot(s, r, "booting", t, None)
               /\ Free(h) /\ (~WindowOpen(h) \/ IsCritical(h, t))
  BY GrantFrame, ResultParts DEF DeliverAnyway, PressureStays

LEMMA EvReadyMoves ==
  ASSUME NEW m, NEW h, NEW t \in Nat, SoundHost(h, t), NEW s \in Sessions, HostOf[s] = m, NEW cold
  PROVE  /\ Moved(m, h, EvReady(h, s, cold, t))
         /\ h.slot.session = s =>
              \A g : SameHeld(g, h) => Moved(m, g, EvReady(h, s, cold, t))
  <1> DEFINE slot == [h.slot EXCEPT !.phase = "settling", !.readyAt = t, !.samples = <<>>,
                                    !.droppedFirst = FALSE, !.lastSampleAt = None]
             k    == [h EXCEPT !.slot = slot]
             n    == [h EXCEPT !.slot = NewSlot(s, None, "settling", t, t)]
  <1>1. CASE h.slot.session = s
    <2>1. k.slot.phase = "settling" /\ k.slot.session = s /\ k.reservation = h.reservation
      BY <1>1 DEF SoundHost, TypedHost, HostType, SlotType
    <2>2. EvReady(h, s, cold, t) = Release(h, t) \/ EvReady(h, s, cold, t) = Quiet(k)
      BY <1>1 DEF EvReady
    <2> HIDE DEF k
    <2>3. ASSUME NEW g, SameHeld(g, h) PROVE Moved(m, g, Quiet(k))
      BY <2>1, <2>3, QuietMoves DEF SameHeld, HeldStays, SlotStays, Out, Home
    <2>4. ASSUME NEW g, SameHeld(g, h) PROVE Moved(m, g, EvReady(h, s, cold, t))
      BY <2>2, <2>3, <2>4, ReleaseMoves
    <2> QED BY <2>4 DEF SameHeld
  <1>2. CASE h.slot.session # s
    <2>1. n.slot.phase = "settling" /\ n.slot.session = s /\ n.reservation = h.reservation
      BY SlotParts, SMTT(20) DEF SoundHost, TypedHost, HostType
    <2>2. EvReady(h, s, cold, t) = Quiet(h) \/ EvReady(h, s, cold, t) = Quiet(n)
      BY <1>2 DEF EvReady
    <2> HIDE DEF n
    <2>3. Moved(m, h, Quiet(n)) /\ Moved(m, h, Quiet(h))
      BY <2>1, QuietMoves DEF HeldStays, SlotStays, Out, Home
    <2> QED BY <1>2, <2>2, <2>3
  <1> QED BY <1>1, <1>2

LEMMA EvSampleMoves ==
  ASSUME NEW m, NEW h, NEW t \in Nat, SoundHost(h, t), NEW cpu \in Nat, Cause(h)
  PROVE  Moved(m, h, EvSample(h, cpu, t)) /\ EvSample(h, cpu, t).ended = {}
  <1> DEFINE stale == h.slot.lastSampleAt # None /\ t - h.slot.lastSampleAt > FreshMs
             kept  == IF stale THEN <<>> ELSE h.slot.samples
             taken == IF h.slot.droppedFirst THEN LastSamples(Append(kept, cpu)) ELSE kept
             next  == [h EXCEPT !.slot = [h.slot EXCEPT !.lastSampleAt = t, !.samples = taken,
                                                        !.droppedFirst = TRUE]]
             out   == EvSample(h, cpu, t)
  <1>1. \/ out = Quiet(h)
        \/ (out = Quiet(next) \/ out = Release(next, t)) /\ h.slot.phase = "settling"
    BY DEF EvSample
  <1>2. next.slot.phase = h.slot.phase /\ next.slot.session = h.slot.session
        /\ next.reservation = h.reservation
    BY DEF SoundHost, TypedHost, HostType, SlotType
  <1>3. SoundHost(next, t)
    <2>1. /\ h.slot \in SlotType /\ t \in Time
      BY DEF SoundHost, TypedHost, HostType, Time
    <2>2. kept \in Seq(Nat)
      BY <2>1 DEF SlotType
    <2>3. taken \in Seq(Nat)
      <3> HIDE DEF kept
      <3>1. Append(kept, cpu) \in Seq(Nat)
        BY <2>2
      <3> QED BY <2>2, <3>1, LastSamplesType
    <2> HIDE DEF taken
    <2> DEFINE slot == [h.slot EXCEPT !.lastSampleAt = t, !.samples = taken, !.droppedFirst = TRUE]
    <2>4. /\ slot \in SlotType /\ slot.session = h.slot.session /\ slot.phase = h.slot.phase
          /\ slot.since = h.slot.since /\ slot.readyAt = h.slot.readyAt
          /\ slot.reboundAt = h.slot.reboundAt /\ slot.lastSampleAt = t
      BY <2>1, <2>3 DEF SlotType
    <2> HIDE DEF slot
    <2>5. SlotShape(slot) /\ InTimeSlot(slot, t)
      BY <2>4 DEF SlotShape, InTimeSlot, SoundHost, TypedHost, InTimeHost
    <2> QED BY <2>4, <2>5, SlotReplaced DEF slot
  <1> HIDE DEF next, out
  <1>4. h.slot.phase = "settling" => Moved(m, h, Quiet(next))
    BY <1>2, QuietMoves DEF HeldStays, SlotStays, Out
  <1>5. Moved(m, h, Release(next, t)) /\ Release(next, t).ended = {}
    BY <1>2, <1>3, ReleaseMoves, ReleaseCases DEF SameHeld
  <1>6. Moved(m, h, Quiet(h))
    BY QuietMoves DEF HeldStays, SlotStays
  <1> QED BY <1>1, <1>4, <1>5, <1>6, ResultParts, ZenonT(30) DEF out

LEMMA EvPressureMoves ==
  ASSUME NEW m, NEW h, NEW t \in Nat, SoundHost(h, t), NEW critical \in BOOLEAN
  PROVE  Moved(m, h, EvPressure(h, critical, t)) /\ EvPressure(h, critical, t).ended = {}
  <1> DEFINE left == IF ~WindowOpen(h) THEN h.windowLeft
                     ELSE IF h.agingWindowUntil > t THEN h.agingWindowUntil - t ELSE 0
             up   == [h EXCEPT !.criticalUntil = t + FreshMs]
             k    == [up EXCEPT !.windowLeft = left]
             out  == EvPressure(h, critical, t)
  <1>1. \/ out = Quiet(up) \/ out = Quiet(RefreshWaiting(k, t)) \/ out = Quiet(h)
        \/ out = CriticalEnded(h, t)
    BY DEF EvPressure
  <1>2. up.slot = h.slot /\ HeldStays(h, up)
    BY DEF SoundHost, TypedHost, HostType, HeldStays
  <1>3. k \in HostType /\ k.slot = h.slot /\ HeldStays(h, k)
    <2>1. h \in HostType /\ left \in Time
      BY DEF Time, WindowOpen, SoundHost, TypedHost, HostType
    <2>2. t + FreshMs \in Time
      BY DEF Time
    <2> HIDE DEF left
    <2> QED BY <2>1, <2>2 DEF HostType, HeldStays
  <1> HIDE DEF up, k
  <1>4. RefreshWaiting(k, t).slot = h.slot /\ HeldStays(h, RefreshWaiting(k, t))
    BY <1>3, RefreshTouches DEF HeldStays
  <1>5. Moved(m, h, Quiet(up)) /\ Moved(m, h, Quiet(RefreshWaiting(k, t))) /\ Moved(m, h, Quiet(h))
    BY <1>2, <1>4, QuietMoves DEF SlotStays, HeldStays, Out
  <1>6. Quiet(up).ended = {} /\ Quiet(RefreshWaiting(k, t)).ended = {} /\ Quiet(h).ended = {}
    BY ResultParts
  <1>7. Moved(m, h, CriticalEnded(h, t)) /\ CriticalEnded(h, t).ended = {}
    BY CriticalEndedMoves
  <1>8. Moved(m, h, out) /\ out.ended = {}
    <2> HIDE DEF out
    <2> QED BY <1>1, <1>5, <1>6, <1>7
  <1> QED BY <1>8

\* A failed boot of the slot's session lets the slot go; any other changes nothing.
LEMMA EvBootErrorMoves ==
  ASSUME NEW m, NEW h, NEW t \in Nat, SoundHost(h, t), NEW s, NEW r
  PROVE  /\ Moved(m, h, EvBootError(h, s, r, t))
         /\ (h.slot.session = s /\ (r = None \/ r = h.slot.req)) =>
              \A g : SameHeld(g, h) => Moved(m, g, EvBootError(h, s, r, t))
  <1>1. Moved(m, h, Quiet(h))
    BY QuietMoves DEF HeldStays, SlotStays
  <1>2. \A g : SameHeld(g, h) => Moved(m, g, Release(h, t))
    BY ReleaseMoves
  <1> QED BY <1>1, <1>2 DEF EvBootError, SameHeld

\* A leaving session's held boot is answered.
LEMMA EvBrowserClosedMoves ==
  ASSUME NEW m, NEW h, NEW t \in Nat, SoundHost(h, t), NEW s \in Sessions
  PROVE  Moved(m, h, EvBrowserClosed(h, s))
  <1>1. CASE h.reservation.session = s
    <2> DEFINE v == Vacate(h)
               out == EvBrowserClosed(h, s)
    <2>1. v.slot = h.slot /\ v.reservation = NoHeld
      BY NoHeldTyped DEF Vacate, SoundHost, TypedHost, HostType
    <2>2. out.host = v /\ out.sent = {} /\ out.ended = {h.reservation.req}
      BY <1>1, ResultParts DEF EvBrowserClosed
    <2> HIDE DEF v, out
    <2>3. Homed(m, h) => Homed(m, v)
      BY <2>1, NoHeldEmpty DEF Homed, Home
    <2>4. EndedBy(h, out)
      BY <1>1, <2>1, <2>2, NoHeldEmpty DEF EndedBy, Vacant, Vacated, SlotStays, Out
    <2> QED BY <2>2, <2>3, <2>4 DEF Moved, out
  <1>2. CASE h.reservation.session # s
    BY <1>2, QuietMoves DEF EvBrowserClosed, HeldStays, SlotStays
  <1> QED BY <1>1, <1>2

\* A session that ends gives up its held boot, its slot, or both.
LEMMA EvGoneMoves ==
  ASSUME NEW m, NEW h, NEW t \in Nat, SoundHost(h, t), Cause(h), NEW s \in Sessions
  PROVE  /\ h.slot.session # s => Moved(m, h, EvGone(h, s, t))
         /\ h.slot.session = s => \A g : SameHeld(g, h) => Moved(m, g, EvGone(h, s, t))
  <1> DEFINE v == Vacate(h)
             out == EvGone(h, s, t)
  <1>1. /\ SoundHost(v, t) /\ v.slot = h.slot /\ v.reservation = NoHeld /\ Vacant(v)
    BY VacateSound, SMTT(20) DEF SoundHost, TypedHost, HostType
  <1>2. CASE h.slot.session = s /\ h.reservation.session = s
    <2> DEFINE d == Release(v, t)
    <2>1. EvBrowserClosed(h, s) = Answer(v, h.reservation.req)
      BY <1>2 DEF EvBrowserClosed
    <2>2. out = [d EXCEPT !.ended = {h.reservation.req}]
      <3> HIDE DEF v
      <3>1. EvBrowserClosed(h, s).host = v /\ EvBrowserClosed(h, s).ended = {h.reservation.req}
        BY <2>1, ResultParts
      <3>2. EvBrowserClosed(h, s).host.slot.session = s
        BY <1>1, <1>2, <3>1
      <3> QED BY <3>1, <3>2 DEF EvGone
    <2>3. d = [host |-> d.host, sent |-> d.sent, ended |-> {}]
          /\ d.sent = {} /\ d.host.slot = NoSlot /\ d.host.reservation = v.reservation
      BY <1>1, ReleaseCases DEF Dispatched
    <2> HIDE DEF d, out, v
    <2>4. out.host = d.host /\ out.sent = {} /\ out.ended = {h.reservation.req}
      BY <2>2, <2>3
    <2>5. ASSUME NEW g, SameHeld(g, h) PROVE Moved(m, g, out)
      <3>1. Homed(m, g) => Homed(m, out.host)
        BY <1>1, <2>3, <2>4, SlotParts, NoHeldEmpty DEF Homed, Home
      <3>2. EndedBy(g, out)
        BY <1>1, <1>2, <2>3, <2>4, <2>5, SlotParts, NoHeldEmpty, SMTT(20)
        DEF EndedBy, SameHeld, Vacant, Vacated, SlotStays, Out
      <3> QED BY <3>1, <3>2 DEF Moved
    <2> QED BY <1>2, <2>5 DEF out
  <1>3. CASE h.slot.session = s /\ h.reservation.session # s
    <2>1. EvBrowserClosed(h, s) = Quiet(h)
      BY <1>3 DEF EvBrowserClosed
    <2>2. out = [Release(h, t) EXCEPT !.ended = {}]
      <3>1. EvBrowserClosed(h, s).host = h /\ EvBrowserClosed(h, s).ended = {}
        BY <2>1, ResultParts
      <3> QED BY <1>3, <3>1 DEF EvGone
    <2>3. out = Release(h, t)
      BY <2>2, ReleaseCases
    <2> QED BY <1>3, <2>3, ReleaseMoves
  <1>4. CASE h.slot.session # s
    <2>1. EvBrowserClosed(h, s).host.slot = h.slot
      <3> HIDE DEF v
      <3>1. EvBrowserClosed(h, s).host \in {v, h}
        BY ResultParts DEF EvBrowserClosed, v
      <3> QED BY <1>1, <3>1
    <2>2. out = EvBrowserClosed(h, s)
      BY <1>4, <2>1 DEF EvGone
    <2> QED BY <1>4, <2>2, EvBrowserClosedMoves
  <1> QED BY <1>2, <1>3, <1>4

\* A slot whose agent restarted has its boot out no more.
LEMMA EvReboundMoves ==
  ASSUME NEW m, NEW h, NEW t \in Nat, SoundHost(h, t), NEW s
  PROVE  /\ Moved(m, h, EvRebound(h, s, t))
         /\ h.slot.session = s =>
              \A g : (SameHeld(g, h) /\ Home(m, s)) =>
                Moved(m, g, EvRebound(h, s, t))
  <1> DEFINE k == [h EXCEPT !.slot.reboundAt = t]
  <1>1. k.slot.reboundAt = t /\ k.slot.session = h.slot.session /\ k.reservation = h.reservation
    BY DEF SoundHost, TypedHost, HostType, SlotType
  <1>2. EvRebound(h, s, t) = (IF h.slot.session = s THEN Quiet(k) ELSE Quiet(h))
    BY DEF EvRebound
  <1> HIDE DEF k
  <1>3. ASSUME NEW g, SameHeld(g, h), g.slot.session = h.slot.session \/ Home(m, h.slot.session)
        PROVE Moved(m, g, Quiet(k))
    BY <1>1, <1>3, QuietMoves DEF SameHeld, HeldStays, SlotStays, Out
  <1>4. Moved(m, h, Quiet(h))
    BY QuietMoves DEF HeldStays, SlotStays
  <1> QED BY <1>2, <1>3, <1>4 DEF SameHeld

\* A tick of one Mac moves at most the one held boot.
LEMMA TickMoves ==
  ASSUME NEW m, NEW h, NEW t \in Nat, SoundHost(h, t), Cause(h)
  PROVE  Moved(m, h, TickHost(h, t))
  <1> DEFINE a == TickPressure(h, t)
             b == TickSlot(a.host, t)
             c == TickWindow(b.host, t)
             d == TickHeld(c.host, t)
             ab == [host |-> b.host, sent |-> a.sent \cup b.sent, ended |-> a.ended \cup b.ended]
             abc == [host |-> c.host, sent |-> ab.sent \cup c.sent, ended |-> ab.ended \cup c.ended]
  <1>0. \A k : Moved(m, k, Quiet(k))
    BY QuietMoves DEF HeldStays, SlotStays
  <1>1. Moved(m, h, a) /\ a.ended = {} /\ SoundResult(a, t)
    <2>1. Moved(m, h, Quiet(h)) /\ Quiet(h).ended = {} /\ SoundResult(Quiet(h), t)
      BY <1>0, ResultParts DEF SoundResult
    <2>2. /\ Moved(m, h, CriticalEnded(h, t)) /\ CriticalEnded(h, t).ended = {}
          /\ SoundResult(CriticalEnded(h, t), t)
      BY CriticalEndedMoves, CriticalEndedSound
    <2> QED BY <2>1, <2>2 DEF TickPressure
  <1>2. Moved(m, a.host, b) /\ b.ended = {} /\ SoundResult(b, t)
    <2> HIDE DEF a
    <2>1. SoundHost(a.host, t)
      BY <1>1 DEF SoundResult
    <2>2. Moved(m, a.host, Release(a.host, t)) /\ Release(a.host, t).ended = {}
          /\ SoundResult(Release(a.host, t), t)
      BY <2>1, ReleaseMoves, ReleaseCases, ReleaseSound DEF SameHeld
    <2>3. Moved(m, a.host, Quiet(a.host)) /\ Quiet(a.host).ended = {} /\ SoundResult(Quiet(a.host), t)
      BY <1>0, <1>1, ResultParts DEF SoundResult
    <2> QED BY <2>2, <2>3 DEF TickSlot
  <1> HIDE DEF a, b
  <1>3. Moved(m, b.host, c) /\ c.ended = {} /\ SoundResult(c, t)
    <2> DEFINE k == b.host
               w == [k EXCEPT !.agingWindowUntil = None]
               z == [w EXCEPT !.humanStreak = 0]
    <2>1. SoundHost(w, t) /\ w.slot = k.slot /\ w.reservation = k.reservation
      BY <1>2, WindowSound DEF SoundResult, Time, SoundHost, TypedHost, HostType
    <2>2. [k EXCEPT !.agingWindowUntil = None, !.humanStreak = 0] = z
      OBVIOUS
    <2> HIDE DEF w
    <2>3. SoundHost(z, t) /\ z.slot = k.slot /\ z.reservation = k.reservation
      BY <2>1 DEF SoundHost, TypedHost, InTimeHost, HostType, Vacant
    <2>4. c = Quiet(k) \/ c = DispatchReservation(z, t)
      BY <2>2 DEF TickWindow
    <2> HIDE DEF z
    <2> DEFINE e == DispatchReservation(z, t)
    <2>5. Moved(m, z, e) /\ e.ended = {} /\ SoundResult(e, t)
      BY <2>3, DispatchMoves, DispatchCases, DispatchSound
    <2> HIDE DEF e
    <2>6. Moved(m, k, e)
      BY <2>3, <2>5, MovedAround DEF HeldStays
    <2>7. Moved(m, k, Quiet(k)) /\ Quiet(k).ended = {} /\ SoundResult(Quiet(k), t)
      BY <1>0, <1>2, ResultParts DEF SoundResult
    <2> HIDE DEF c, k
    <2>8. Moved(m, k, c) /\ c.ended = {} /\ SoundResult(c, t)
      BY <2>4, <2>5, <2>6, <2>7 DEF e
    <2> QED BY <2>8 DEF k
  <1> HIDE DEF c
  <1>4. Moved(m, c.host, d)
    <2> DEFINE k == c.host
               v == Vacate(k)
    <2>1. CASE ~Vacant(k) /\ t >= k.reservation.since + HumanWaitMs
      <3>1. v \in HostType /\ v.slot = k.slot /\ v.reservation = NoHeld
        <4>1. SoundHost(k, t)
          BY <1>3 DEF SoundResult
        <4> HIDE DEF k
        <4>2. SoundHost(v, t) /\ v = [k EXCEPT !.reservation = NoHeld] /\ v.reservation = NoHeld
          BY <4>1, VacateSound
        <4> QED BY <4>1, <4>2 DEF SoundHost, TypedHost, HostType
      <3>2. d = DeliverAnyway(v, k.reservation.session, k.reservation.req, t)
        BY <2>1 DEF TickHeld
      <3> HIDE DEF v, d, k
      <3>3. /\ d.sent = {k.reservation.req} /\ d.ended = {} /\ d.host.reservation = NoHeld
            /\ \/ d.host.slot = k.slot
               \/ d.host.slot = NewSlot(k.reservation.session, k.reservation.req, "booting", t, None)
        BY <3>1, <3>2, DeliverAnywayCases
      <3>4. Homed(m, k) => Homed(m, d.host)
        BY <3>3, SlotParts, NoHeldEmpty, SMTT(20) DEF Homed, Home
      <3>5. SentBy(k, d)
        BY <2>1, <3>3, SlotParts, NoHeldEmpty, SMTT(20) DEF SentBy, SlotStays, SlotGiven, Vacated, Out
      <3>6. Moved(m, k, d)
        BY <3>4, <3>5 DEF Moved
      <3> QED BY <3>6 DEF d, k
    <2>2. CASE ~(~Vacant(k) /\ t >= k.reservation.since + HumanWaitMs)
      BY <1>0, <2>2 DEF TickHeld
    <2> QED BY <2>1, <2>2
  <1>5. TickHost(h, t) = [host |-> d.host, sent |-> abc.sent \cup d.sent, ended |-> {}]
    BY DEF TickHost, a, b, c
  <1>6. d.ended = {}
    BY ResultParts DEF TickHeld, DeliverAnyway
  <1> HIDE DEF d
  <1>7. Moved(m, h, ab)
    BY <1>1, <1>2, MovedThen
  <1>8. ab.host = b.host
    OBVIOUS
  <1>9. abc.ended = {} /\ abc.host = c.host /\ abc.sent = ab.sent \cup c.sent
        /\ abc.ended = ab.ended \cup c.ended
    BY <1>1, <1>2, <1>3
  <1> HIDE DEF ab
  <1>10. Moved(m, h, abc)
    BY <1>3, <1>7, <1>8, <1>9, MovedThen
  <1> HIDE DEF abc
  <1> DEFINE out == TickHost(h, t)
  <1>11. out.host = d.host /\ out.sent = abc.sent \cup d.sent /\ out.ended = abc.ended \cup d.ended
    BY <1>5, <1>6, <1>9
  <1> HIDE DEF out
  <1>12. Moved(m, h, out)
    BY <1>4, <1>9, <1>10, <1>11, MovedThen
  <1> QED BY <1>12 DEF out

\* A boot that cannot be forwarded after all is answered, and the slot it was
\* given is let go; nothing waits any more that this release could send.
LEMMA CarryMoves ==
  ASSUME NEW m, NEW h, NEW res, NEW t \in Nat, SoundHost(res.host, t), Moved(m, h, res), NEW dead
  PROVE  Moved(m, h, Carry(res, dead, t))
  <1> DEFINE lost == {r \in res.sent : ask[r].at = "held" /\ ask[r].session \in dead}
             d    == Release(res.host, t)
             out  == Carry(res, dead, t)
  <1>1. /\ out.sent = res.sent \ lost /\ out.ended = res.ended \cup lost
        /\ out.host = IF res.host.slot.req \in lost THEN d.host ELSE res.host
    BY DEF Carry
  <1>2. CASE lost = {}
    <2>1. out.host = res.host /\ out.sent = res.sent /\ out.ended = res.ended
      BY <1>1, <1>2
    <2> HIDE DEF out, lost
    <2>2. Moved(m, h, out)
      BY <2>1 DEF Moved, KeptBy, SentBy, EndedBy
    <2> QED BY <2>2 DEF out
  <1>3. CASE lost # {}
    <2>1. SentBy(h, res) /\ lost = {h.reservation.req}
      BY <1>3 DEF Moved, KeptBy, SentBy, EndedBy
    <2>2. out.sent = {} /\ out.ended = {h.reservation.req}
      BY <1>1, <2>1 DEF SentBy
    <2>3. d.host.slot = NoSlot /\ d.host.reservation = res.host.reservation
      BY <2>1, ReleaseCases DEF SentBy, Dispatched, Vacant, Vacated
    <2> HIDE DEF out, lost, d
    <2>4. Vacated(out.host)
      BY <1>1, <2>1, <2>3 DEF SentBy, Vacated
    <2>5. SlotStays(h, out.host)
      <3>1. CASE res.host.slot.req \in lost
        BY <1>1, <2>3, <3>1, SlotParts DEF SlotStays, Out
      <3>2. CASE res.host.slot.req \notin lost
        BY <1>1, <2>1, <3>2 DEF SentBy, SlotGiven, SlotStays, Out
      <3> QED BY <3>1, <3>2
    <2>6. Homed(m, h) => Homed(m, out.host)
      BY <1>1, <2>3, SlotParts, SMTT(20) DEF Moved, Homed, Home
    <2>7. Moved(m, h, out)
      BY <2>1, <2>2, <2>4, <2>5, <2>6 DEF Moved, EndedBy, SentBy
    <2> QED BY <2>7 DEF out
  <1> QED BY <1>2, <1>3

-----------------------------------------------------------------------------
(* The agreement survives every move.                                       *)

\* Nothing that A and B say differently is about n.
Elsewhere(n, A, B) ==
  \A r \in Requests : A[r] = B[r] \/ (~Of(n, A[r]) /\ ~Of(n, B[r]))

\* A slot that is out names a session.
LEMMA OutNames ==
  ASSUME NEW h, TypedHost(h), Out(h)
  PROVE  h.slot.session # None
  BY DEF TypedHost, SlotShape, Out

\* What settling does to one request.
LEMMA SettledAsk ==
  ASSUME NEW A \in [Requests -> AskType], NEW res
  PROVE  \A r \in Requests :
           /\ r \in res.ended => Settle(A, res)[r] = NoAsk
           /\ (r \notin res.ended /\ r \in res.sent) =>
                /\ Settle(A, res)[r].at = "agent"
                /\ Settle(A, res)[r].session = A[r].session
                /\ Settle(A, res)[r].class = A[r].class
           /\ (r \notin res.ended /\ r \notin res.sent) => Settle(A, res)[r] = A[r]
  BY DEF Settle, AskType

\* A move of one Mac's boots, once settled, leaves its record and the requests agreeing.
LEMMA AccountedMoves ==
  ASSUME NEW m, NEW h, NEW A \in [Requests -> AskType], Accounted(m, h, A),
         NEW res, Moved(m, h, res)
  PROVE  Accounted(m, res.host, Settle(A, res))
  <1> DEFINE k == res.host
             B == Settle(A, res)
             q == h.reservation.req
  <1>1. Homed(m, k)
    BY DEF Moved, Accounted
  <1>2. NoAsk.at = "nobody"
    BY DEF NoAsk
  <1>3. CASE KeptBy(h, res)
    <2>1. \A r \in Requests : B[r] = A[r]
      BY <1>3, SettledAsk DEF KeptBy
    <2>2. (Vacant(k) <=> Vacant(h)) /\ k.reservation.req = h.reservation.req
          /\ k.reservation.session = h.reservation.session
      BY <1>3 DEF KeptBy, HeldStays, Vacant
    <2>3. SlotStays(h, k)
      BY <1>3 DEF KeptBy
    <2> HIDE DEF B, k
    <2>4. Accounted(m, k, B)
      BY <1>1, <2>1, <2>2, <2>3 DEF Accounted, SlotStays
    <2> QED BY <2>4 DEF B, k
  <1>4. CASE SentBy(h, res) \/ EndedBy(h, res)
    <2>1. /\ q \in Requests /\ A[q].at = "held" /\ A[q].session = h.reservation.session
          /\ Vacated(k) /\ res.sent \cup res.ended = {q}
      BY <1>4 DEF Accounted, SentBy, EndedBy
    <2>2. B[q].at # "held"
      BY <1>2, <2>1, SettledAsk
    <2>3. \A r \in Requests : r # q => B[r] = A[r]
      BY <2>1, SettledAsk
    <2>4. SlotStays(h, k) \/ (SlotGiven(h, k) /\ B[q].at = "agent" /\ B[q].session = A[q].session)
      BY <1>4, <2>1, SettledAsk DEF SentBy, EndedBy
    <2> HIDE DEF B
    <2>5. \A r \in Requests : ~(B[r].at = "held" /\ Of(m, B[r]))
      BY <2>2, <2>3 DEF Accounted
    <2>6. Out(k) => /\ k.slot.req \in Requests /\ B[k.slot.req].at = "agent"
                    /\ B[k.slot.req].session = k.slot.session
      BY <2>1, <2>3, <2>4 DEF Accounted, SlotStays, SlotGiven
    <2> HIDE DEF k
    <2>7. Accounted(m, k, B)
      BY <1>1, <2>1, <2>5, <2>6 DEF Accounted, Vacated, Vacant
    <2> QED BY <2>7 DEF B, k
  <1> QED BY <1>3, <1>4 DEF Moved

\* What happens elsewhere leaves a Mac's record and its requests agreeing.
LEMMA AccountedElsewhere ==
  ASSUME NEW n, NEW h, TypedHost(h), NEW A, NEW B, Accounted(n, h, A), Elsewhere(n, A, B)
  PROVE  Accounted(n, h, B)
  <1>1. ~Vacant(h) => /\ h.reservation.req \in Requests
                      /\ Of(n, A[h.reservation.req])
    BY DEF Accounted, Homed, Home, Of, Vacant
  <1>2. Out(h) => h.slot.req \in Requests /\ Of(n, A[h.slot.req])
    BY OutNames DEF Accounted, Homed, Home, Of
  <1>3. ~Vacant(h) => B[h.reservation.req] = A[h.reservation.req]
    BY <1>1 DEF Elsewhere
  <1>4. Out(h) => B[h.slot.req] = A[h.slot.req]
    BY <1>2 DEF Elsewhere
  <1>5. \A r \in Requests : Of(n, B[r]) => B[r] = A[r]
    BY DEF Elsewhere
  <1> QED BY <1>3, <1>4, <1>5 DEF Accounted

\* A move of one Mac's boots is about no other Mac, and asks for nothing new.
LEMMA MoveIsElsewhere ==
  ASSUME NEW m, NEW h, NEW A \in [Requests -> AskType], Accounted(m, h, A), AskedFor(A),
         NEW res, Moved(m, h, res)
  PROVE  /\ \A n : n # m => Elsewhere(n, A, Settle(A, res))
         /\ AskedFor(Settle(A, res))
  <1> DEFINE B == Settle(A, res)
             q == h.reservation.req
  <1>1. \A r \in res.sent \cup res.ended : r = q /\ ~Vacant(h)
    BY DEF Moved, KeptBy, SentBy, EndedBy
  <1>2. ~Vacant(h) => q \in Requests /\ ~(A[q].at = "nobody") /\ A[q].session \in Sessions
                      /\ HostOf[A[q].session] = m
    BY DEF Accounted, Homed, Home, Vacant
  <1>3. NoAsk.at = "nobody"
    BY DEF NoAsk
  <1>4. \A r \in Requests : B[r] = A[r]
                            \/ (r = q /\ ~Vacant(h) /\ (B[r] = NoAsk \/ B[r].session = A[r].session))
    BY <1>1, SettledAsk
  <1> HIDE DEF B
  <1>5. ASSUME NEW n, n # m PROVE Elsewhere(n, A, B)
    BY <1>2, <1>3, <1>4, <1>5 DEF Elsewhere, Of
  <1>6. AskedFor(B)
    BY <1>2, <1>3, <1>4 DEF AskedFor
  <1> QED BY <1>5, <1>6 DEF B

\* The account in the next state, from its parts there.
LEMMA AccountAgain ==
  ASSUME AskedFor(ask'), \A m \in Hosts : Accounted(m, host'[m], ask')
  PROVE  AccountInv'
  BY DEF AccountInv, AskedFor, Accounted, Homed, Home, Vacant, Of, Out

\* A gate call on one Mac keeps the account.
LEMMA ApplyAccount ==
  ASSUME GateInv, AccountInv, NEW m \in Hosts, NEW asks \in [Requests -> AskType], AskedFor(asks),
         \A n \in Hosts : n # m => Elsewhere(n, ask, asks),
         NEW g, Accounted(m, g, asks), NEW res, Moved(m, g, res), SoundHost(res.host, now),
         NEW dead, Apply(m, asks, res, dead)
  PROVE  AccountInv'
  <1> DEFINE out == Carry(res, dead, now)
  <1>1. host' = [host EXCEPT ![m] = out.host] /\ ask' = Settle(asks, out)
    BY DEF Apply
  <1>2. Moved(m, g, out)
    BY CarryMoves DEF GateInv, TypeOK
  <1> HIDE DEF out
  <1>3. Accounted(m, out.host, ask') /\ AskedFor(ask')
    BY <1>1, <1>2, AccountedMoves, MoveIsElsewhere
  <1>4. host \in [Hosts -> HostType] /\ \A n \in Hosts : TypedHost(host[n])
    BY DEF GateInv, TypeOK, SoundHost
  <1>5. ASSUME NEW n \in Hosts, n # m PROVE Accounted(n, host'[n], ask')
    <2>1. host'[n] = host[n] /\ Accounted(n, host[n], ask)
      BY <1>1, <1>4, <1>5 DEF AccountInv
    <2>2. Accounted(n, host[n], asks)
      BY <1>4, <1>5, <2>1, AccountedElsewhere
    <2>3. Elsewhere(n, asks, ask')
      BY <1>1, <1>2, <1>5, MoveIsElsewhere
    <2> QED BY <1>4, <2>1, <2>2, <2>3, AccountedElsewhere
  <1>6. host'[m] = out.host
    BY <1>1, <1>4
  <1> QED BY <1>3, <1>5, <1>6, AccountAgain

-----------------------------------------------------------------------------
(* admit.                                                                   *)

\* The new boot r of session s is sent, with a slot or without, or refused.
Passed(h, res, s, r) ==
  /\ HeldStays(h, res.host)
  /\ \/ /\ res.sent = {r} /\ res.ended = {}
        /\ SlotStays(h, res.host) \/ (res.host.slot.session = s /\ res.host.slot.req = r)
     \/ res.sent = {} /\ res.ended = {r} /\ SlotStays(h, res.host)

\* It is sent, and the one its session had waiting is superseded.
PassedAgain(h, res, r) ==
  /\ ~Vacant(h) /\ Vacated(res.host)
  /\ res.sent = {r} /\ res.ended = {h.reservation.req} /\ SlotStays(h, res.host)

\* It waits, and whatever waited before is answered.
Waits(h, res, s, r) ==
  /\ res.host.reservation.session = s /\ res.host.reservation.req = r
  /\ res.sent = {} /\ res.ended = IF Vacant(h) THEN {} ELSE {h.reservation.req}
  /\ SlotStays(h, res.host)

\* It waits, and whatever waited before is sent past the pressure.
WaitsBehind(h, res, s, r, t) ==
  /\ ~Vacant(h) /\ IsCritical(res.host, t)
  /\ res.host.reservation.session = s /\ res.host.reservation.req = r
  /\ res.sent = {h.reservation.req} /\ res.ended = {}
  /\ SlotStays(h, res.host) \/ SlotGiven(h, res.host)

Admitted(m, h, res, s, r, t) ==
  /\ Homed(m, h) => Homed(m, res.host)
  /\ Passed(h, res, s, r) \/ PassedAgain(h, res, r) \/ Waits(h, res, s, r)
     \/ WaitsBehind(h, res, s, r, t)

\* A hold replaces the reservation and leaves the rest of the record.
LEMMA HoldFrame ==
  ASSUME NEW h \in HostType, NEW s, NEW r, NEW since, NEW t, NEW k, k = Hold(h, s, r, since, t)
  PROVE  /\ k.slot = h.slot /\ k.agingWindowUntil = h.agingWindowUntil /\ PressureStays(h, k)
         /\ k.reservation.session = s /\ k.reservation.req = r
         /\ k.reservation.since = since /\ k.reservation.reason = WaitReason(h, t)
  BY DEF Hold, HostType, PressureStays

\* A boot of the session that waits already.
LEMMA AdmitHeldAgainMoves ==
  ASSUME NEW m, NEW h, NEW t \in Nat, SoundHost(h, t), NEW r, NEW cost, ~Vacant(h)
  PROVE  Admitted(m, h, AdmitHeldAgain(h, r, cost, t), h.reservation.session, r, t)
  <1> DEFINE v == Vacate(h)
             w == Hold(h, h.reservation.session, r, h.reservation.since, t)
             out == AdmitHeldAgain(h, r, cost, t)
  <1>1. v.slot = h.slot /\ Vacated(v)
    BY VacateSound, NoHeldEmpty DEF Vacated, Vacate, SoundHost, TypedHost, HostType
  <1>2. w.slot = h.slot /\ w.reservation.session = h.reservation.session /\ w.reservation.req = r
    BY HoldFrame DEF SoundHost, TypedHost
  <1>3. CASE cost = "warm"
    <2>1. out.host = v /\ out.sent = {r} /\ out.ended = {h.reservation.req}
      BY <1>3 DEF AdmitHeldAgain
    <2> HIDE DEF v, out
    <2>2. Admitted(m, h, out, h.reservation.session, r, t)
      BY <1>1, <2>1 DEF Admitted, PassedAgain, Homed, Home, Vacated, SlotStays, Out
    <2> QED BY <2>2 DEF out
  <1>4. CASE cost # "warm"
    <2>1. out.host = w /\ out.sent = {} /\ out.ended = {h.reservation.req}
      BY <1>4, ResultParts DEF AdmitHeldAgain
    <2> HIDE DEF w, out
    <2>2. Admitted(m, h, out, h.reservation.session, r, t)
      BY <1>2, <2>1 DEF Admitted, Waits, Homed, SlotStays, Out
    <2> QED BY <2>2 DEF out
  <1> QED BY <1>3, <1>4

\* A boot of the session that has the slot.
LEMMA AdmitSlotAgainMoves ==
  ASSUME NEW m, NEW h, NEW t \in Nat, SoundHost(h, t), NEW r
  PROVE  Admitted(m, h, AdmitSlotAgain(h, r, t), h.slot.session, r, t)
  <1> DEFINE slot == [h.slot EXCEPT !.req = r, !.phase = "booting", !.since = t, !.readyAt = None,
                                    !.samples = <<>>, !.droppedFirst = FALSE, !.reboundAt = None]
             k    == [h EXCEPT !.slot = slot]
             out  == AdmitSlotAgain(h, r, t)
  <1>1. k.slot.session = h.slot.session /\ k.slot.req = r /\ k.reservation = h.reservation
    BY DEF SoundHost, TypedHost, HostType, SlotType
  <1>2. out.host = k /\ out.sent = {r} /\ out.ended = {}
    BY ResultParts DEF AdmitSlotAgain
  <1> HIDE DEF k, out
  <1>3. Admitted(m, h, out, h.slot.session, r, t)
    BY <1>1, <1>2 DEF Admitted, Passed, HeldStays, Homed
  <1> QED BY <1>3 DEF out

\* What happens to an automated boot.
LEMMA AdmitAutomatedCases ==
  ASSUME NEW h, NEW t \in Nat, SoundHost(h, t), NEW s, NEW r, NEW d, d = AdmitAutomated(h, s, r, t)
  PROVE  /\ d.host.reservation = h.reservation /\ PressureStays(h, d.host)
         /\ \/ /\ ~IsCritical(h, t) /\ Free(h) /\ (WindowOpen(h) \/ Vacant(h))
               /\ d.sent = {r} /\ d.ended = {}
               /\ d.host.slot = NewSlot(s, r, "booting", t, None) /\ d.host.agingWindowUntil = None
            \/ /\ ~(~IsCritical(h, t) /\ Free(h) /\ (WindowOpen(h) \/ Vacant(h)))
               /\ d.sent = {} /\ d.ended = {r}
               /\ d.host.slot = h.slot /\ d.host.agingWindowUntil = h.agingWindowUntil
  <1> DEFINE go == ~IsCritical(h, t) /\ Free(h) /\ (WindowOpen(h) \/ Vacant(h))
             k  == [TakeSlot(h, s, r, t) EXCEPT !.humanStreak = 0, !.agingWindowUntil = None]
             n  == [h EXCEPT !.lastAutomatedRefusalAt = t]
  <1>1. CASE go
    <2>1. d = Deliver(k, r)
      BY <1>1 DEF AdmitAutomated
    <2>2. /\ k.slot = NewSlot(s, r, "booting", t, None) /\ k.reservation = h.reservation
          /\ k.agingWindowUntil = None /\ PressureStays(h, k)
      BY DEF TakeSlot, SoundHost, TypedHost, HostType, PressureStays
    <2> HIDE DEF k
    <2> QED BY <1>1, <2>1, <2>2, ResultParts
  <1>2. CASE ~go
    <2>1. d = Answer(n, r)
      BY <1>2 DEF AdmitAutomated
    <2>2. /\ n.slot = h.slot /\ n.reservation = h.reservation
          /\ n.agingWindowUntil = h.agingWindowUntil /\ PressureStays(h, n)
      BY DEF SoundHost, TypedHost, HostType, PressureStays
    <2> HIDE DEF n
    <2> QED BY <1>2, <2>1, <2>2, ResultParts
  <1> QED BY <1>1, <1>2

\* What happens to a person's boot: it takes a slot nothing keeps from it, waits
\* where nobody does, waits in place of one let through under pressure, or is let
\* through itself without the slot.
LEMMA AdmitPersonCases ==
  ASSUME NEW h, NEW t \in Nat, SoundHost(h, t), NEW s, NEW r, NEW d, d = AdmitPerson(h, s, r, t)
  PROVE  /\ PressureStays(h, d.host) /\ d.host.agingWindowUntil = h.agingWindowUntil
         /\ \/ /\ Free(h) /\ ~WindowOpen(h) /\ ~IsCritical(h, t)
               /\ d.sent = {r} /\ d.ended = {} /\ d.host.reservation = h.reservation
               /\ d.host.slot = NewSlot(s, r, "booting", t, None)
            \/ /\ Vacant(h) /\ d.sent = {} /\ d.ended = {} /\ d.host.slot = h.slot
               /\ d.host.reservation = Hold(h, s, r, t, t).reservation
            \/ /\ ~Vacant(h) /\ IsCritical(h, t)
               /\ d.sent = {h.reservation.req} /\ d.ended = {}
               /\ d.host.slot = NewSlot(h.reservation.session, h.reservation.req, "booting", t, None)
               /\ d.host.reservation = Hold(h, s, r, t, t).reservation
            \/ /\ ~Vacant(h) /\ d.sent = {r} /\ d.ended = {}
               /\ d.host.reservation = h.reservation /\ d.host.slot = h.slot
  <1> DEFINE w == Hold(h, s, r, t, t)
             k == GrantToPerson(h, s, r, t)
             way == Free(h) /\ ~WindowOpen(h) /\ ~IsCritical(h, t)
  <1>1. h \in HostType
    BY DEF SoundHost, TypedHost
  <1>2. w.slot = h.slot /\ w.agingWindowUntil = h.agingWindowUntil /\ PressureStays(h, w)
    BY <1>1, HoldFrame
  <1>3. CASE way
    <2>1. /\ k.slot = NewSlot(s, r, "booting", t, None) /\ k.reservation = h.reservation
          /\ k.agingWindowUntil = h.agingWindowUntil /\ PressureStays(h, k)
      BY <1>1, GrantFrame
    <2>2. d = Deliver(k, r)
      BY <1>3 DEF AdmitPerson
    <2> HIDE DEF k
    <2> QED BY <1>3, <2>1, <2>2, ResultParts
  <1>4. CASE ~way /\ Vacant(h)
    <2>1. d = Quiet(w)
      BY <1>4 DEF AdmitPerson
    <2>2. d.host = w /\ d.sent = {} /\ d.ended = {}
      BY <2>1, ResultParts
    <2> QED BY <1>2, <1>4, <2>2
  <1>5. CASE ~way /\ ~Vacant(h) /\ Free(h) /\ IsCritical(h, t)
    <2> DEFINE hs == h.reservation.session
               hr == h.reservation.req
    <2>1. d = DeliverAnyway(w, hs, hr, t)
      BY <1>5 DEF AdmitPerson
    <2>2. Free(w) /\ IsCritical(w, t)
      BY <1>2, <1>5 DEF Free, IsCritical, PressureStays
    <2>3. d = Deliver(GrantToPerson(w, hs, hr, t), hr)
      BY <2>1, <2>2 DEF DeliverAnyway
    <2> DEFINE g == GrantToPerson(w, hs, hr, t)
    <2>4. w = [h EXCEPT !.reservation = w.reservation]
      BY <1>1 DEF Hold, HostType
    <2>5. g.slot = NewSlot(hs, hr, "booting", t, None) /\ g.reservation = w.reservation
          /\ g.agingWindowUntil = h.agingWindowUntil /\ PressureStays(h, g)
      <3> DEFINE v == w.reservation
      <3> HIDE DEF v
      <3> QED BY <1>1, <2>4 DEF v, GrantToPerson, NoteHumanGrant, TakeSlot, HostType, PressureStays
    <2>6. d.host = g /\ d.sent = {hr} /\ d.ended = {}
      BY <2>3, ResultParts
    <2> HIDE DEF g, w
    <2> QED BY <1>5, <2>5, <2>6 DEF w
  <1>6. CASE ~way /\ ~Vacant(h) /\ ~(Free(h) /\ IsCritical(h, t))
    <2>1. d = DeliverAnyway(h, s, r, t)
      BY <1>6 DEF AdmitPerson
    <2>2. d = Deliver(h, r)
      BY <1>6, <2>1 DEF DeliverAnyway
    <2> QED BY <1>6, <2>2, ResultParts DEF PressureStays
  <1> QED BY <1>3, <1>4, <1>5, <1>6

\* A person's boot is admitted as a boot may be.
LEMMA AdmitPersonMoves ==
  ASSUME NEW m, NEW h, NEW t \in Nat, SoundHost(h, t), NEW s, Home(m, s), NEW r
  PROVE  Admitted(m, h, AdmitPerson(h, s, r, t), s, r, t)
  <1> DEFINE d == AdmitPerson(h, s, r, t)
             w == Hold(h, s, r, t, t).reservation
  <1>1. w.session = s /\ w.req = r
    BY HoldFrame DEF SoundHost, TypedHost
  <1>2. /\ PressureStays(h, d.host)
        /\ \/ /\ d.sent = {r} /\ d.ended = {} /\ d.host.reservation = h.reservation
              /\ d.host.slot = NewSlot(s, r, "booting", t, None)
           \/ /\ Vacant(h) /\ d.sent = {} /\ d.ended = {} /\ d.host.slot = h.slot
              /\ d.host.reservation = w
           \/ /\ ~Vacant(h) /\ IsCritical(h, t)
              /\ d.sent = {h.reservation.req} /\ d.ended = {}
              /\ d.host.slot = NewSlot(h.reservation.session, h.reservation.req, "booting", t, None)
              /\ d.host.reservation = w
           \/ /\ ~Vacant(h) /\ d.sent = {r} /\ d.ended = {}
              /\ d.host.reservation = h.reservation /\ d.host.slot = h.slot
    BY AdmitPersonCases
  <1> HIDE DEF d, w
  <1>3. Homed(m, h) => Homed(m, d.host)
    BY <1>1, <1>2, SlotParts, SMTT(20) DEF Homed
  <1>4. Passed(h, d, s, r) \/ Waits(h, d, s, r) \/ WaitsBehind(h, d, s, r, t)
    <2>1. CASE /\ d.sent = {r} /\ d.ended = {} /\ d.host.reservation = h.reservation
               /\ d.host.slot = NewSlot(s, r, "booting", t, None) \/ d.host.slot = h.slot
      BY <2>1, SlotParts, SMTT(20) DEF Passed, HeldStays, SlotStays, Out
    <2>2. CASE /\ Vacant(h) /\ d.sent = {} /\ d.ended = {} /\ d.host.slot = h.slot
               /\ d.host.reservation = w
      BY <1>1, <2>2 DEF Waits, SlotStays, Out
    <2>3. CASE /\ ~Vacant(h) /\ IsCritical(h, t)
               /\ d.sent = {h.reservation.req} /\ d.ended = {}
               /\ d.host.slot = NewSlot(h.reservation.session, h.reservation.req, "booting", t, None)
               /\ d.host.reservation = w
      <3>1. IsCritical(d.host, t)
        BY <1>2, <2>3 DEF IsCritical, PressureStays
      <3>2. SlotGiven(h, d.host)
        BY <2>3, SlotParts, SMTT(20) DEF SlotGiven
      <3> QED BY <1>1, <2>3, <3>1, <3>2 DEF WaitsBehind
    <2> QED BY <1>2, <2>1, <2>2, <2>3
  <1>5. Admitted(m, h, d, s, r, t)
    BY <1>3, <1>4 DEF Admitted
  <1> QED BY <1>5 DEF d

\* Every branch of admit does with a boot what a boot may meet.
LEMMA AdmitMoves ==
  ASSUME NEW m, NEW h, NEW t \in Nat, SoundHost(h, t), NEW s \in Sessions, HostOf[s] = m, NEW r,
         NEW cost, NEW class
  PROVE  Admitted(m, h, Admit(h, s, r, cost, class, t), s, r, t)
  <1>0. Home(m, s) /\ s # None
    BY DEF Home
  <1>1. CASE h.reservation.session = s
    BY <1>0, <1>1, AdmitHeldAgainMoves DEF Admit, Vacant
  <1>2. CASE h.reservation.session # s /\ h.slot.session = s
    BY <1>2, AdmitSlotAgainMoves DEF Admit
  <1>3. CASE h.reservation.session # s /\ h.slot.session # s /\ cost = "warm"
    <2>1. Admit(h, s, r, cost, class, t) = Deliver(h, r)
      BY <1>3 DEF Admit
    <2>2. Admitted(m, h, Deliver(h, r), s, r, t)
      BY ResultParts DEF Admitted, Passed, HeldStays, SlotStays
    <2> QED BY <2>1, <2>2
  <1>4. CASE /\ h.reservation.session # s /\ h.slot.session # s /\ cost # "warm"
             /\ class = "automated"
    <2> DEFINE d == AdmitAutomated(h, s, r, t)
    <2>1. Admit(h, s, r, cost, class, t) = d
      BY <1>4 DEF Admit
    <2>2. /\ d.host.reservation = h.reservation
          /\ \/ /\ d.sent = {r} /\ d.ended = {}
                /\ d.host.slot = NewSlot(s, r, "booting", t, None)
             \/ /\ d.sent = {} /\ d.ended = {r} /\ d.host.slot = h.slot
      BY AdmitAutomatedCases
    <2> HIDE DEF d
    <2>3. Admitted(m, h, d, s, r, t)
      BY <1>0, <2>2, SlotParts, SMTT(20) DEF Admitted, Passed, HeldStays, SlotStays, Homed, Out
    <2> QED BY <2>1, <2>3
  <1>5. CASE /\ h.reservation.session # s /\ h.slot.session # s /\ cost # "warm"
             /\ class # "automated"
    BY <1>0, <1>5, AdmitPersonMoves DEF Admit
  <1> QED BY <1>1, <1>2, <1>3, <1>4, <1>5

\* Carried out, an admitted boot is still admitted: it was nowhere, so it is not
\* among the held boots that cannot be forwarded.
LEMMA CarryAdmitted ==
  ASSUME NEW m, NEW h, NEW res, NEW t \in Nat, SoundHost(res.host, t), NEW s, NEW r,
         ask[r].at # "held", Admitted(m, h, res, s, r, t), NEW dead
  PROVE  Admitted(m, h, Carry(res, dead, t), s, r, t)
  <1> DEFINE lost == {x \in res.sent : ask[x].at = "held" /\ ask[x].session \in dead}
             d    == Release(res.host, t)
             out  == Carry(res, dead, t)
  <1>1. /\ out.sent = res.sent \ lost /\ out.ended = res.ended \cup lost
        /\ out.host = IF res.host.slot.req \in lost THEN d.host ELSE res.host
    BY DEF Carry
  <1>2. CASE lost = {}
    <2>1. out.host = res.host /\ out.sent = res.sent /\ out.ended = res.ended
      BY <1>1, <1>2
    <2> HIDE DEF out, lost
    <2>2. Admitted(m, h, out, s, r, t)
      BY <2>1 DEF Admitted, Passed, PassedAgain, Waits, WaitsBehind
    <2> QED BY <2>2 DEF out
  <1>3. CASE lost # {}
    <2>1. WaitsBehind(h, res, s, r, t) /\ lost = {h.reservation.req}
      BY <1>3 DEF Admitted, Passed, PassedAgain, Waits, WaitsBehind
    <2>2. out.sent = {} /\ out.ended = {h.reservation.req}
      BY <1>1, <2>1 DEF WaitsBehind
    <2>3. d.host.slot = NoSlot /\ d.host.reservation = res.host.reservation
      BY <2>1, ReleaseCases DEF WaitsBehind, Dispatched
    <2> HIDE DEF out, lost, d
    <2>4. SlotStays(h, out.host)
      <3>1. CASE res.host.slot.req \in lost
        BY <1>1, <2>3, <3>1, SlotParts DEF SlotStays, Out
      <3>2. CASE res.host.slot.req \notin lost
        BY <1>1, <2>1, <3>2 DEF WaitsBehind, SlotGiven, SlotStays, Out
      <3> QED BY <3>1, <3>2
    <2>5. Homed(m, h) => Homed(m, out.host)
      BY <1>1, <2>3, SlotParts DEF Admitted, Homed, Home
    <2>6. Waits(h, out, s, r)
      BY <1>1, <2>1, <2>2, <2>3, <2>4 DEF WaitsBehind, Waits
    <2>7. Admitted(m, h, out, s, r, t)
      BY <2>5, <2>6 DEF Admitted
    <2> QED BY <2>7 DEF out
  <1> QED BY <1>2, <1>3

\* An admitted boot, once settled, is accounted for like every other.
LEMMA AdmittedAccounted ==
  ASSUME NEW m, NEW h, NEW t, ask \in [Requests -> AskType], Accounted(m, h, ask), AskedFor(ask),
         NEW s \in Sessions, HostOf[s] = m, NEW r \in Requests, ask[r].at = "nobody",
         NEW asks \in [Requests -> AskType], asks[r].session = s, asks[r].at = "held",
         \A x \in Requests : x # r => asks[x] = ask[x],
         NEW res, Admitted(m, h, res, s, r, t)
  PROVE  /\ Accounted(m, res.host, Settle(asks, res))
         /\ AskedFor(Settle(asks, res))
         /\ \A n : n # m => Elsewhere(n, ask, Settle(asks, res))
  <1> DEFINE B == Settle(asks, res)
             k == res.host
             q == h.reservation.req
  <1>1. /\ asks[r].session = s /\ asks[r].at = "held"
        /\ \A x \in Requests : x # r => asks[x] = ask[x]
    OBVIOUS
  <1>2. ~Vacant(h) => /\ q \in Requests /\ q # r /\ ask[q].at = "held"
                      /\ ask[q].session = h.reservation.session
                      /\ ask[q].session \in Sessions /\ HostOf[ask[q].session] = m
    BY DEF Accounted, Homed, Home, Vacant
  <1>3. \A x \in Requests : (x \notin res.sent /\ x \notin res.ended) => B[x] = asks[x]
    BY SettledAsk
  <1>4. \A x \in Requests : x \in res.ended => B[x] = NoAsk
    BY SettledAsk
  <1>5. \A x \in Requests : (x \in res.sent /\ x \notin res.ended) =>
          B[x].at = "agent" /\ B[x].session = asks[x].session
    BY SettledAsk
  <1>6. NoAsk.at = "nobody" /\ Homed(m, k)
    BY DEF NoAsk, Admitted, Accounted
  <1>7. \A x \in Requests : (x # r /\ (Vacant(h) \/ x # q)) => B[x] = ask[x]
    <2>1. \A x \in res.sent \cup res.ended : x = r \/ (~Vacant(h) /\ x = q)
      BY DEF Admitted, Passed, PassedAgain, Waits, WaitsBehind
    <2> QED BY <1>1, <1>3, <2>1
  <1>8. Out(h) => /\ h.slot.req \in Requests /\ B[h.slot.req] = ask[h.slot.req]
                  /\ ask[h.slot.req].at = "agent" /\ ask[h.slot.req].session = h.slot.session
    BY <1>2, <1>7 DEF Accounted
  <1>9. \A x \in Requests : (ask[x].at = "held" /\ Of(m, ask[x])) => ~Vacant(h) /\ x = q
    BY DEF Accounted
  <1> HIDE DEF B, k
  <1>10. ASSUME Passed(h, res, s, r) PROVE Accounted(m, k, B)
    <2>1. B[r].at # "held" /\ (~Vacant(h) => B[q] = ask[q])
      BY <1>1, <1>2, <1>3, <1>4, <1>5, <1>6, <1>10 DEF Passed
    <2>2. Out(k) => /\ k.slot.req \in Requests /\ B[k.slot.req].at = "agent"
                    /\ B[k.slot.req].session = k.slot.session
      <3>1. CASE SlotStays(h, k)
        BY <1>8, <3>1 DEF SlotStays
      <3>2. CASE ~SlotStays(h, k)
        BY <1>1, <1>5, <1>10, <3>2 DEF Passed, k
      <3> QED BY <3>1, <3>2
    <2>3. (Vacant(k) <=> Vacant(h)) /\ k.reservation.req = q
          /\ k.reservation.session = h.reservation.session
      BY <1>10 DEF Passed, HeldStays, Vacant, k
    <2>4. \A x \in Requests : (B[x].at = "held" /\ Of(m, B[x])) => x = q
      BY <1>7, <1>9, <2>1
    <2> QED BY <1>2, <1>6, <2>1, <2>2, <2>3, <2>4 DEF Accounted
  <1>11. ASSUME PassedAgain(h, res, r) PROVE Accounted(m, k, B)
    <2>1. B[r].at # "held" /\ B[q].at # "held"
      BY <1>1, <1>2, <1>4, <1>5, <1>6, <1>11 DEF PassedAgain
    <2>2. Out(k) => /\ k.slot.req \in Requests /\ B[k.slot.req].at = "agent"
                    /\ B[k.slot.req].session = k.slot.session
      BY <1>8, <1>11 DEF PassedAgain, SlotStays, k
    <2>3. Vacant(k) /\ k.reservation.req = None
      BY <1>11 DEF PassedAgain, Vacated, Vacant, k
    <2>4. \A x \in Requests : ~(B[x].at = "held" /\ Of(m, B[x]))
      BY <1>7, <1>9, <2>1
    <2> QED BY <1>6, <2>2, <2>3, <2>4 DEF Accounted
  <1>12. ASSUME Waits(h, res, s, r) \/ WaitsBehind(h, res, s, r, t) PROVE Accounted(m, k, B)
    <2>1. B[r] = asks[r]
      BY <1>1, <1>2, <1>3, <1>12 DEF Waits, WaitsBehind
    <2>2. ~Vacant(h) => /\ B[q].at # "held"
                        /\ B[q].at = "agent" => B[q].session = h.reservation.session
      BY <1>1, <1>2, <1>4, <1>5, <1>6, <1>12 DEF Waits, WaitsBehind
    <2>3. Out(k) => /\ k.slot.req \in Requests /\ B[k.slot.req].at = "agent"
                    /\ B[k.slot.req].session = k.slot.session
      <3>1. CASE SlotStays(h, k)
        BY <1>8, <3>1 DEF SlotStays
      <3>2. CASE ~SlotStays(h, k)
        <4>1. WaitsBehind(h, res, s, r, t) /\ SlotGiven(h, k)
          BY <1>12, <3>2 DEF Waits, WaitsBehind, k
        <4>2. B[q].at = "agent" /\ B[q].session = asks[q].session /\ asks[q] = ask[q]
          BY <1>1, <1>2, <1>5, <4>1 DEF WaitsBehind
        <4> QED BY <1>2, <4>1, <4>2 DEF WaitsBehind, SlotGiven
      <3> QED BY <3>1, <3>2
    <2>4. ~Vacant(k) /\ k.reservation.req = r /\ k.reservation.session = s
      BY <1>12 DEF Waits, WaitsBehind, Vacant, k
    <2>5. \A x \in Requests : (B[x].at = "held" /\ Of(m, B[x])) => x = r
      BY <1>7, <1>9, <2>2
    <2> QED BY <1>1, <1>6, <2>1, <2>3, <2>4, <2>5 DEF Accounted
  <1>13. Accounted(m, k, B)
    BY <1>10, <1>11, <1>12 DEF Admitted
  <1>14. B[r] = NoAsk \/ (B[r].session = s /\ B[r].at # "nobody")
    BY <1>1, <1>3, <1>4, <1>5
  <1>15. ~Vacant(h) => B[q] = NoAsk \/ (B[q].session = ask[q].session /\ B[q].at # "nobody")
    BY <1>1, <1>2, <1>3, <1>4, <1>5
  <1>16. AskedFor(B)
    <2> SUFFICES ASSUME NEW x \in Requests, B[x].at # "nobody" PROVE B[x].session \in Sessions
      BY DEF AskedFor
    <2> QED BY <1>2, <1>6, <1>7, <1>14, <1>15 DEF AskedFor
  <1>17. ASSUME NEW n, n # m PROVE Elsewhere(n, ask, B)
    <2> SUFFICES ASSUME NEW x \in Requests, ask[x] # B[x]
                 PROVE  ~Of(n, ask[x]) /\ ~Of(n, B[x])
      BY DEF Elsewhere
    <2>1. x = r \/ (~Vacant(h) /\ x = q)
      BY <1>7
    <2> QED BY <1>2, <1>6, <1>14, <1>15, <1>17, <2>1 DEF Of
  <1> QED BY <1>13, <1>16, <1>17 DEF B, k

-----------------------------------------------------------------------------
(* Every step keeps the account.                                            *)

\* asks is the account once boots of s that were at the agent are answered.
AnsweredFor(s, asks) ==
  \A x \in Requests :
    asks[x] = ask[x] \/ (asks[x] = NoAsk /\ ask[x].at = "agent" /\ ask[x].session = s)

Emptied(h) == [h EXCEPT !.slot = NoSlot]

\* Answers from s's agent leave every record accounted for, but for a slot of
\* s's own whose boot they answered: that slot is let go by the same event.
LEMMA AnsweredAccounted ==
  ASSUME AccountInv, NEW s \in Sessions, NEW m \in Hosts, HostOf[s] = m, host[m] \in HostType,
         NEW asks, AnsweredFor(s, asks)
  PROVE  /\ AskedFor(asks)
         /\ \A n \in Hosts : n # m => Elsewhere(n, ask, asks)
         /\ Accounted(m, Emptied(host[m]), asks)
         /\ SameHeld(Emptied(host[m]), host[m])
         /\ (Out(host[m]) => asks[host[m].slot.req] = ask[host[m].slot.req])
              => Accounted(m, host[m], asks)
  <1> DEFINE h == host[m]
             g == Emptied(h)
  <1>1. NoAsk.at = "nobody"
    BY DEF NoAsk
  <1>2. Accounted(m, h, ask) /\ AskedFor(ask)
    BY DEF AccountInv
  <1>3. AskedFor(asks) /\ \A n \in Hosts : n # m => Elsewhere(n, ask, asks)
    BY <1>1, <1>2 DEF AnsweredFor, AskedFor, Elsewhere, Of
  <1>4. /\ ~Vacant(h) => asks[h.reservation.req] = ask[h.reservation.req]
        /\ \A x \in Requests : asks[x].at = "held" => asks[x] = ask[x]
    BY <1>1, <1>2 DEF AnsweredFor, Accounted
  <1>5. g.slot = NoSlot /\ g.reservation = h.reservation
    BY DEF Emptied, HostType
  <1> HIDE DEF g, h
  <1>6. Accounted(m, g, asks)
    BY <1>2, <1>4, <1>5, SlotParts, SMTT(20) DEF Accounted, Homed, Home, Vacant, Out
  <1>7. (Out(h) => asks[h.slot.req] = ask[h.slot.req]) => Accounted(m, h, asks)
    BY <1>2, <1>4 DEF Accounted
  <1> QED BY <1>3, <1>5, <1>6, <1>7 DEF g, h, SameHeld

\* A CPU reading and the pressure with it, two gate calls on one Mac.
LEMMA ResourcesAccount ==
  ASSUME GateInv, AccountInv, NEW m \in Hosts, NEW cpu \in Cpu, NEW p, NEW dead,
         Resources(m, cpu, p, dead)
  PROVE  AccountInv'
  <1> DEFINE a == Carry(EvSample(host[m], cpu, now), dead, now)
             b == IF p = "none" THEN Quiet(a.host) ELSE EvPressure(a.host, p = "critical", now)
  <1>1. now \in Nat /\ ask \in [Requests -> AskType] /\ SoundHost(host[m], now) /\ Cause(host[m])
    BY DEF GateInv, TypeOK
  <1>2. SoundResult(EvSample(host[m], cpu, now), now) /\ Moved(m, host[m], EvSample(host[m], cpu, now))
    BY <1>1, EvSampleSound, EvSampleMoves
  <1>3. Moved(m, host[m], a) /\ SoundResult(a, now)
    BY <1>1, <1>2, CarryMoves, CarrySound DEF SoundResult
  <1>4. Apply(m, Settle(ask, a), b, dead)
    BY DEF Resources
  <1> HIDE DEF a
  <1>5. /\ Settle(ask, a) \in [Requests -> AskType] /\ AskedFor(Settle(ask, a))
        /\ Accounted(m, a.host, Settle(ask, a))
        /\ \A n : n # m => Elsewhere(n, ask, Settle(ask, a))
    BY <1>1, <1>3, SettleType, AccountedMoves, MoveIsElsewhere DEF AccountInv
  <1>6. (p = "critical") \in BOOLEAN /\ SoundHost(a.host, now) /\ Cause(a.host)
    BY <1>3 DEF SoundResult
  <1>7. Moved(m, a.host, b) /\ SoundHost(b.host, now)
    <2>1. Moved(m, a.host, Quiet(a.host)) /\ SoundHost(Quiet(a.host).host, now)
      BY <1>6, QuietMoves, ResultParts DEF HeldStays, SlotStays
    <2>2. Moved(m, a.host, EvPressure(a.host, p = "critical", now))
          /\ SoundHost(EvPressure(a.host, p = "critical", now).host, now)
      BY <1>1, <1>6, EvPressureMoves, EvPressureSound DEF SoundResult
    <2> QED BY <2>1, <2>2
  <1> HIDE DEF b
  <1> QED BY <1>4, <1>5, <1>7, ApplyAccount

\* A tick of every Mac at once.
LEMMA TickAccount ==
  ASSUME GateInv, AccountInv, NEW dead, Tick(dead)
  PROVE  AccountInv'
  <1> DEFINE out == [m \in Hosts |-> Carry(TickHost(host[m], now), dead, now)]
             all == [sent  |-> UNION {out[m].sent : m \in Hosts},
                     ended |-> UNION {out[m].ended : m \in Hosts}]
  <1>1. now \in Nat /\ ask \in [Requests -> AskType]
        /\ \A m \in Hosts : SoundHost(host[m], now) /\ Cause(host[m]) /\ Accounted(m, host[m], ask)
        /\ AskedFor(ask)
    BY DEF GateInv, TypeOK, AccountInv
  <1>2. ASSUME NEW m \in Hosts PROVE Moved(m, host[m], out[m]) /\ SoundHost(out[m].host, now)
    <2>1. SoundResult(TickHost(host[m], now), now) /\ Moved(m, host[m], TickHost(host[m], now))
      BY <1>1, TickSound, TickMoves
    <2> QED BY <1>1, <2>1, CarryMoves, CarrySound DEF SoundResult
  <1>3. \A m \in Hosts : host'[m] = out[m].host
    BY DEF Tick
  <1>4. ask' = Settle(ask, all)
    BY DEF Tick
  <1>5. /\ \A m \in Hosts : out[m].sent \subseteq all.sent /\ out[m].ended \subseteq all.ended
        /\ \A x \in all.sent : \E m \in Hosts : x \in out[m].sent
        /\ \A x \in all.ended : \E m \in Hosts : x \in out[m].ended
    OBVIOUS
  <1> HIDE DEF out, all
  <1>6. ASSUME NEW m \in Hosts, NEW x \in out[m].sent \cup out[m].ended
        PROVE  x = host[m].reservation.req /\ x \in Requests /\ Of(m, ask[x])
    <2>1. x = host[m].reservation.req /\ ~Vacant(host[m])
      BY <1>2, <1>6 DEF Moved, KeptBy, SentBy, EndedBy
    <2> QED BY <1>1, <2>1 DEF Accounted, Homed, Home, Vacant, Of
  <1>7. ASSUME NEW m \in Hosts PROVE Accounted(m, out[m].host, ask')
    <2> DEFINE B == Settle(ask, out[m])
    <2>1. Accounted(m, out[m].host, B)
      BY <1>1, <1>2, AccountedMoves
    <2>2. ASSUME NEW x \in Requests, B[x] # ask'[x] PROVE ~Of(m, B[x]) /\ ~Of(m, ask'[x])
      <3>1. x \notin out[m].sent /\ x \notin out[m].ended
        <4>1. SUFFICES ASSUME x \in out[m].sent \cup out[m].ended PROVE FALSE
          OBVIOUS
        <4>2. ASSUME NEW n \in Hosts, x \in out[n].sent \cup out[n].ended PROVE n = m
          BY <1>6, <4>1, <4>2 DEF Of
        <4>3. (x \in all.sent <=> x \in out[m].sent) /\ (x \in all.ended <=> x \in out[m].ended)
          BY <1>5, <4>2
        <4>4. ask'[x] = B[x]
          BY <1>4, <4>3 DEF Settle
        <4> QED BY <2>2, <4>4
      <3>2. B[x] = ask[x]
        BY <1>1, <3>1, SettledAsk
      <3>3. PICK n \in Hosts : x \in out[n].sent \cup out[n].ended
        BY <1>1, <1>4, <1>5, <2>2, <3>2, SettledAsk
      <3>4. n # m /\ Of(n, ask[x])
        BY <1>6, <3>1, <3>3
      <3>5. ask'[x] = NoAsk \/ ask'[x].session = ask[x].session
        BY <1>1, <1>4, SettledAsk
      <3>6. NoAsk.at = "nobody"
        BY DEF NoAsk
      <3> QED BY <3>2, <3>4, <3>5, <3>6 DEF Of
    <2> HIDE DEF B
    <2>3. Elsewhere(m, B, ask')
      BY <2>2 DEF Elsewhere
    <2>4. TypedHost(out[m].host)
      BY <1>2 DEF SoundHost
    <2> QED BY <2>1, <2>3, <2>4, AccountedElsewhere
  <1>8. AskedFor(ask')
    <2> SUFFICES ASSUME NEW x \in Requests, ask'[x].at # "nobody" PROVE ask'[x].session \in Sessions
      BY DEF AskedFor
    <2>1. NoAsk.at = "nobody"
      BY DEF NoAsk
    <2>2. CASE x \in all.sent \cup all.ended
      <3>1. ask[x].session \in Sessions
        BY <1>5, <1>6, <2>2 DEF Of
      <3> QED BY <1>1, <1>4, <2>1, <2>2, <3>1, SettledAsk
    <2>3. CASE x \notin all.sent \cup all.ended
      <3>1. ask'[x] = ask[x]
        BY <1>1, <1>4, <2>3, SettledAsk
      <3>4. ask[x].at # "nobody"
        BY <3>1
      <3>2. AskedFor(ask)
        BY DEF AccountInv
      <3>3. ask[x].session \in Sessions
        BY <3>4, <3>2 DEF AskedFor
      <3> QED BY <3>1, <3>3
    <2> QED BY <2>2, <2>3
  <1> QED BY <1>3, <1>7, <1>8, AccountAgain

\* A boot request: a request nobody has, admitted.
LEMMA BootAccount ==
  ASSUME GateInv, AccountInv, NEW s \in Sessions, NEW r \in Requests, NEW cost,
         NEW class \in {"interactive", "automated"}, NEW dead, Boot(s, r, cost, class, dead)
  PROVE  AccountInv'
  <1> DEFINE m == HostOf[s]
             h == host[m]
             asks == [ask EXCEPT ![r] = [session |-> s, class |-> class, at |-> "held"]]
             res == Admit(h, s, r, cost, class, now)
             out == Carry(res, dead, now)
  <1>1. /\ now \in Nat /\ ask \in [Requests -> AskType] /\ host \in [Hosts -> HostType] /\ m \in Hosts
        /\ SoundHost(h, now) /\ Cause(h)
    BY DEF GateInv, TypeOK
  <1>2. Accounted(m, h, ask) /\ AskedFor(ask) /\ ask[r].at = "nobody"
    BY <1>1 DEF AccountInv, Boot, Unused
  <1>3. SoundHost(res.host, now) /\ Admitted(m, h, res, s, r, now)
    BY <1>1, AdmitSound, AdmitMoves DEF SoundResult
  <1>4. host' = [host EXCEPT ![m] = out.host] /\ ask' = Settle(asks, out)
    BY DEF Boot, Apply
  <1>5. /\ asks \in [Requests -> AskType] /\ asks[r].session = s /\ asks[r].at = "held"
        /\ \A x \in Requests : x # r => asks[x] = ask[x]
    BY <1>1 DEF AskType
  <1> HIDE DEF res, asks
  <1>6. Admitted(m, h, out, s, r, now)
    BY <1>1, <1>2, <1>3, CarryAdmitted
  <1> HIDE DEF out
  <1>7. /\ Accounted(m, out.host, ask') /\ AskedFor(ask')
        /\ \A n : n # m => Elsewhere(n, ask, ask')
    <2> HIDE DEF m, h
    <2>1. HostOf[s] = m
      BY DEF m
    <2> QED BY <1>1, <1>2, <1>4, <1>5, <1>6, <2>1, AdmittedAccounted
  <1>8. ASSUME NEW n \in Hosts, n # m PROVE Accounted(n, host'[n], ask')
    <2>1. host'[n] = host[n] /\ Accounted(n, host[n], ask) /\ TypedHost(host[n])
      BY <1>1, <1>4, <1>8 DEF AccountInv, GateInv, SoundHost
    <2> QED BY <1>7, <1>8, <2>1, AccountedElsewhere
  <1>9. host'[m] = out.host
    BY <1>1, <1>4
  <1> QED BY <1>7, <1>8, <1>9, AccountAgain

\* Every step of the gate, the agents, the viewers and the clock keeps the account.
LEMMA AccountStep == GateInv /\ AccountInv /\ [Next]_vars => AccountInv'
  <1> SUFFICES ASSUME GateInv, AccountInv, [Next]_vars
               PROVE  AccountInv'
    OBVIOUS
  <1>1. /\ now \in Nat /\ ask \in [Requests -> AskType] /\ host \in [Hosts -> HostType]
        /\ \A s \in Sessions : HostOf[s] \in Hosts
        /\ \A m \in Hosts : SoundHost(host[m], now) /\ Cause(host[m]) /\ Accounted(m, host[m], ask)
        /\ AskedFor(ask) /\ NoAsk \in AskType
    BY DEF GateInv, TypeOK, AccountInv, NoAsk, AskType
  <1>2. ASSUME NEW s \in Sessions, NEW dead, Leave(s, dead)
        PROVE  AccountInv'
    <2>1. Moved(HostOf[s], host[HostOf[s]], EvBrowserClosed(host[HostOf[s]], s))
          /\ SoundHost(EvBrowserClosed(host[HostOf[s]], s).host, now)
      BY <1>1, EvBrowserClosedMoves, EvBrowserClosedSound DEF SoundResult
    <2>2. \A n \in Hosts : n # HostOf[s] => Elsewhere(n, ask, ask)
      BY DEF Elsewhere
    <2> QED BY <1>1, <1>2, <2>1, <2>2, ApplyAccount DEF Leave
  <1>3. ASSUME NEW s \in Sessions, NEW dead, ShutdownDone(s, dead)
        PROVE  AccountInv'
    <2>1. Moved(HostOf[s], host[HostOf[s]], EvGone(host[HostOf[s]], s, now))
          /\ SoundHost(EvGone(host[HostOf[s]], s, now).host, now)
      BY <1>1, EvGoneMoves, EvGoneSound DEF SoundResult, SameHeld
    <2>2. \A n \in Hosts : n # HostOf[s] => Elsewhere(n, ask, ask)
      BY DEF Elsewhere
    <2> QED BY <1>1, <1>3, <2>1, <2>2, ApplyAccount DEF ShutdownDone
  <1>4. ASSUME NEW s \in Sessions, NEW asks \in [Requests -> AskType], AnsweredFor(s, asks),
               NEW res, SoundHost(res.host, now), NEW dead, Apply(HostOf[s], asks, res, dead),
               \/ Moved(HostOf[s], Emptied(host[HostOf[s]]), res)
               \/ /\ Moved(HostOf[s], host[HostOf[s]], res)
                  /\ Out(host[HostOf[s]]) =>
                       asks[host[HostOf[s]].slot.req] = ask[host[HostOf[s]].slot.req]
        PROVE  AccountInv'
    <2>1. host[HostOf[s]] \in HostType
      BY <1>1
    <2>2. /\ AskedFor(asks)
          /\ \A n \in Hosts : n # HostOf[s] => Elsewhere(n, ask, asks)
          /\ Accounted(HostOf[s], Emptied(host[HostOf[s]]), asks)
          /\ (Out(host[HostOf[s]]) => asks[host[HostOf[s]].slot.req] = ask[host[HostOf[s]].slot.req])
               => Accounted(HostOf[s], host[HostOf[s]], asks)
      BY <1>1, <1>4, <2>1, AnsweredAccounted
    <2> QED BY <1>1, <1>4, <2>2, ApplyAccount
  <1>5. \A s \in Sessions : AnsweredFor(s, Forget(s)) /\ Forget(s) \in [Requests -> AskType]
    BY <1>1 DEF AnsweredFor, Forget
  <1>6. \A s \in Sessions : SameHeld(Emptied(host[HostOf[s]]), host[HostOf[s]])
    BY <1>1 DEF SameHeld, Emptied, HostType
  <1>7. \A s \in Sessions : (Out(host[HostOf[s]]) /\ host[HostOf[s]].slot.session # s) =>
          Forget(s)[host[HostOf[s]].slot.req] = ask[host[HostOf[s]].slot.req]
    BY <1>1 DEF Accounted, Forget
  <1>8. ASSUME NEW s \in Sessions, NEW dead, SessionRemoved(s, dead)
        PROVE  AccountInv'
    <2> DEFINE h == host[HostOf[s]]
               res == EvGone(h, s, now)
    <2>1. SoundHost(res.host, now)
      BY <1>1, EvGoneSound DEF SoundResult
    <2>2. h.slot.session # s => Moved(HostOf[s], h, res)
      BY <1>1, EvGoneMoves
    <2>3. h.slot.session = s => Moved(HostOf[s], Emptied(h), res)
      BY <1>1, <1>6, EvGoneMoves
    <2> QED BY <1>4, <1>5, <1>7, <1>8, <2>1, <2>2, <2>3 DEF SessionRemoved
  <1>9. ASSUME NEW s \in Sessions, Rebound(s)
        PROVE  AccountInv'
    <2> DEFINE h == host[HostOf[s]]
               res == EvRebound(h, s, now)
    <2>1. SoundHost(res.host, now)
      BY <1>1, EvReboundSound DEF SoundResult
    <2>2. Moved(HostOf[s], h, res)
      BY <1>1, EvReboundMoves
    <2>3. Home(HostOf[s], s)
      BY DEF Home
    <2>4. h.slot.session = s => Moved(HostOf[s], Emptied(h), res)
      BY <1>1, <1>6, <2>3, EvReboundMoves
    <2> QED BY <1>4, <1>5, <1>7, <1>9, <2>1, <2>2, <2>4 DEF Rebound
  <1>10. ASSUME NEW s \in Sessions, NEW r \in Requests, NEW cold, NEW dead, Ready(s, r, cold, dead)
         PROVE  AccountInv'
    <2> DEFINE h == host[HostOf[s]]
               res == EvReady(h, s, cold, now)
               asks == [ask EXCEPT ![r] = NoAsk]
    <2>1. SoundHost(res.host, now)
      BY <1>1, EvReadySound DEF SoundResult
    <2>2. Moved(HostOf[s], h, res)
      BY <1>1, EvReadyMoves
    <2>3. h.slot.session = s => Moved(HostOf[s], Emptied(h), res)
      BY <1>1, <1>6, EvReadyMoves
    <2>4. asks \in [Requests -> AskType] /\ AnsweredFor(s, asks)
      BY <1>1, <1>10 DEF AnsweredFor, Ready, AtAgent
    <2>5. (Out(h) /\ h.slot.session # s) => asks[h.slot.req] = ask[h.slot.req]
      BY <1>1, <1>10 DEF Accounted, Ready, AtAgent
    <2> QED BY <1>4, <1>10, <2>1, <2>2, <2>3, <2>4, <2>5 DEF Ready
  <1>11. ASSUME NEW s \in Sessions, NEW r \in Requests \cup {None}, NEW dead, BootError(s, r, dead)
         PROVE  AccountInv'
    <2> DEFINE h == host[HostOf[s]]
               res == EvBootError(h, s, r, now)
               asks == IF r = None THEN ask ELSE [ask EXCEPT ![r] = NoAsk]
    <2>1. SoundHost(res.host, now)
      BY <1>1, EvBootErrorSound DEF SoundResult
    <2>2. Moved(HostOf[s], h, res)
      BY <1>1, EvBootErrorMoves
    <2>3. (h.slot.session = s /\ (r = None \/ r = h.slot.req)) => Moved(HostOf[s], Emptied(h), res)
      BY <1>1, <1>6, EvBootErrorMoves
    <2>4. asks \in [Requests -> AskType] /\ AnsweredFor(s, asks)
      BY <1>1, <1>11 DEF AnsweredFor, BootError, AtAgent
    <2>5. (Out(h) /\ ~(h.slot.session = s /\ (r = None \/ r = h.slot.req)))
            => asks[h.slot.req] = ask[h.slot.req]
      BY <1>1, <1>11 DEF Accounted, BootError, AtAgent
    <2> QED BY <1>4, <1>11, <2>1, <2>2, <2>3, <2>4, <2>5 DEF BootError
  <1>12. CASE Advance
    BY <1>1, <1>12, AccountAgain DEF Advance
  <1>13. CASE UNCHANGED vars
    BY <1>1, <1>13, AccountAgain DEF vars
  <1>14. ASSUME NEW dead, NEW s \in Sessions,
                Leave(s, dead) \/ ShutdownDone(s, dead) \/ SessionRemoved(s, dead)
         PROVE  AccountInv'
    BY <1>14, <1>2, <1>3, <1>8
  <1>15. ASSUME NEW dead, NEW s \in Sessions, NEW r \in Requests,
                \/ \E cost \in {"cold", "warm"}, class \in {"interactive", "automated"} :
                     Boot(s, r, cost, class, dead)
                \/ \E cold \in {"yes", "no", "unsaid"} : Ready(s, r, cold, dead)
         PROVE  AccountInv'
    BY <1>15, <1>10, BootAccount
  <1>16. CASE \E dead \in SUBSET HeldSessions, s \in Sessions :
                Leave(s, dead) \/ ShutdownDone(s, dead) \/ SessionRemoved(s, dead)
    BY <1>16, <1>14
  <1>17. CASE \E dead \in SUBSET HeldSessions, s \in Sessions, r \in Requests :
                \/ \E cost \in {"cold", "warm"}, class \in {"interactive", "automated"} :
                     Boot(s, r, cost, class, dead)
                \/ \E cold \in {"yes", "no", "unsaid"} : Ready(s, r, cold, dead)
    BY <1>17, <1>15
  <1>18. CASE \E dead \in SUBSET HeldSessions, s \in Sessions, r \in Requests \cup {None} :
                BootError(s, r, dead)
    BY <1>18, <1>11
  <1>19. CASE \E dead \in SUBSET HeldSessions, m \in Hosts, cpu \in Cpu, p \in Pressure :
                Resources(m, cpu, p, dead)
    BY <1>19, ResourcesAccount
  <1>20. CASE \E dead \in SUBSET HeldSessions : Tick(dead)
    BY <1>20, TickAccount
  <1>21. CASE \E s \in Sessions : Rebound(s)
    BY <1>21, <1>9
  <1> QED
    BY <1>12, <1>13, <1>16, <1>17, <1>18, <1>19, <1>20, <1>21 DEF Next

\* At the start nothing is held and nothing is out.
LEMMA AccountInit == Init => AccountInv
  <1> SUFFICES ASSUME Init PROVE AccountInv
    OBVIOUS
  <1>1. NewHost.slot = NoSlot /\ NewHost.reservation = NoHeld
    BY DEF NewHost
  <1>2. NoAsk.at = "nobody"
    BY DEF NoAsk
  <1> QED BY <1>1, <1>2, NoHeldEmpty, SlotParts
          DEF Init, AccountInv, AskedFor, Accounted, Homed, Home, Vacant, Out

\* Record and requests agree on every Mac in every reachable state.
THEOREM AccountHolds == Spec => []AccountInv
  <1> QED BY Invariance, AccountInit, AccountStep, PTL DEF Spec

-----------------------------------------------------------------------------
(* The theorems.                                                            *)

\* A boot is held by the gate exactly when a reservation names it, and a slot
\* that boots has its boot at the agent or an agent that restarted under it,
\* whichever refusal, failure, leave, restart or lost boot comes between.
THEOREM BootsAccountedFor == Spec => []BootsAreAccounted
  <1>1. GateInv /\ AccountInv => BootsAreAccounted
    <2> SUFFICES ASSUME GateInv, AccountInv PROVE HeldIsReserved /\ SlotHasBoot
      BY DEF BootsAreAccounted
    <2>1. ASSUME NEW r \in Requests, ask[r].at = "held"
          PROVE  \E m \in Hosts : host[m].reservation.req = r
                                  /\ host[m].reservation.session = ask[r].session
      <3> DEFINE m == HostOf[ask[r].session]
      <3>1. ask[r].session \in Sessions /\ m \in Hosts /\ Of(m, ask[r])
        BY <2>1 DEF AccountInv, AskedFor, Of
      <3>2. host[m].reservation.req = r
        BY <2>1, <3>1 DEF AccountInv, Accounted
      <3>3. host[m].reservation.session = ask[r].session
        BY <3>1, <3>2 DEF AccountInv, Accounted
      <3> QED BY <3>1, <3>2, <3>3
    <2>2. ASSUME NEW r \in Requests, NEW m \in Hosts, host[m].reservation.req = r
          PROVE  ask[r].at = "held"
      BY <2>2 DEF AccountInv, Accounted
    <2>3. HeldIsReserved
      BY <2>1, <2>2 DEF HeldIsReserved
    <2>4. SlotHasBoot
      BY DEF SlotHasBoot, AccountInv, Accounted, Out
    <2> QED BY <2>3, <2>4
  <1> QED BY <1>1, Invariance, AccountHolds, PTL

-----------------------------------------------------------------------------
(* What a step may do to the record of one Mac: two events in a row (the    *)
(* two halves of a report; for any other message the first is nothing), a   *)
(* boot, a tick, or nothing but time passing.                               *)

Event(h, k, t) ==
  \/ k = h
  \/ \E s \in Sessions : k = EvBrowserClosed(h, s).host \/ k = EvGone(h, s, t).host
  \/ \E s \in Sessions : \E cold : k = EvReady(h, s, cold, t).host
  \/ \E s \in Sessions : \E r : k = EvBootError(h, s, r, t).host
  \/ \E s \in Sessions : k = EvRebound(h, s, t).host
  \/ \E cpu \in Nat : k = EvSample(h, cpu, t).host
  \/ \E critical \in BOOLEAN : k = EvPressure(h, critical, t).host

\* A boot sent by k could not be forwarded, or none was lost.
Carried(k, g, t) == g = k \/ g = Release(k, t).host

Events(h, k, t) ==
  \E a, b, c : Event(h, a, t) /\ Carried(a, b, t) /\ Event(b, c, t) /\ Carried(c, k, t)

Booted(m) ==
  \E s \in Sessions, r \in Requests, cost \in {"cold", "warm"},
     class \in {"interactive", "automated"}, dead \in SUBSET HeldSessions :
    m = HostOf[s] /\ Boot(s, r, cost, class, dead)

Ticked == \E dead \in SUBSET HeldSessions : Tick(dead)

\* Carrying out a result releases the slot or leaves the record as it is.
LEMMA CarryIsCarried ==
  ASSUME NEW res, NEW dead, NEW t
  PROVE  Carried(res.host, Carry(res, dead, t).host, t)
  BY DEF Carried, Carry

\* One event, carried out, is two of which the first was nothing.
LEMMA OneEvent ==
  ASSUME NEW h, NEW c, NEW k, NEW t, Event(h, c, t), Carried(c, k, t)
  PROVE  Events(h, k, t)
  <1>1. Event(h, h, t) /\ Carried(h, h, t)
    BY DEF Event, Carried
  <1> QED BY <1>1 DEF Events

\* Applying an event to one Mac is that event there and nothing anywhere else.
LEMMA ApplyEvents ==
  ASSUME TypeOK, NEW n \in Hosts, NEW asks, NEW res, NEW dead, Apply(n, asks, res, dead),
         Event(host[n], res.host, now)
  PROVE  now' = now /\ \A m \in Hosts : Events(host[m], host'[m], now)
  <1> DEFINE out == Carry(res, dead, now)
  <1>1. now' = now /\ host' = [host EXCEPT ![n] = out.host]
    BY DEF Apply
  <1>2. Carried(res.host, out.host, now)
    BY CarryIsCarried
  <1> HIDE DEF out
  <1>3. Events(host[n], out.host, now)
    BY <1>2, OneEvent
  <1>4. \A m \in Hosts : Events(host[m], host[m], now)
    BY OneEvent DEF Event, Carried
  <1>5. host \in [Hosts -> HostType]
    BY DEF TypeOK
  <1> QED BY <1>1, <1>3, <1>4, <1>5

\* Each step is one of these for every Mac.
LEMMA HostSteps ==
  ASSUME TypeOK, [Next]_vars
  PROVE  \/ now' = now /\ \A m \in Hosts : Events(host[m], host'[m], now)
         \/ Ticked
         \/ /\ now' = now
            /\ \E n \in Hosts : Booted(n) /\ \A m \in Hosts : m # n => host'[m] = host[m]
         \/ host' = host /\ now' \in {now, now + 1}
  <1>1. host \in [Hosts -> HostType] /\ (\A s \in Sessions : HostOf[s] \in Hosts)
        /\ Cpu \subseteq Nat
    BY DEF TypeOK
  <1>2. ASSUME NEW s \in Sessions, NEW dead,
               Leave(s, dead) \/ ShutdownDone(s, dead) \/ SessionRemoved(s, dead)
        PROVE  now' = now /\ \A m \in Hosts : Events(host[m], host'[m], now)
    <2> DEFINE n == HostOf[s]
    <2>1. /\ Event(host[n], EvBrowserClosed(host[n], s).host, now)
          /\ Event(host[n], EvGone(host[n], s, now).host, now)
      BY DEF Event
    <2> QED BY <1>1, <1>2, <2>1, ApplyEvents DEF Leave, ShutdownDone, SessionRemoved
  <1>3. ASSUME NEW s \in Sessions, NEW r, NEW cold, NEW dead, Ready(s, r, cold, dead)
        PROVE  now' = now /\ \A m \in Hosts : Events(host[m], host'[m], now)
    <2>1. Event(host[HostOf[s]], EvReady(host[HostOf[s]], s, cold, now).host, now)
      BY DEF Event
    <2> QED BY <1>1, <1>3, <2>1, ApplyEvents DEF Ready
  <1>4. ASSUME NEW s \in Sessions, NEW r, NEW dead, BootError(s, r, dead)
        PROVE  now' = now /\ \A m \in Hosts : Events(host[m], host'[m], now)
    <2>1. Event(host[HostOf[s]], EvBootError(host[HostOf[s]], s, r, now).host, now)
      BY DEF Event
    <2> QED BY <1>1, <1>4, <2>1, ApplyEvents DEF BootError
  <1>5. ASSUME NEW s \in Sessions, Rebound(s)
        PROVE  now' = now /\ \A m \in Hosts : Events(host[m], host'[m], now)
    <2>1. Event(host[HostOf[s]], EvRebound(host[HostOf[s]], s, now).host, now)
      BY DEF Event
    <2> QED BY <1>1, <1>5, <2>1, ApplyEvents DEF Rebound
  <1>6. ASSUME NEW n \in Hosts, NEW cpu \in Cpu, NEW p, NEW dead, Resources(n, cpu, p, dead)
        PROVE  now' = now /\ \A m \in Hosts : Events(host[m], host'[m], now)
    <2> DEFINE a   == EvSample(host[n], cpu, now)
               b   == Carry(a, dead, now)
               c   == IF p = "none" THEN Quiet(b.host) ELSE EvPressure(b.host, p = "critical", now)
               out == Carry(c, dead, now)
    <2>1. Event(host[n], a.host, now)
      BY <1>1 DEF Event
    <2>2. Carried(a.host, b.host, now) /\ Carried(c.host, out.host, now)
      BY CarryIsCarried
    <2>3. now' = now /\ host' = [host EXCEPT ![n] = out.host]
      BY <1>6 DEF Resources, Apply
    <2> HIDE DEF a, b, out
    <2>4. Event(b.host, c.host, now)
      BY ResultParts DEF Event
    <2> HIDE DEF c
    <2>5. Events(host[n], out.host, now)
      BY <2>1, <2>2, <2>4 DEF Events
    <2>6. \A m \in Hosts : Events(host[m], host[m], now)
      BY OneEvent DEF Event, Carried
    <2> QED BY <1>1, <2>3, <2>5, <2>6
  <1>7. ASSUME NEW s \in Sessions, NEW r \in Requests, NEW cost \in {"cold", "warm"},
               NEW class \in {"interactive", "automated"}, NEW dead \in SUBSET HeldSessions,
               Boot(s, r, cost, class, dead)
        PROVE  now' = now
               /\ \E n \in Hosts : Booted(n) /\ \A m \in Hosts : m # n => host'[m] = host[m]
    <2>1. Booted(HostOf[s])
      BY <1>7 DEF Booted
    <2>2. now' = now /\ \E out : host' = [host EXCEPT ![HostOf[s]] = out]
      BY <1>7 DEF Boot, Apply
    <2> QED BY <1>1, <2>1, <2>2
  <1>8. CASE Advance
    BY <1>8 DEF Advance
  <1>9. CASE UNCHANGED vars
    BY <1>9 DEF vars
  <1>10. CASE \E dead \in SUBSET HeldSessions, s \in Sessions :
                Leave(s, dead) \/ ShutdownDone(s, dead) \/ SessionRemoved(s, dead)
    BY <1>2, <1>10
  <1>11. CASE \E dead \in SUBSET HeldSessions, s \in Sessions, r \in Requests :
                \/ \E cost \in {"cold", "warm"}, class \in {"interactive", "automated"} :
                     Boot(s, r, cost, class, dead)
                \/ \E cold \in {"yes", "no", "unsaid"} : Ready(s, r, cold, dead)
    BY <1>3, <1>7, <1>11
  <1>12. CASE \E dead \in SUBSET HeldSessions, s \in Sessions, r \in Requests \cup {None} :
                BootError(s, r, dead)
    BY <1>4, <1>12
  <1>13. CASE \E dead \in SUBSET HeldSessions, m \in Hosts, cpu \in Cpu, p \in Pressure :
                Resources(m, cpu, p, dead)
    BY <1>6, <1>13
  <1>14. CASE \E dead \in SUBSET HeldSessions : Tick(dead)
    BY <1>14 DEF Ticked
  <1>15. CASE \E s \in Sessions : Rebound(s)
    BY <1>5, <1>15
  <1> QED
    BY <1>8, <1>9, <1>10, <1>11, <1>12, <1>13, <1>14, <1>15 DEF Next

-----------------------------------------------------------------------------
(* What an event leaves of one Mac's record.                                *)

\* The slot q has had the readings p had.
SameReading(p, q) ==
  /\ q.session = p.session /\ q.phase = p.phase /\ q.readyAt = p.readyAt
  /\ q.samples = p.samples /\ q.droppedFirst = p.droppedFirst
  /\ q.lastSampleAt = p.lastSampleAt

\* It has just become ready.
Fresh(q, t) ==
  /\ q.phase = "settling" /\ q.readyAt = t
  /\ q.samples = <<>> /\ ~q.droppedFirst /\ q.lastSampleAt = None

\* It has had one more, no sooner than a gap after the last.
Sampled(p, q, t) ==
  /\ q.session = p.session /\ p.phase = "settling" /\ q.phase = "settling"
  /\ q.readyAt = p.readyAt /\ q.lastSampleAt = t /\ q.droppedFirst = TRUE
  /\ p.lastSampleAt = None \/ t - p.lastSampleAt >= MinSampleGapMs
  /\ q.samples \in Seq(Nat)
  /\ Len(q.samples) <= IF p.droppedFirst THEN Len(p.samples) + 1 ELSE Len(p.samples)

\* g is h but for its readings, and for the held boot it may have withdrawn.
Touched(h, g, t) ==
  /\ PressureStays(h, g) /\ g.agingWindowUntil = h.agingWindowUntil
  /\ SameReading(h.slot, g.slot) \/ Fresh(g.slot, t) \/ Sampled(h.slot, g.slot, t)
  /\ g.reservation = h.reservation \/ g.reservation = NoHeld

\* The last few readings are no more than there were.
LEMMA LastSamplesLen ==
  ASSUME NEW samples \in Seq(Nat)
  PROVE  Len(LastSamples(samples)) <= Len(samples)
  <1>1. SettleSamples \in Nat /\ Len(samples) \in Nat
    BY LenProperties
  <1>2. CASE Len(samples) <= SettleSamples
    BY <1>1, <1>2 DEF LastSamples
  <1>3. CASE ~(Len(samples) <= SettleSamples)
    <2> DEFINE first == Len(samples) - SettleSamples + 1
    <2>1. first \in Int /\ first >= 1
      BY <1>1, <1>3, SMTT(20)
    <2>2. LastSamples(samples) = SubSeq(samples, first, Len(samples))
      BY <1>3 DEF LastSamples
    <2>3. Len(SubSeq(samples, first, Len(samples))) =
            IF first <= Len(samples) THEN Len(samples) - first + 1 ELSE 0
      <3> HIDE DEF first
      <3>1. \A i \in first .. Len(samples) : samples[i] \in Nat
        BY <1>1, <2>1, ElementOfSeq, SMTT(20)
      <3> QED BY <1>1, <2>1, <3>1, SubSeqProperties
    <2> QED BY <1>1, <1>3, <2>1, <2>2, <2>3
  <1> QED BY <1>2, <1>3

\* What a CPU reading does to the record: nothing, a reading more, or with it the release.
LEMMA SampleCases ==
  ASSUME NEW h, NEW t \in Nat, SoundHost(h, t), NEW cpu \in Nat
  PROVE  \/ EvSample(h, cpu, t) = Quiet(h)
         \/ \E g : /\ SoundHost(g, t) /\ PressureStays(h, g) /\ g.reservation = h.reservation
                   /\ g.agingWindowUntil = h.agingWindowUntil
                   /\ Sampled(h.slot, g.slot, t)
                   /\ \/ EvSample(h, cpu, t) = Quiet(g)
                      \/ /\ EvSample(h, cpu, t) = Release(g, t)
                         /\ h.slot.droppedFirst /\ Len(g.slot.samples) >= SettleSamples
  <1> DEFINE p     == h.slot
             stale == p.lastSampleAt # None /\ t - p.lastSampleAt > FreshMs
             kept  == IF stale THEN <<>> ELSE p.samples
             taken == IF p.droppedFirst THEN LastSamples(Append(kept, cpu)) ELSE kept
             slot  == [p EXCEPT !.lastSampleAt = t, !.samples = taken, !.droppedFirst = TRUE]
             next  == [h EXCEPT !.slot = slot]
             skip  == \/ Free(h) \/ p.phase # "settling"
                      \/ p.lastSampleAt # None /\ t - p.lastSampleAt < MinSampleGapMs
  <1>1. CASE skip
    BY <1>1 DEF EvSample
  <1>2. CASE ~skip
    <2>1. /\ p \in SlotType /\ SlotShape(p) /\ InTimeSlot(p, t) /\ t \in Time /\ h \in HostType
          /\ p.samples \in Seq(Nat) /\ Len(p.samples) \in Nat
      BY LenProperties DEF SoundHost, TypedHost, InTimeHost, HostType, SlotType, Time
    <2>2. kept \in Seq(Nat) /\ Len(kept) \in Nat /\ Len(kept) <= Len(p.samples)
      BY <2>1, LenProperties, SMTT(20)
    <2>3. /\ taken \in Seq(Nat)
          /\ Len(taken) <= IF p.droppedFirst THEN Len(p.samples) + 1 ELSE Len(p.samples)
      <3> HIDE DEF kept
      <3>1. Append(kept, cpu) \in Seq(Nat) /\ Len(Append(kept, cpu)) = Len(kept) + 1
        BY <2>2, AppendProperties
      <3>2. /\ LastSamples(Append(kept, cpu)) \in Seq(Nat)
            /\ Len(LastSamples(Append(kept, cpu))) <= Len(kept) + 1
        BY <3>1, LastSamplesType, LastSamplesLen
      <3>3. Len(LastSamples(Append(kept, cpu))) \in Nat
        BY <3>2, LenProperties
      <3>4. CASE p.droppedFirst
        <4>1. taken = LastSamples(Append(kept, cpu))
          BY <3>4
        <4> HIDE DEF taken, p
        <4> QED BY <2>1, <2>2, <3>2, <3>3, <3>4, <4>1, SMTT(20)
      <3>5. CASE ~p.droppedFirst
        BY <2>2, <3>5
      <3> QED BY <3>4, <3>5
    <2>4. \/ EvSample(h, cpu, t) = Quiet(next)
          \/ EvSample(h, cpu, t) = Release(next, t) /\ p.droppedFirst /\ IsSettled(taken)
      BY <1>2 DEF EvSample
    <2>5. IsSettled(taken) => Len(taken) >= SettleSamples
      BY DEF IsSettled
    <2>6. p.phase = "settling" /\ (p.lastSampleAt = None \/ t - p.lastSampleAt >= MinSampleGapMs)
      <3>1. p.lastSampleAt \in Time
        BY <2>1 DEF SlotType
      <3> QED BY <1>2, <3>1 DEF Time
    <2> HIDE DEF taken, p
    <2>7. /\ slot \in SlotType /\ slot.session = p.session /\ slot.phase = p.phase
          /\ slot.since = p.since /\ slot.readyAt = p.readyAt /\ slot.reboundAt = p.reboundAt
          /\ slot.lastSampleAt = t /\ slot.samples = taken /\ slot.droppedFirst = TRUE
      BY <2>1, <2>3 DEF SlotType
    <2> HIDE DEF slot
    <2>8. SlotShape(slot) /\ InTimeSlot(slot, t)
      BY <2>1, <2>7 DEF SlotShape, InTimeSlot
    <2>9. /\ SoundHost(next, t) /\ next.slot = slot /\ PressureStays(h, next)
          /\ next.reservation = h.reservation /\ next.agingWindowUntil = h.agingWindowUntil
      BY <2>1, <2>7, <2>8, SlotReplaced DEF HostType, PressureStays
    <2> HIDE DEF next
    <2>10. Sampled(p, slot, t)
      BY <2>3, <2>6, <2>7 DEF Sampled
    <2> QED BY <2>4, <2>5, <2>7, <2>9, <2>10 DEF p
  <1> QED BY <1>1, <1>2

\* An event touches the record, releases the slot after touching it, or is a
\* pressure reading.
LEMMA EventCases ==
  ASSUME NEW h, NEW t \in Nat, SoundHost(h, t), NEW k, Event(h, k, t)
  PROVE  \/ \E critical \in BOOLEAN : k = EvPressure(h, critical, t).host
         \/ \E g : SoundHost(g, t) /\ Touched(h, g, t) /\ (k = g \/ k = Release(g, t).host)
  <1> DEFINE Goal == \E g : SoundHost(g, t) /\ Touched(h, g, t) /\ (k = g \/ k = Release(g, t).host)
             v == Vacate(h)
  <1>1. h \in HostType /\ h.slot \in SlotType /\ t \in Time
    BY DEF SoundHost, TypedHost, HostType, Time
  <1>2. Touched(h, h, t)
    BY DEF Touched, PressureStays, SameReading
  <1>3. SoundHost(v, t) /\ Touched(h, v, t) /\ v.slot = h.slot
    <2>1. SoundHost(v, t) /\ v = [h EXCEPT !.reservation = NoHeld]
      BY VacateSound
    <2>2. v.slot = h.slot /\ v.reservation = NoHeld /\ v.agingWindowUntil = h.agingWindowUntil
          /\ PressureStays(h, v)
      BY <1>1, <2>1 DEF HostType, PressureStays
    <2> QED BY <2>1, <2>2 DEF Touched, SameReading
  <1>4. CASE k = h
    BY <1>2, <1>4
  <1>5. ASSUME NEW s \in Sessions, k = EvBrowserClosed(h, s).host PROVE Goal
    <2>1. k \in {v, h}
      BY <1>5, ResultParts DEF EvBrowserClosed
    <2> QED BY <1>2, <1>3, <2>1
  <1>6. ASSUME NEW s \in Sessions, k = EvGone(h, s, t).host PROVE Goal
    <2> DEFINE o == EvBrowserClosed(h, s)
    <2>1. o.host \in {v, h}
      BY ResultParts DEF EvBrowserClosed
    <2> HIDE DEF v, o
    <2>2. k = o.host \/ k = Release(o.host, t).host
      <3>1. \A x \in {o.host} : [Release(x, t) EXCEPT !.ended = o.ended].host = Release(x, t).host
        BY DEF Release, DispatchReservation, Quiet, Deliver
      <3> QED BY <1>6, <3>1 DEF EvGone, o
    <2> QED BY <1>2, <1>3, <2>1, <2>2
  <1>7. ASSUME NEW s \in Sessions, NEW cold, k = EvReady(h, s, cold, t).host PROVE Goal
    <2> DEFINE slot == [h.slot EXCEPT !.phase = "settling", !.readyAt = t, !.samples = <<>>,
                                      !.droppedFirst = FALSE, !.lastSampleAt = None]
               new  == NewSlot(s, None, "settling", t, t)
               g    == [h EXCEPT !.slot = slot]
               n    == [h EXCEPT !.slot = new]
    <2>1. CASE h.slot.session = s
      <3>1. k = Release(h, t).host \/ k = g
        BY <1>7, <2>1, ResultParts DEF EvReady
      <3>2. None \in Time /\ <<>> \in Seq(Nat)
        BY DEF Time
      <3>7. slot \in SlotType
        BY <1>1, <3>2 DEF SlotType
      <3>8. Fresh(slot, t) /\ slot.session = s
        BY <1>1, <2>1 DEF SlotType, Fresh
      <3> HIDE DEF slot
      <3>3. SlotShape(slot) /\ InTimeSlot(slot, t)
        <4>1. slot.session = s /\ slot.phase = "settling" /\ slot.readyAt = t
          BY <3>8 DEF Fresh
        <4> QED BY <4>1 DEF SlotShape, InTimeSlot, InTime
      <3>4. SoundHost(g, t) /\ g.slot = slot
        BY <3>7, <3>3, SlotReplaced
      <3>5. PressureStays(h, g) /\ g.reservation = h.reservation
            /\ g.agingWindowUntil = h.agingWindowUntil
        BY <1>1 DEF HostType, PressureStays
      <3> HIDE DEF g
      <3>6. Touched(h, g, t)
        BY <3>8, <3>4, <3>5 DEF Touched
      <3> QED BY <1>2, <3>1, <3>4, <3>6
    <2>2. CASE h.slot.session # s
      <3>1. k \in {h, n}
        BY <1>7, <2>2, ResultParts DEF EvReady
      <3>2. new \in SlotType /\ SlotShape(new) /\ InTimeSlot(new, t) /\ Fresh(new, t)
        BY NewSlotSound, SlotParts DEF Fresh
      <3> HIDE DEF new
      <3>3. SoundHost(n, t) /\ n.slot = new
        BY <3>2, SlotReplaced
      <3>4. PressureStays(h, n) /\ n.reservation = h.reservation
            /\ n.agingWindowUntil = h.agingWindowUntil
        BY <1>1 DEF HostType, PressureStays
      <3> HIDE DEF n
      <3>5. Touched(h, n, t)
        BY <3>2, <3>3, <3>4 DEF Touched
      <3> QED BY <1>2, <3>1, <3>3, <3>5
    <2> QED BY <2>1, <2>2
  <1>8. ASSUME NEW s \in Sessions, NEW r, k = EvBootError(h, s, r, t).host PROVE Goal
    <2>1. k = h \/ k = Release(h, t).host
      BY <1>8, ResultParts DEF EvBootError
    <2> QED BY <1>2, <2>1
  <1>9. ASSUME NEW s \in Sessions, k = EvRebound(h, s, t).host PROVE Goal
    <2> DEFINE slot == [h.slot EXCEPT !.reboundAt = t]
               g    == [h EXCEPT !.slot = slot]
    <2>1. k \in {h, g}
      BY <1>1, <1>9, ResultParts DEF EvRebound, HostType, SlotType
    <2>2. /\ slot \in SlotType /\ SameReading(h.slot, slot)
          /\ slot.since = h.slot.since /\ slot.reboundAt = t
      BY <1>1 DEF SlotType, SameReading
    <2> HIDE DEF slot
    <2>3. SlotShape(slot) /\ InTimeSlot(slot, t)
      BY <2>2 DEF SlotShape, InTimeSlot, InTime, SoundHost, TypedHost, InTimeHost, SameReading
    <2>4. SoundHost(g, t) /\ g.slot = slot
      BY <2>2, <2>3, SlotReplaced
    <2>5. PressureStays(h, g) /\ g.reservation = h.reservation
          /\ g.agingWindowUntil = h.agingWindowUntil
      BY <1>1 DEF HostType, PressureStays
    <2> HIDE DEF g
    <2>6. Touched(h, g, t)
      BY <2>2, <2>4, <2>5 DEF Touched
    <2> QED BY <1>2, <2>1, <2>4, <2>6
  <1>10. ASSUME NEW cpu \in Nat, k = EvSample(h, cpu, t).host PROVE Goal
    <2>1. CASE EvSample(h, cpu, t) = Quiet(h)
      <3>1. k = h
        BY <1>10, <2>1, ResultParts
      <3> QED BY <1>2, <3>1
    <2>2. CASE EvSample(h, cpu, t) # Quiet(h)
      <3>1. PICK g : /\ SoundHost(g, t) /\ PressureStays(h, g) /\ g.reservation = h.reservation
                     /\ g.agingWindowUntil = h.agingWindowUntil /\ Sampled(h.slot, g.slot, t)
                     /\ EvSample(h, cpu, t) \in {Quiet(g), Release(g, t)}
        BY <2>2, SampleCases
      <3>2. Touched(h, g, t)
        BY <3>1 DEF Touched
      <3> QED BY <1>10, <3>1, <3>2, ResultParts
    <2> QED BY <2>1, <2>2
  <1> HIDE DEF Goal
  <1> QED BY <1>4, <1>5, <1>6, <1>7, <1>8, <1>9, <1>10 DEF Event, Goal

-----------------------------------------------------------------------------
(* A held person knows the reason.                                          *)

\* The reservation and the pressure are as they were, or nobody waits.
LEMMA ToldStays ==
  ASSUME NEW h, NEW k, NEW t, Told(h, t), PressureStays(h, k),
         k.reservation = h.reservation \/ k.reservation = NoHeld
  PROVE  Told(k, t)
  BY NoHeldEmpty DEF Told, PressureStays, Vacant, IsCritical

\* Whoever is told the reason now is told the one that holds.
LEMMA ToldAfresh ==
  ASSUME NEW k, NEW t, ~Vacant(k) => k.reservation.reason = WaitReason(k, t)
  PROVE  Told(k, t)
  BY DEF Told, WaitReason, IsCritical

\* A release empties the reservation or leaves what it was told alone.
LEMMA ReleaseTold ==
  ASSUME NEW h, NEW t \in Nat, SoundHost(h, t), Told(h, t)
  PROVE  Told(Release(h, t).host, t)
  <1> DEFINE d == Release(h, t)
  <1>1. PressureStays(h, d.host)
        /\ (d.host.reservation = h.reservation \/ d.host.reservation = NoHeld)
    BY ReleaseCases DEF Dispatched
  <1> HIDE DEF d
  <1>2. Told(d.host, t)
    BY <1>1, ToldStays
  <1> QED BY <1>2 DEF d

\* The end of a pressure reading tells whoever still waits.
LEMMA CriticalEndedTold ==
  ASSUME NEW h, NEW t \in Nat, SoundHost(h, t)
  PROVE  Told(CriticalEnded(h, t).host, t)
  <1>1. PICK k : LET d == DispatchReservation(k, t) IN
           /\ SoundHost(k, t)
           /\ CriticalEnded(h, t) = [host |-> RefreshWaiting(d.host, t), sent |-> d.sent, ended |-> {}]
    BY CriticalEndedCases
  <1> DEFINE g == DispatchReservation(k, t).host
             w == RefreshWaiting(g, t)
  <1>2. SoundHost(g, t)
    BY <1>1, DispatchSound DEF SoundResult
  <1>3. CriticalEnded(h, t).host = w
    BY <1>1
  <1> HIDE DEF g
  <1>4. HeldStays(g, w) /\ PressureStays(g, w) /\ (~Vacant(g) => w.reservation.reason = WaitReason(g, t))
    BY <1>2, RefreshFrame
  <1> HIDE DEF w
  <1>5. ~Vacant(w) => w.reservation.reason = WaitReason(w, t)
    BY <1>4 DEF HeldStays, PressureStays, Vacant, WaitReason, IsCritical
  <1> QED BY <1>3, <1>5, ToldAfresh

\* A reading that begins a pressure tells whoever waits; one that renews it need not.
LEMMA PressureTold ==
  ASSUME NEW h, NEW t \in Nat, SoundHost(h, t), Told(h, t), NEW critical \in BOOLEAN
  PROVE  Told(EvPressure(h, critical, t).host, t)
  <1> DEFINE left == IF ~WindowOpen(h) THEN h.windowLeft
                     ELSE IF h.agingWindowUntil > t THEN h.agingWindowUntil - t ELSE 0
             up   == [h EXCEPT !.criticalUntil = t + FreshMs]
             k    == [up EXCEPT !.windowLeft = left]
             w    == RefreshWaiting(k, t)
  <1>1. h \in HostType /\ t + FreshMs # None /\ t + FreshMs \in Time
    BY DEF SoundHost, TypedHost, Time
  <1>2. CASE critical /\ IsCritical(h, t)
    <2>1. EvPressure(h, critical, t).host = up
      BY <1>2, ResultParts DEF EvPressure
    <2>2. up.reservation = h.reservation /\ up.criticalUntil # None
      BY <1>1 DEF HostType
    <2> HIDE DEF up
    <2>3. Told(up, t)
      BY <1>2, <2>2 DEF Told, Vacant
    <2> QED BY <2>1, <2>3
  <1>3. CASE critical /\ ~IsCritical(h, t)
    <2>1. EvPressure(h, critical, t).host = w
      BY <1>3, ResultParts DEF EvPressure
    <2>2. left \in Time
      BY <1>1 DEF Time, WindowOpen, HostType
    <2> HIDE DEF left
    <2>3. k \in HostType
      BY <1>1, <2>2 DEF HostType
    <2> HIDE DEF k
    <2>4. /\ ~Vacant(k) => w.reservation.reason = WaitReason(k, t)
          /\ w.reservation.session = k.reservation.session /\ w.criticalUntil = k.criticalUntil
      BY <2>3 DEF RefreshWaiting, HostType, HeldType
    <2> HIDE DEF w
    <2>5. ~Vacant(w) => w.reservation.reason = WaitReason(w, t)
      BY <2>4 DEF Vacant, WaitReason, IsCritical
    <2> QED BY <2>1, <2>5, ToldAfresh
  <1>4. CASE ~critical
    <2>1. EvPressure(h, critical, t) = Quiet(h) \/ EvPressure(h, critical, t) = CriticalEnded(h, t)
      BY <1>4 DEF EvPressure
    <2>2. Told(Quiet(h).host, t) /\ Told(CriticalEnded(h, t).host, t)
      BY ResultParts, CriticalEndedTold
    <2> QED BY <2>1, <2>2
  <1> QED BY <1>2, <1>3, <1>4

\* No event leaves a person with a reason that holds no more.
LEMMA EventTold ==
  ASSUME NEW h, NEW t \in Nat, SoundHost(h, t), Told(h, t), NEW k, Event(h, k, t)
  PROVE  Told(k, t)
  <1>1. CASE \E critical \in BOOLEAN : k = EvPressure(h, critical, t).host
    BY <1>1, PressureTold
  <1>2. CASE \E g : SoundHost(g, t) /\ Touched(h, g, t) /\ (k = g \/ k = Release(g, t).host)
    <2>1. PICK g : SoundHost(g, t) /\ Touched(h, g, t) /\ (k = g \/ k = Release(g, t).host)
      BY <1>2
    <2>2. Told(g, t)
      BY <2>1, ToldStays DEF Touched
    <2> QED BY <2>1, <2>2, ReleaseTold
  <1> QED BY <1>1, <1>2, EventCases

\* An event leaves the record sound, and so does the release that may follow it.
LEMMA EventSound ==
  ASSUME NEW h, NEW t \in Nat, SoundHost(h, t), Cause(h), NEW k, Event(h, k, t)
  PROVE  SoundHost(k, t) /\ Cause(k)
  <1>1. ASSUME NEW s \in Sessions, k = EvBrowserClosed(h, s).host \/ k = EvGone(h, s, t).host
        PROVE  SoundHost(k, t) /\ Cause(k)
    BY <1>1, EvBrowserClosedSound, EvGoneSound DEF SoundResult
  <1>2. ASSUME NEW s \in Sessions, NEW cold, k = EvReady(h, s, cold, t).host
        PROVE  SoundHost(k, t) /\ Cause(k)
    BY <1>2, EvReadySound DEF SoundResult
  <1>3. ASSUME NEW s \in Sessions, NEW r, k = EvBootError(h, s, r, t).host
        PROVE  SoundHost(k, t) /\ Cause(k)
    BY <1>3, EvBootErrorSound DEF SoundResult
  <1>4. ASSUME NEW s \in Sessions, k = EvRebound(h, s, t).host
        PROVE  SoundHost(k, t) /\ Cause(k)
    BY <1>4, EvReboundSound DEF SoundResult
  <1>5. ASSUME NEW cpu \in Nat, k = EvSample(h, cpu, t).host
        PROVE  SoundHost(k, t) /\ Cause(k)
    BY <1>5, EvSampleSound DEF SoundResult
  <1>6. ASSUME NEW critical \in BOOLEAN, k = EvPressure(h, critical, t).host
        PROVE  SoundHost(k, t) /\ Cause(k)
    BY <1>6, EvPressureSound DEF SoundResult
  <1> QED BY <1>1, <1>2, <1>3, <1>4, <1>5, <1>6 DEF Event

LEMMA CarriedSound ==
  ASSUME NEW k, NEW t \in Nat, SoundHost(k, t), Cause(k), NEW g, Carried(k, g, t)
  PROVE  SoundHost(g, t) /\ Cause(g)
  BY ReleaseSound DEF Carried, SoundResult

LEMMA CarriedTold ==
  ASSUME NEW k, NEW t \in Nat, SoundHost(k, t), Told(k, t), NEW g, Carried(k, g, t)
  PROVE  Told(g, t)
  BY ReleaseTold DEF Carried

LEMMA EventsTold ==
  ASSUME NEW h, NEW t \in Nat, SoundHost(h, t), Cause(h), Told(h, t), NEW k, Events(h, k, t)
  PROVE  Told(k, t)
  <1>1. PICK a, b, c : Event(h, a, t) /\ Carried(a, b, t) /\ Event(b, c, t) /\ Carried(c, k, t)
    BY DEF Events
  <1>2. SoundHost(a, t) /\ Cause(a) /\ Told(a, t)
    BY <1>1, EventSound, EventTold
  <1>3. SoundHost(b, t) /\ Cause(b) /\ Told(b, t)
    BY <1>1, <1>2, CarriedSound, CarriedTold
  <1>4. SoundHost(c, t) /\ Told(c, t)
    BY <1>1, <1>3, EventSound, EventTold
  <1> QED BY <1>1, <1>4, CarriedTold

\* What a boot leaves of one Mac's record: the pressure as it was, and a
\* reservation that is as it was, empty, or newly told.
LEMMA AdmitHeldParts ==
  ASSUME NEW h, NEW t \in Nat, SoundHost(h, t), NEW s, NEW r, NEW cost, NEW class,
         NEW k, k = Admit(h, s, r, cost, class, t).host
  PROVE  /\ PressureStays(h, k)
         /\ \/ k.reservation = h.reservation
            \/ k.reservation = NoHeld
            \/ k.reservation.reason = WaitReason(h, t)
  <1>1. h \in HostType /\ PressureStays(h, h)
    BY DEF SoundHost, TypedHost, PressureStays
  <1>2. CASE h.reservation.session = s
    <2> DEFINE v == Vacate(h)
               w == Hold(h, h.reservation.session, r, h.reservation.since, t)
    <2>1. k \in {v, w}
      BY <1>2, ResultParts DEF Admit, AdmitHeldAgain
    <2>2. v.reservation = NoHeld /\ PressureStays(h, v)
      BY <1>1, NoHeldTyped DEF Vacate, HostType, PressureStays
    <2>3. w.reservation.reason = WaitReason(h, t) /\ PressureStays(h, w)
      BY <1>1, HoldFrame
    <2> HIDE DEF v, w
    <2> QED BY <2>1, <2>2, <2>3
  <1>3. CASE h.reservation.session # s /\ h.slot.session = s
    <2>1. k = [h EXCEPT !.slot = [@ EXCEPT !.req = r, !.phase = "booting", !.since = t,
                              !.readyAt = None, !.samples = <<>>,
                              !.droppedFirst = FALSE, !.reboundAt = None]]
      BY <1>3, ResultParts DEF Admit, AdmitSlotAgain
    <2>2. \A slot : /\ [h EXCEPT !.slot = slot].reservation = h.reservation
                    /\ PressureStays(h, [h EXCEPT !.slot = slot])
      BY <1>1 DEF HostType, PressureStays
    <2> QED BY <2>1, <2>2
  <1>4. CASE h.reservation.session # s /\ h.slot.session # s /\ cost = "warm"
    BY <1>1, <1>4, ResultParts DEF Admit
  <1>5. CASE h.reservation.session # s /\ h.slot.session # s /\ cost # "warm" /\ class = "automated"
    <2>1. k = AdmitAutomated(h, s, r, t).host
      BY <1>5 DEF Admit
    <2> QED BY <2>1, AdmitAutomatedCases
  <1>6. CASE h.reservation.session # s /\ h.slot.session # s /\ cost # "warm" /\ class # "automated"
    <2> DEFINE d == AdmitPerson(h, s, r, t)
    <2>1. k = d.host
      BY <1>6 DEF Admit
    <2>2. PressureStays(h, d.host)
      BY AdmitPersonCases
    <2>3. d.host.reservation = h.reservation \/ d.host.reservation = Hold(h, s, r, t, t).reservation
      BY AdmitPersonCases
    <2>4. Hold(h, s, r, t, t).reservation.reason = WaitReason(h, t)
      BY <1>1, HoldFrame
    <2> HIDE DEF d
    <2> QED BY <2>1, <2>2, <2>3, <2>4
  <1> QED BY <1>2, <1>3, <1>4, <1>5, <1>6

\* A boot leaves nobody with a reason that holds no more.
LEMMA AdmitTold ==
  ASSUME NEW h, NEW t \in Nat, SoundHost(h, t), Told(h, t), NEW s, NEW r, NEW cost, NEW class,
         NEW k, k = Admit(h, s, r, cost, class, t).host
  PROVE  Told(k, t)
  <1>1. /\ PressureStays(h, k)
        /\ \/ k.reservation = h.reservation \/ k.reservation = NoHeld
           \/ k.reservation.reason = WaitReason(h, t)
    BY AdmitHeldParts
  <1>2. CASE k.reservation = h.reservation \/ k.reservation = NoHeld
    BY <1>1, <1>2, ToldStays
  <1>3. CASE k.reservation.reason = WaitReason(h, t)
    <2>1. k.reservation.reason = WaitReason(k, t)
      BY <1>1, <1>3 DEF WaitReason, IsCritical, PressureStays
    <2> QED BY <2>1, ToldAfresh
  <1> QED BY <1>1, <1>2, <1>3

-----------------------------------------------------------------------------
(* What a tick leaves of one Mac's record.                                  *)

\* Its four stages, each from the record the one before it left.
Stages(h, t, a, b, c, d) ==
  /\ a = TickPressure(h, t) /\ b = TickSlot(a.host, t)
  /\ c = TickWindow(b.host, t) /\ d = TickHeld(c.host, t)

\* The end of the window may dispatch.
LEMMA TickWindowCases ==
  ASSUME NEW h, NEW t \in Nat, SoundHost(h, t), NEW c, c = TickWindow(h, t)
  PROVE  /\ SoundHost(c.host, t) /\ PressureStays(h, c.host)
         /\ \/ c = Quiet(h) /\ ~(WindowOpen(h) /\ t >= h.agingWindowUntil /\ ~IsCritical(h, t))
            \/ /\ WindowOpen(h) /\ t >= h.agingWindowUntil /\ ~IsCritical(h, t)
               /\ c.host.agingWindowUntil = None
               /\ \/ c.host.slot = h.slot /\ c.host.reservation = h.reservation
                  \/ /\ c.host.reservation = NoHeld
                     /\ c.host.slot = NewSlot(h.reservation.session, h.reservation.req,
                                              "booting", t, None)
  <1> DEFINE w == [h EXCEPT !.agingWindowUntil = None]
             z == [w EXCEPT !.humanStreak = 0]
  <1>1. CASE ~(WindowOpen(h) /\ t >= h.agingWindowUntil /\ ~IsCritical(h, t))
    BY <1>1, ResultParts DEF TickWindow, PressureStays
  <1>2. CASE WindowOpen(h) /\ t >= h.agingWindowUntil /\ ~IsCritical(h, t)
    <2>1. SoundHost(w, t) /\ w.slot = h.slot /\ w.reservation = h.reservation
          /\ w.agingWindowUntil = None /\ PressureStays(h, w)
      BY WindowSound DEF Time, SoundHost, TypedHost, HostType, PressureStays
    <2>2. [h EXCEPT !.agingWindowUntil = None, !.humanStreak = 0] = z
      OBVIOUS
    <2> HIDE DEF w
    <2>3. SoundHost(z, t) /\ z.slot = h.slot /\ z.reservation = h.reservation
          /\ z.agingWindowUntil = None /\ PressureStays(h, z)
      BY <2>1 DEF SoundHost, TypedHost, InTimeHost, HostType, Vacant, PressureStays
    <2>4. c = DispatchReservation(z, t)
      BY <1>2, <2>2 DEF TickWindow
    <2> HIDE DEF z
    <2>5. SoundHost(c.host, t) /\ PressureStays(z, c.host)
          /\ (c = Quiet(z) \/ Dispatched(z, c, t))
      BY <2>3, <2>4, DispatchSound, DispatchCases DEF SoundResult
    <2>6. PressureStays(h, c.host)
      BY <2>3, <2>5 DEF PressureStays
    <2>7. CASE c = Quiet(z)
      <3>1. c.host = z
        BY <2>7, ResultParts
      <3> QED BY <1>2, <2>3, <2>6, <3>1
    <2>8. CASE Dispatched(z, c, t)
      BY <1>2, <2>3, <2>5, <2>6, <2>8 DEF Dispatched
    <2> QED BY <2>5, <2>7, <2>8
  <1> QED BY <1>1, <1>2

\* A person who has waited long enough goes, with the slot where it is free.
LEMMA TickHeldCases ==
  ASSUME NEW h, NEW t \in Nat, SoundHost(h, t), NEW d, d = TickHeld(h, t)
  PROVE  /\ PressureStays(h, d.host) /\ d.host.agingWindowUntil = h.agingWindowUntil
         /\ \/ d = Quiet(h) /\ ~(~Vacant(h) /\ t >= h.reservation.since + HumanWaitMs)
            \/ /\ ~Vacant(h) /\ d.host.reservation = NoHeld /\ d.sent = {h.reservation.req}
               /\ \/ d.host.slot = h.slot
                  \/ /\ ~WindowOpen(h) \/ IsCritical(h, t)
                     /\ d.host.slot = NewSlot(h.reservation.session, h.reservation.req,
                                              "booting", t, None)
  <1> DEFINE v == Vacate(h)
  <1>1. CASE ~Vacant(h) /\ t >= h.reservation.since + HumanWaitMs
    <2>1. d = DeliverAnyway(v, h.reservation.session, h.reservation.req, t)
      BY <1>1 DEF TickHeld
    <2>2. v \in HostType /\ v.slot = h.slot /\ v.reservation = NoHeld
          /\ v.agingWindowUntil = h.agingWindowUntil /\ PressureStays(h, v)
      BY NoHeldTyped DEF Vacate, SoundHost, TypedHost, HostType, PressureStays
    <2> HIDE DEF v
    <2>3. /\ d.sent = {h.reservation.req} /\ d.host.reservation = v.reservation
          /\ PressureStays(v, d.host) /\ d.host.agingWindowUntil = v.agingWindowUntil
          /\ \/ d.host.slot = v.slot
             \/ /\ d.host.slot = NewSlot(h.reservation.session, h.reservation.req, "booting", t, None)
                /\ ~WindowOpen(v) \/ IsCritical(v, t)
      BY <2>1, <2>2, DeliverAnywayCases
    <2>4. (WindowOpen(v) <=> WindowOpen(h)) /\ (IsCritical(v, t) <=> IsCritical(h, t))
      BY <2>2 DEF WindowOpen, IsCritical, PressureStays
    <2> QED BY <1>1, <2>2, <2>3, <2>4 DEF PressureStays
  <1>2. CASE ~(~Vacant(h) /\ t >= h.reservation.since + HumanWaitMs)
    BY <1>2, ResultParts DEF TickHeld, PressureStays
  <1> QED BY <1>1, <1>2

\* Each stage of a tick hands on a sound record.
LEMMA StagesSound ==
  ASSUME NEW h, NEW t \in Nat, SoundHost(h, t), Cause(h),
         NEW a, NEW b, NEW c, NEW d, Stages(h, t, a, b, c, d)
  PROVE  SoundHost(a.host, t) /\ SoundHost(b.host, t) /\ SoundHost(c.host, t) /\ SoundHost(d.host, t)
  <1>1. SoundHost(a.host, t)
    BY CriticalEndedSound, ResultParts DEF Stages, TickPressure, SoundResult
  <1>2. SoundHost(b.host, t)
    BY <1>1, ReleaseSound, ResultParts DEF Stages, TickSlot, SoundResult
  <1>3. SoundHost(c.host, t)
    BY <1>2, TickWindowCases DEF Stages
  <1>4. TickHost(h, t).host = d.host
    BY DEF Stages, TickHost
  <1>5. SoundHost(TickHost(h, t).host, t)
    BY TickSound DEF SoundResult
  <1> QED BY <1>1, <1>2, <1>3, <1>4, <1>5

\* A tick does nothing but its stages.
LEMMA TickIsStages ==
  ASSUME NEW h, NEW t
  PROVE  \E a, b, c, d : /\ Stages(h, t, a, b, c, d) /\ TickHost(h, t).host = d.host
                         /\ TickHost(h, t).sent = a.sent \cup b.sent \cup c.sent \cup d.sent
  BY DEF Stages, TickHost

LEMMA TickTold ==
  ASSUME NEW h, NEW t \in Nat, SoundHost(h, t), Cause(h), Told(h, t)
  PROVE  Told(TickHost(h, t).host, t)
  <1>1. PICK a, b, c, d : Stages(h, t, a, b, c, d) /\ TickHost(h, t).host = d.host
    BY TickIsStages
  <1>2. SoundHost(a.host, t) /\ SoundHost(b.host, t) /\ SoundHost(c.host, t)
    BY <1>1, StagesSound
  <1>3. Told(a.host, t)
    BY <1>1, CriticalEndedTold, ResultParts DEF Stages, TickPressure
  <1>4. Told(b.host, t)
    BY <1>1, <1>2, <1>3, ReleaseTold, ResultParts DEF Stages, TickSlot
  <1>5. Told(c.host, t)
    <2>1. c = TickWindow(b.host, t)
      BY <1>1 DEF Stages
    <2>2. c = Quiet(b.host) => c.host = b.host
      BY ResultParts
    <2>3. PressureStays(b.host, c.host)
          /\ (c.host.reservation = b.host.reservation \/ c.host.reservation = NoHeld)
      BY <1>2, <2>1, <2>2, TickWindowCases
    <2> QED BY <1>4, <2>3, ToldStays
  <1>6. Told(d.host, t)
    <2>1. d = TickHeld(c.host, t)
      BY <1>1 DEF Stages
    <2>2. d = Quiet(c.host) => d.host = c.host
      BY ResultParts
    <2>3. PressureStays(c.host, d.host)
          /\ (d.host.reservation = c.host.reservation \/ d.host.reservation = NoHeld)
      BY <1>2, <2>1, <2>2, TickHeldCases
    <2> QED BY <1>5, <2>3, ToldStays
  <1> QED BY <1>1, <1>6

\* A tick of every Mac, carried out on each.
LEMMA TickedHosts ==
  ASSUME NEW dead, Tick(dead), NEW m \in Hosts
  PROVE  /\ now' = now
         /\ Carried(TickHost(host[m], now).host, host'[m], now)
         /\ host'[m] = Carry(TickHost(host[m], now), dead, now).host
  <1>1. now' = now /\ host'[m] = Carry(TickHost(host[m], now), dead, now).host
    BY DEF Tick
  <1> QED BY <1>1, CarryIsCarried

\* A boot, carried out on its Mac.
LEMMA BootedHost ==
  ASSUME TypeOK, NEW s \in Sessions, NEW r \in Requests, NEW cost, NEW class, NEW dead,
         Boot(s, r, cost, class, dead)
  PROVE  /\ now' = now
         /\ host'[HostOf[s]] =
              Carry(Admit(host[HostOf[s]], s, r, cost, class, now), dead, now).host
         /\ Carried(Admit(host[HostOf[s]], s, r, cost, class, now).host, host'[HostOf[s]], now)
  <1>1. host \in [Hosts -> HostType] /\ HostOf[s] \in Hosts
    BY DEF TypeOK
  <1>2. now' = now /\ host'[HostOf[s]] =
          Carry(Admit(host[HostOf[s]], s, r, cost, class, now), dead, now).host
    BY <1>1 DEF Boot, Apply
  <1> QED BY <1>2, CarryIsCarried

ToldInv == \A m \in Hosts : Told(host[m], now)

LEMMA ToldStep == GateInv /\ ToldInv /\ [Next]_vars => ToldInv'
  <1> SUFFICES ASSUME GateInv, ToldInv, [Next]_vars, NEW m \in Hosts
               PROVE  Told(host'[m], now')
    BY DEF ToldInv, Told, Vacant, IsCritical
  <1>1. now \in Nat /\ SoundHost(host[m], now) /\ Cause(host[m]) /\ Told(host[m], now) /\ TypeOK
    BY DEF GateInv, TypeOK, ToldInv
  <1>2. CASE now' = now /\ \A n \in Hosts : Events(host[n], host'[n], now)
    BY <1>1, <1>2, EventsTold
  <1>3. CASE Ticked
    <2>1. PICK dead : Tick(dead)
      BY <1>3 DEF Ticked
    <2>2. now' = now /\ Carried(TickHost(host[m], now).host, host'[m], now)
      BY <2>1, TickedHosts
    <2>3. SoundHost(TickHost(host[m], now).host, now) /\ Told(TickHost(host[m], now).host, now)
      BY <1>1, TickSound, TickTold DEF SoundResult
    <2> QED BY <1>1, <2>2, <2>3, CarriedTold
  <1>4. CASE now' = now /\ Booted(m)
    <2>1. PICK s \in Sessions, r \in Requests, cost \in {"cold", "warm"},
               class \in {"interactive", "automated"}, dead \in SUBSET HeldSessions :
            m = HostOf[s] /\ Boot(s, r, cost, class, dead)
      BY <1>4 DEF Booted
    <2> DEFINE k == Admit(host[m], s, r, cost, class, now).host
    <2>2. Carried(k, host'[m], now)
      BY <1>1, <2>1, BootedHost
    <2>3. SoundHost(k, now) /\ Told(k, now)
      BY <1>1, AdmitSound, AdmitTold DEF SoundResult
    <2> HIDE DEF k
    <2> QED BY <1>1, <1>4, <2>2, <2>3, CarriedTold
  <1>5. CASE now' = now /\ host'[m] = host[m]
    BY <1>1, <1>5
  <1>6. CASE host' = host /\ now' \in {now, now + 1}
    <2>1. IsCritical(host[m], now') => IsCritical(host[m], now)
      BY <1>1, <1>6 DEF IsCritical, SoundHost, TypedHost, HostType, Time
    <2> QED BY <1>1, <1>6, <2>1 DEF Told
  <1> QED BY <1>1, <1>2, <1>3, <1>4, <1>5, <1>6, HostSteps

\* A held person was last told the reason that is true now: through pressure that
\* begins, is renewed and ends, windows, releases and boots that take its place,
\* for any number of Macs and any timings.
THEOREM ReasonIsCurrent == Spec => []ToldReasonIsCurrent
  <1>1. Init => ToldInv
    BY NoHeldEmpty DEF Init, NewHost, ToldInv, Told, Vacant
  <1>2. ToldInv => ToldReasonIsCurrent
    BY DEF ToldInv, Told, ToldReasonIsCurrent
  <1> QED BY Invariance, ToldStep, <1>1, <1>2, PTL DEF Spec

-----------------------------------------------------------------------------
(* A lease and admit answer alike.                                          *)

\* What a lease reads of a Mac is what admit would answer an automated cold boot
\* of a session that has neither the slot nor the reservation there
\* (wouldRefuseAutomated), in every reachable state.
THEOREM LeaseIsAdmit == Spec => []LeaseMirrorsAdmit
  <1>1. GateInv => LeaseMirrorsAdmit
    <2> SUFFICES ASSUME GateInv, NEW m \in Hosts, NEW s \in Sessions, NEW r \in Requests,
                        s # host[m].slot.session, s # host[m].reservation.session
                 PROVE  (WouldRefuseAutomated(host[m], now) = None)
                          <=> (r \in Admit(host[m], s, r, "cold", "automated", now).sent)
      BY DEF LeaseMirrorsAdmit
    <2> DEFINE d == AdmitAutomated(host[m], s, r, now)
    <2>1. now \in Nat /\ SoundHost(host[m], now)
      BY DEF GateInv, TypeOK
    <2>2. Admit(host[m], s, r, "cold", "automated", now) = d
      BY DEF Admit
    <2>3. (r \in d.sent) <=> /\ ~IsCritical(host[m], now) /\ Free(host[m])
                             /\ WindowOpen(host[m]) \/ Vacant(host[m])
      BY <2>1, AdmitAutomatedCases
    <2> HIDE DEF d
    <2>4. (WouldRefuseAutomated(host[m], now) = None) <=>
             /\ ~IsCritical(host[m], now) /\ Free(host[m])
             /\ WindowOpen(host[m]) \/ Vacant(host[m])
      BY DEF WouldRefuseAutomated
    <2> QED BY <2>2, <2>3, <2>4
  <1> QED BY Invariance, <1>1, PTL

-----------------------------------------------------------------------------
(* A tick leaves nothing overdue.                                           *)

LatePressure(h, t) == h.criticalUntil # None => t < h.criticalUntil

LateSlot(slot, t) ==
  /\ slot.phase = "booting" => /\ t < slot.since + BootMs
                               /\ slot.reboundAt # None => t < slot.reboundAt + ReboundMs
  /\ slot.phase = "settling" => /\ t < slot.readyAt + SettleCapMs
                                /\ slot.lastSampleAt = None => t < slot.readyAt + NoSampleMs

LateWindow(h, t) == WindowOpen(h) => t < h.agingWindowUntil \/ IsCritical(h, t)

LateHeld(h, t) == ~Vacant(h) => t < h.reservation.since + HumanWaitMs

Late(h, t) == LatePressure(h, t) /\ LateSlot(h.slot, t) /\ LateWindow(h, t) /\ LateHeld(h, t)

\* A slot that is free, or taken at this instant, is not overdue.
LEMMA NewSlotLate ==
  ASSUME NEW t \in Nat, NEW s, NEW r
  PROVE  LateSlot(NoSlot, t) /\ LateSlot(NewSlot(s, r, "booting", t, None), t)
  BY SlotParts, SMTT(20) DEF LateSlot

\* A record with nothing overdue has every deadline ahead of it.
LEMMA LateDeadlines ==
  ASSUME NEW h, NEW t \in Nat, SoundHost(h, t), Late(h, t), NEW d \in Deadlines(h, t)
  PROVE  t < d
  BY DEF Deadlines, Late, LatePressure, LateSlot, LateWindow, LateHeld

\* A release leaves nothing overdue that was not: the window it opens is new.
LEMMA ReleaseLate ==
  ASSUME NEW h, NEW t \in Nat, SoundHost(h, t)
  PROVE  LET k == Release(h, t).host IN
           /\ LateSlot(k.slot, t)
           /\ LatePressure(h, t) => LatePressure(k, t)
           /\ LateWindow(h, t) => LateWindow(k, t)
           /\ LateHeld(h, t) => LateHeld(k, t)
  <1> DEFINE d == Release(h, t)
             k == d.host
  <1>1. PressureStays(h, k)
    BY ReleaseCases
  <1>2. (k.slot = NoSlot /\ k.reservation = h.reservation
         /\ (k.agingWindowUntil = t + AgingWindowMs \/ k.agingWindowUntil = h.agingWindowUntil))
        \/ Dispatched(h, d, t)
    BY ReleaseCases
  <1> HIDE DEF k
  <1>3. LatePressure(h, t) => LatePressure(k, t)
    BY <1>1 DEF LatePressure, PressureStays
  <1>4. CASE k.slot = NoSlot /\ k.reservation = h.reservation
             /\ (k.agingWindowUntil = t + AgingWindowMs \/ k.agingWindowUntil = h.agingWindowUntil)
    <2>1. LateSlot(k.slot, t)
      BY <1>4, NewSlotLate
    <2>2. LateWindow(h, t) => LateWindow(k, t)
      BY <1>1, <1>4 DEF LateWindow, WindowOpen, PressureStays, IsCritical
    <2>3. LateHeld(h, t) => LateHeld(k, t)
      BY <1>4 DEF LateHeld, Vacant
    <2> QED BY <1>3, <2>1, <2>2, <2>3 DEF k
  <1>5. CASE Dispatched(h, d, t)
    <2>0. /\ k.slot = NewSlot(h.reservation.session, h.reservation.req, "booting", t, None)
          /\ k.reservation = NoHeld /\ k.agingWindowUntil = h.agingWindowUntil
      BY <1>5 DEF Dispatched, k
    <2>1. LateSlot(k.slot, t)
      BY <2>0, NewSlotLate
    <2>2. LateWindow(h, t) => LateWindow(k, t)
      BY <1>1, <2>0 DEF LateWindow, WindowOpen, PressureStays, IsCritical
    <2>3. LateHeld(k, t)
      BY <2>0, NoHeldEmpty DEF LateHeld, Vacant
    <2> QED BY <1>3, <2>1, <2>2, <2>3 DEF k
  <1> QED BY <1>2, <1>4, <1>5

LEMMA TickLate ==
  ASSUME NEW h, NEW t \in Nat, SoundHost(h, t), Cause(h)
  PROVE  Late(TickHost(h, t).host, t)
  <1>1. PICK a, b, c, d : Stages(h, t, a, b, c, d) /\ TickHost(h, t).host = d.host
    BY TickIsStages
  <1>2. SoundHost(a.host, t) /\ SoundHost(b.host, t) /\ SoundHost(c.host, t)
    BY <1>1, StagesSound
  <1>3. LatePressure(a.host, t)
    <2>1. CASE h.criticalUntil # None /\ t >= h.criticalUntil
      <3>1. a = CriticalEnded(h, t)
        BY <1>1, <2>1 DEF Stages, TickPressure
      <3>2. PICK k : LET e == DispatchReservation(k, t) IN
               /\ SoundHost(k, t) /\ k.criticalUntil = None
               /\ CriticalEnded(h, t) = [host |-> RefreshWaiting(e.host, t), sent |-> e.sent, ended |-> {}]
        BY CriticalEndedCases
      <3> DEFINE e == DispatchReservation(k, t)
      <3>3. SoundHost(e.host, t) /\ PressureStays(k, e.host)
        BY <3>2, DispatchCases, DispatchSound DEF SoundResult
      <3>4. a.host = RefreshWaiting(e.host, t)
        BY <3>1, <3>2
      <3> HIDE DEF e
      <3>5. a.host.criticalUntil = None
        BY <3>2, <3>3, <3>4, RefreshFrame DEF PressureStays
      <3> QED BY <3>5 DEF LatePressure
    <2>2. CASE ~(h.criticalUntil # None /\ t >= h.criticalUntil)
      <3>1. a.host = h
        BY <1>1, <2>2, ResultParts DEF Stages, TickPressure
      <3>2. h.criticalUntil \in Time
        BY DEF SoundHost, TypedHost, HostType
      <3> QED BY <2>2, <3>1, <3>2 DEF LatePressure, Time
    <2> QED BY <2>1, <2>2
  <1>4. LatePressure(b.host, t) /\ LateSlot(b.host.slot, t)
    <2> DEFINE k == a.host
    <2>1. CASE SlotExpired(k, t)
      <3>1. b = Release(k, t)
        BY <1>1, <2>1 DEF Stages, TickSlot
      <3> QED BY <1>2, <1>3, <3>1, ReleaseLate
    <2>2. CASE ~SlotExpired(k, t)
      <3>1. b.host = k
        BY <1>1, <2>2, ResultParts DEF Stages, TickSlot
      <3>2. /\ k.slot.since \in Nat /\ k.slot.readyAt \in Time /\ k.slot.reboundAt \in Time
            /\ k.slot.phase = "settling" => k.slot.readyAt # None
            /\ k.slot.phase # "free" => ~Free(k)
        BY <1>2 DEF SoundHost, TypedHost, HostType, SlotType, SlotShape, Free
      <3> HIDE DEF k
      <3>3. LateSlot(k.slot, t)
        BY <2>2, <3>2 DEF LateSlot, SlotExpired, Time
      <3> QED BY <1>3, <3>1, <3>3 DEF k
    <2> QED BY <2>1, <2>2
  <1>5. LatePressure(c.host, t) /\ LateSlot(c.host.slot, t) /\ LateWindow(c.host, t)
    <2>0. c = TickWindow(b.host, t)
      BY <1>1 DEF Stages
    <2>1. CASE c = Quiet(b.host)
               /\ ~(WindowOpen(b.host) /\ t >= b.host.agingWindowUntil /\ ~IsCritical(b.host, t))
      <3>1. c.host = b.host
        BY <2>1, ResultParts
      <3>2. b.host.agingWindowUntil \in Time
        BY <1>2 DEF SoundHost, TypedHost, HostType
      <3>3. LateWindow(b.host, t)
        BY <2>1, <3>2 DEF LateWindow, WindowOpen, Time
      <3> QED BY <1>4, <3>1, <3>3
    <2>2. CASE /\ c.host.agingWindowUntil = None
               /\ \/ c.host.slot = b.host.slot
                  \/ c.host.slot = NewSlot(b.host.reservation.session, b.host.reservation.req,
                                           "booting", t, None)
      <3>1. PressureStays(b.host, c.host)
        BY <1>2, <2>0, TickWindowCases
      <3>2. LatePressure(c.host, t)
        BY <1>4, <3>1 DEF LatePressure, PressureStays
      <3> QED BY <1>4, <2>2, <3>2, NewSlotLate DEF LateWindow, WindowOpen
    <2> QED BY <1>2, <2>0, <2>1, <2>2, TickWindowCases
  <1>6. Late(d.host, t)
    <2>1. d = TickHeld(c.host, t)
      BY <1>1 DEF Stages
    <2>2. PressureStays(c.host, d.host) /\ d.host.agingWindowUntil = c.host.agingWindowUntil
      BY <1>2, <2>1, TickHeldCases
    <2>3. LatePressure(d.host, t) /\ LateWindow(d.host, t)
      BY <1>5, <2>2 DEF LatePressure, LateWindow, WindowOpen, PressureStays, IsCritical
    <2>4. CASE d = Quiet(c.host) /\ ~(~Vacant(c.host) /\ t >= c.host.reservation.since + HumanWaitMs)
      <3>1. d.host = c.host
        BY <2>4, ResultParts
      <3>2. c.host.reservation.since \in Nat
        BY <1>2 DEF SoundHost, TypedHost, HostType, HeldType
      <3>3. LateHeld(c.host, t)
        BY <2>4, <3>2 DEF LateHeld
      <3> QED BY <1>5, <2>3, <3>1, <3>3 DEF Late
    <2>5. CASE /\ d.host.reservation = NoHeld
               /\ \/ d.host.slot = c.host.slot
                  \/ d.host.slot = NewSlot(c.host.reservation.session, c.host.reservation.req,
                                           "booting", t, None)
      <3>1. LateHeld(d.host, t)
        BY <2>5, NoHeldEmpty DEF LateHeld, Vacant
      <3>2. LateSlot(d.host.slot, t)
        BY <1>5, <2>5, NewSlotLate
      <3> QED BY <2>3, <3>1, <3>2 DEF Late
    <2> QED BY <1>2, <2>1, <2>4, <2>5, TickHeldCases
  <1> QED BY <1>1, <1>6

\* No tick arms the timer for an instant that has passed, so the relay's timer
\* cannot spin: pressure, slots, windows and held people are all dealt with, in
\* an order in which none leaves another overdue, lost boots included.
THEOREM TimerDoesNotSpin == Spec => TickNeverSpins
  <1>1. ASSUME GateInv, NEW dead, Tick(dead), timer' # None
        PROVE  now < timer'
    <2>1. now \in Nat /\ now' = now /\ timer' = NextDeadline(host', now)
      BY <1>1 DEF GateInv, TypeOK, Tick
    <2>2. ASSUME NEW m \in Hosts
          PROVE  SoundHost(host'[m], now) /\ Late(host'[m], now)
      <3> DEFINE k == TickHost(host[m], now).host
      <3>1. SoundHost(host[m], now) /\ Cause(host[m])
        BY <1>1 DEF GateInv
      <3>2. SoundHost(k, now) /\ Cause(k) /\ Late(k, now)
        BY <2>1, <3>1, TickSound, TickLate DEF SoundResult
      <3>3. Carried(k, host'[m], now)
        BY <1>1, TickedHosts
      <3> HIDE DEF k
      <3>4. SoundHost(host'[m], now)
        BY <2>1, <3>2, <3>3, CarriedSound
      <3>5. Late(Release(k, now).host, now)
        BY <2>1, <3>2, ReleaseLate DEF Late
      <3> QED BY <3>2, <3>3, <3>4, <3>5 DEF Carried
    <2> DEFINE all == UNION {Deadlines(host'[m], now) : m \in Hosts}
    <2>3. \A d \in all : now < d
      BY <2>1, <2>2, LateDeadlines
    <2>4. all \subseteq Nat
      BY <2>1, <2>2, DeadlinesAreNatural DEF SoundHost
    <2>5. timer' = IF all = {} THEN None ELSE CHOOSE d \in all : \A e \in all : d <= e
      BY <2>1 DEF NextDeadline
    <2> HIDE DEF all
    <2>6. all # {} /\ \E d \in all : \A e \in all : d <= e
      BY <1>1, <2>4, <2>5, LeastNatural
    <2> QED BY <2>3, <2>5, <2>6
  <1>2. ASSUME GateInv, NEW dead, Tick(dead), timer' # None, timer' <= now
        PROVE  FALSE
    <2>1. now < timer' /\ now \in Nat /\ TypeOK'
      BY <1>1, <1>2, TickInv DEF GateInv, TypeOK
    <2>2. timer' \in Nat
      BY <1>2, <2>1 DEF TypeOK, Time
    <2> QED BY <1>2, <2>1, <2>2
  <1>3. GateInv /\ [Next]_vars =>
          [(timer' # None /\ timer' <= now) => ~\E dead \in SUBSET HeldSessions : Tick(dead)]_vars
    BY <1>2
  <1> QED BY Invariance, <1>3, PTL DEF Spec, TickNeverSpins

-----------------------------------------------------------------------------
(* A slot settles no sooner than its readings allow.                        *)

\* n readings take n gaps.
LEMMA Gaps ==
  /\ \A n \in Nat : n * MinSampleGapMs \in Nat
  /\ \A n \in Nat : (n + 1) * MinSampleGapMs = n * MinSampleGapMs + MinSampleGapMs
  /\ \A n, k \in Nat : n <= k => n * MinSampleGapMs <= k * MinSampleGapMs
  <1> DEFINE gap == MinSampleGapMs
  <1>1. gap \in Nat
    OBVIOUS
  <1> HIDE DEF gap
  <1>2. \A n \in Nat : n * gap \in Nat
    BY <1>1
  <1>3. \A n \in Nat : (n + 1) * gap = n * gap + gap
    BY <1>1
  <1>4. \A n, k \in Nat : n <= k => n * gap <= k * gap
    BY <1>1
  <1> QED BY <1>2, <1>3, <1>4 DEF gap

\* Only a slot that settles counts its readings.
LEMMA UncountedSlot ==
  ASSUME NEW h, NEW t, h.slot.phase # "settling"
  PROVE  Counted(h, t)
  BY DEF Counted

\* A slot that is given, or let go, does not settle.
LEMMA ReleaseCounted ==
  ASSUME NEW h, NEW t \in Nat, SoundHost(h, t)
  PROVE  Counted(Release(h, t).host, t)
  <1> DEFINE d == Release(h, t)
  <1>1. d.host.slot = NoSlot \/ Dispatched(h, d, t)
    BY ReleaseCases
  <1>2. d.host.slot.phase # "settling"
    BY <1>1, SlotParts, SMTT(20) DEF Dispatched
  <1> QED BY <1>2, UncountedSlot

\* Pressure lets no slot go, and gives away only one that is free.
LEMMA PressureSlot ==
  ASSUME NEW h, NEW t \in Nat, SoundHost(h, t), NEW critical \in BOOLEAN,
         NEW k, k = EvPressure(h, critical, t).host \/ k = CriticalEnded(h, t).host
  PROVE  k.slot = h.slot \/ (Free(h) /\ k.slot.phase = "booting")
  <1> DEFINE left == IF ~WindowOpen(h) THEN h.windowLeft
                     ELSE IF h.agingWindowUntil > t THEN h.agingWindowUntil - t ELSE 0
             up   == [h EXCEPT !.criticalUntil = t + FreshMs]
             g    == [up EXCEPT !.windowLeft = left]
  <1>1. k = up \/ k = RefreshWaiting(g, t) \/ k = h \/ k = CriticalEnded(h, t).host
    BY ResultParts DEF EvPressure
  <1>2. h \in HostType /\ left \in Time
    BY DEF SoundHost, TypedHost, HostType, Time, WindowOpen
  <1>3. up.slot = h.slot
    BY <1>2 DEF HostType
  <1>4. t + FreshMs \in Time
    BY DEF Time
  <1> HIDE DEF left
  <1>5. g \in HostType /\ g.slot = h.slot
    BY <1>2, <1>4 DEF HostType
  <1> HIDE DEF g
  <1>6. RefreshWaiting(g, t).slot = h.slot
    BY <1>5, RefreshTouches
  <1>7. CriticalEnded(h, t).host.slot = h.slot
        \/ (Free(h) /\ CriticalEnded(h, t).host.slot.phase = "booting")
    <2>1. PICK n : LET d == DispatchReservation(n, t) IN
             /\ SoundHost(n, t) /\ n.slot = h.slot
             /\ CriticalEnded(h, t) = [host |-> RefreshWaiting(d.host, t), sent |-> d.sent, ended |-> {}]
      BY CriticalEndedCases
    <2> DEFINE d == DispatchReservation(n, t)
    <2>2. SoundHost(d.host, t) /\ (d = Quiet(n) \/ (Free(n) /\ Dispatched(n, d, t)))
      BY <2>1, DispatchSound, DispatchCases DEF SoundResult
    <2>3. CriticalEnded(h, t).host = RefreshWaiting(d.host, t)
      BY <2>1
    <2> HIDE DEF d
    <2>4. CriticalEnded(h, t).host.slot = d.host.slot
      BY <2>2, <2>3, RefreshFrame
    <2>5. CASE d = Quiet(n)
      BY <2>1, <2>4, <2>5, ResultParts
    <2>6. CASE Free(n) /\ Dispatched(n, d, t)
      BY <2>1, <2>4, <2>6, SlotParts DEF Dispatched, Free
    <2> QED BY <2>2, <2>5, <2>6
  <1> QED BY <1>1, <1>3, <1>6, <1>7

\* A reading counted is a gap after the one before it.
LEMMA SampledCounted ==
  ASSUME NEW h, NEW t \in Nat, SoundHost(h, t), Counted(h, t), NEW g, Sampled(h.slot, g.slot, t)
  PROVE  /\ Counted(g, t)
         /\ h.slot.droppedFirst =>
              h.slot.readyAt + Len(g.slot.samples) * MinSampleGapMs <= t
  <1> DEFINE p == h.slot
             q == g.slot
             n == Len(p.samples)
             k == Len(q.samples)
             gap == MinSampleGapMs
  <1>1. /\ p.samples \in Seq(Nat) /\ p.readyAt \in Nat /\ p.lastSampleAt \in Time /\ gap \in Nat
        /\ p.droppedFirst \in BOOLEAN
    BY DEF SoundHost, TypedHost, HostType, SlotType, SlotShape, Sampled, Time
  <1>2. n \in Nat /\ k \in Nat
    BY <1>1, LenProperties DEF Sampled
  <1>3. /\ p.readyAt <= t
        /\ p.lastSampleAt = None => ~p.droppedFirst /\ n = 0
        /\ p.lastSampleAt # None => p.lastSampleAt <= t /\ p.readyAt + n * gap <= p.lastSampleAt
    BY SMTT(20) DEF Counted, Sampled
  <1>4. k <= n + 1 /\ (~p.droppedFirst => k <= n)
    <2>1. k <= IF p.droppedFirst THEN n + 1 ELSE n
      BY DEF Sampled
    <2> HIDE DEF p, n, k
    <2> QED BY <1>1, <1>2, <2>1, SMTT(20)
  <1>5. /\ q.phase = "settling" /\ q.readyAt = p.readyAt /\ q.lastSampleAt = t
        /\ p.lastSampleAt = None \/ t - p.lastSampleAt >= gap
    BY DEF Sampled
  <1> HIDE DEF p, q, n, k
  <1>6. k * gap <= (n + 1) * gap /\ (n + 1) * gap = n * gap + gap
        /\ n * gap \in Nat /\ k * gap \in Nat
    <2>1. n + 1 \in Nat
      BY <1>2
    <2> QED BY <1>2, <1>4, <2>1, Gaps
  <1>7. p.readyAt + k * gap <= t
    <2>1. CASE p.lastSampleAt = None
      <3>1. k = 0
        BY <1>2, <1>3, <1>4, <2>1
      <3>2. k * gap = 0
        BY <1>1, <3>1
      <3> QED BY <1>1, <1>3, <3>2
    <2>2. CASE p.lastSampleAt # None
      <3>1. p.lastSampleAt \in Nat /\ t - p.lastSampleAt >= gap
        BY <1>1, <1>5, <2>2 DEF Time
      <3> DEFINE x == k * gap
                 y == n * gap
                 z == (n + 1) * gap
      <3>2. x <= z /\ z = y + gap /\ x \in Nat /\ y \in Nat
        BY <1>6
      <3>3. p.readyAt + y <= p.lastSampleAt
        BY <1>3, <2>2
      <3>4. p.readyAt \in Nat /\ gap \in Nat
        BY <1>1
      <3> HIDE DEF gap, x, y, z
      <3>5. p.readyAt + x <= t
        <4>1. x <= y + gap
          BY <3>2
        <4>2. p.lastSampleAt + gap <= t
          BY <3>1, <3>4
        <4> QED BY <3>1, <3>2, <3>3, <3>4, <4>1, <4>2
      <3> QED BY <3>5 DEF x
    <2> QED BY <2>1, <2>2
  <1>8. t # None
    OBVIOUS
  <1> QED BY <1>3, <1>5, <1>7, <1>8 DEF Counted, p, q, k, gap

LEMMA EventCounted ==
  ASSUME NEW h, NEW t \in Nat, SoundHost(h, t), Counted(h, t), NEW k, Event(h, k, t)
  PROVE  Counted(k, t)
  <1>1. ASSUME NEW critical \in BOOLEAN, k = EvPressure(h, critical, t).host
        PROVE  Counted(k, t)
    <2>1. k.slot = h.slot \/ k.slot.phase = "booting"
      BY <1>1, PressureSlot
    <2> QED BY <2>1 DEF Counted
  <1>2. ASSUME NEW g, SoundHost(g, t), Touched(h, g, t), k = g \/ k = Release(g, t).host
        PROVE  Counted(k, t)
    <2>1. CASE SameReading(h.slot, g.slot)
      <3>1. Counted(g, t)
        BY <2>1 DEF Counted, SameReading
      <3> QED BY <1>2, <3>1, ReleaseCounted
    <2>2. CASE Fresh(g.slot, t)
      <3>1. Counted(g, t)
        BY <2>2 DEF Fresh, Counted
      <3> QED BY <1>2, <3>1, ReleaseCounted
    <2>3. CASE Sampled(h.slot, g.slot, t)
      BY <1>2, <2>3, SampledCounted, ReleaseCounted
    <2> QED BY <1>2, <2>1, <2>2, <2>3 DEF Touched
  <1> QED BY <1>1, <1>2, EventCases

LEMMA CarriedCounted ==
  ASSUME NEW k, NEW t \in Nat, SoundHost(k, t), Counted(k, t), NEW g, Carried(k, g, t)
  PROVE  Counted(g, t)
  BY ReleaseCounted DEF Carried

LEMMA EventsCounted ==
  ASSUME NEW h, NEW t \in Nat, SoundHost(h, t), Cause(h), Counted(h, t), NEW k, Events(h, k, t)
  PROVE  Counted(k, t)
  <1>1. PICK a, b, c : Event(h, a, t) /\ Carried(a, b, t) /\ Event(b, c, t) /\ Carried(c, k, t)
    BY DEF Events
  <1>2. SoundHost(a, t) /\ Cause(a) /\ Counted(a, t)
    BY <1>1, EventSound, EventCounted
  <1>3. SoundHost(b, t) /\ Cause(b) /\ Counted(b, t)
    BY <1>1, <1>2, CarriedSound, CarriedCounted
  <1>4. SoundHost(c, t) /\ Counted(c, t)
    BY <1>1, <1>3, EventSound, EventCounted
  <1> QED BY <1>1, <1>4, CarriedCounted

\* A boot leaves the slot as it was or makes it boot.
LEMMA AdmitCounted ==
  ASSUME NEW h, NEW t \in Nat, SoundHost(h, t), Counted(h, t), NEW s, NEW r, NEW cost, NEW class,
         NEW k, k = Admit(h, s, r, cost, class, t).host
  PROVE  Counted(k, t)
  <1>1. h \in HostType /\ h.slot \in SlotType
    BY DEF SoundHost, TypedHost, HostType
  <1>2. k.slot = h.slot \/ k.slot.phase = "booting"
    <2>1. CASE h.reservation.session = s
      <3> DEFINE v == Vacate(h)
                 w == Hold(h, h.reservation.session, r, h.reservation.since, t)
      <3>1. k \in {v, w}
        BY <2>1, ResultParts DEF Admit, AdmitHeldAgain
      <3>2. v.slot = h.slot
        BY <1>1 DEF Vacate, HostType
      <3>3. w.slot = h.slot
        BY <1>1, HoldFrame
      <3> HIDE DEF v, w
      <3> QED BY <3>1, <3>2, <3>3
    <2>2. CASE h.reservation.session # s /\ h.slot.session = s
      <3> DEFINE slot == [h.slot EXCEPT !.req = r, !.phase = "booting", !.since = t,
                              !.readyAt = None, !.samples = <<>>,
                              !.droppedFirst = FALSE, !.reboundAt = None]
      <3>1. k = [h EXCEPT !.slot = slot]
        BY <2>2, ResultParts DEF Admit, AdmitSlotAgain
      <3>2. slot.phase = "booting"
        BY <1>1 DEF SlotType
      <3> HIDE DEF slot
      <3>3. k.slot = slot
        BY <1>1, <3>1 DEF HostType
      <3> QED BY <3>2, <3>3
    <2>3. CASE h.reservation.session # s /\ h.slot.session # s /\ cost = "warm"
      BY <2>3, ResultParts DEF Admit
    <2>4. CASE h.reservation.session # s /\ h.slot.session # s /\ cost # "warm" /\ class = "automated"
      <3>1. k = AdmitAutomated(h, s, r, t).host
        BY <2>4 DEF Admit
      <3>2. k.slot = h.slot \/ k.slot = NewSlot(s, r, "booting", t, None)
        BY <3>1, AdmitAutomatedCases
      <3> QED BY <3>2, SlotParts, SMTT(20)
    <2>5. CASE h.reservation.session # s /\ h.slot.session # s /\ cost # "warm" /\ class # "automated"
      <3>1. k = AdmitPerson(h, s, r, t).host
        BY <2>5 DEF Admit
      <3>2. \/ k.slot = h.slot \/ k.slot = NewSlot(s, r, "booting", t, None)
            \/ k.slot = NewSlot(h.reservation.session, h.reservation.req, "booting", t, None)
        BY <3>1, AdmitPersonCases
      <3> QED BY <3>2, SlotParts, SMTT(20)
    <2> QED BY <2>1, <2>2, <2>3, <2>4, <2>5
  <1> QED BY <1>2 DEF Counted

\* A tick leaves the slot as it was, frees it or makes it boot.
LEMMA TickCounted ==
  ASSUME NEW h, NEW t \in Nat, SoundHost(h, t), Cause(h), Counted(h, t)
  PROVE  Counted(TickHost(h, t).host, t)
  <1>1. PICK a, b, c, d : Stages(h, t, a, b, c, d) /\ TickHost(h, t).host = d.host
    BY TickIsStages
  <1>2. SoundHost(a.host, t) /\ SoundHost(b.host, t) /\ SoundHost(c.host, t)
    BY <1>1, StagesSound
  <1>3. Counted(a.host, t)
    <2>1. a.host = h \/ a.host = CriticalEnded(h, t).host
      BY <1>1, ResultParts DEF Stages, TickPressure
    <2>2. a.host.slot = h.slot \/ a.host.slot.phase = "booting"
      <3>1. CriticalEnded(h, t).host.slot = h.slot
            \/ CriticalEnded(h, t).host.slot.phase = "booting"
        <4>1. TRUE \in BOOLEAN
          OBVIOUS
        <4> QED BY <4>1, PressureSlot
      <3> QED BY <2>1, <3>1
    <2> QED BY <2>2 DEF Counted
  <1>4. Counted(b.host, t)
    BY <1>1, <1>2, <1>3, ReleaseCounted, ResultParts DEF Stages, TickSlot
  <1>5. Counted(c.host, t)
    <2>1. c = TickWindow(b.host, t)
      BY <1>1 DEF Stages
    <2>3. c = Quiet(b.host) => c.host = b.host
      BY ResultParts
    <2>4. \/ c.host.slot = b.host.slot
          \/ c.host.slot = NewSlot(b.host.reservation.session, b.host.reservation.req,
                                    "booting", t, None)
      BY <1>2, <2>1, <2>3, TickWindowCases
    <2>2. c.host.slot = b.host.slot \/ c.host.slot.phase = "booting"
      BY <2>4, SlotParts
    <2> QED BY <1>4, <2>2 DEF Counted
  <1>6. Counted(d.host, t)
    <2>1. d = TickHeld(c.host, t)
      BY <1>1 DEF Stages
    <2>3. d = Quiet(c.host) => d.host = c.host
      BY ResultParts
    <2>4. \/ d.host.slot = c.host.slot
          \/ d.host.slot = NewSlot(c.host.reservation.session, c.host.reservation.req,
                                    "booting", t, None)
      BY <1>2, <2>1, <2>3, TickHeldCases
    <2>2. d.host.slot = c.host.slot \/ d.host.slot.phase = "booting"
      BY <2>4, SlotParts
    <2> QED BY <1>5, <2>2 DEF Counted
  <1> QED BY <1>1, <1>6

CountInv == \A m \in Hosts : Counted(host[m], now)

LEMMA CountStep == GateInv /\ CountInv /\ [Next]_vars => CountInv'
  <1> SUFFICES ASSUME GateInv, CountInv, [Next]_vars, NEW m \in Hosts
               PROVE  Counted(host'[m], now')
    BY DEF CountInv, Counted
  <1>1. now \in Nat /\ SoundHost(host[m], now) /\ Cause(host[m]) /\ Counted(host[m], now) /\ TypeOK
    BY DEF GateInv, TypeOK, CountInv
  <1>2. CASE now' = now /\ \A n \in Hosts : Events(host[n], host'[n], now)
    BY <1>1, <1>2, EventsCounted
  <1>3. CASE Ticked
    <2>1. PICK dead : Tick(dead)
      BY <1>3 DEF Ticked
    <2>2. now' = now /\ Carried(TickHost(host[m], now).host, host'[m], now)
      BY <2>1, TickedHosts
    <2>3. SoundHost(TickHost(host[m], now).host, now) /\ Counted(TickHost(host[m], now).host, now)
      BY <1>1, TickSound, TickCounted DEF SoundResult
    <2> QED BY <1>1, <2>2, <2>3, CarriedCounted
  <1>4. CASE now' = now /\ Booted(m)
    <2>1. PICK s \in Sessions, r \in Requests, cost \in {"cold", "warm"},
               class \in {"interactive", "automated"}, dead \in SUBSET HeldSessions :
            m = HostOf[s] /\ Boot(s, r, cost, class, dead)
      BY <1>4 DEF Booted
    <2> DEFINE k == Admit(host[m], s, r, cost, class, now).host
    <2>2. Carried(k, host'[m], now)
      BY <1>1, <2>1, BootedHost
    <2>3. SoundHost(k, now) /\ Counted(k, now)
      BY <1>1, AdmitSound, AdmitCounted DEF SoundResult
    <2> HIDE DEF k
    <2> QED BY <1>1, <1>4, <2>2, <2>3, CarriedCounted
  <1>5. CASE now' = now /\ host'[m] = host[m]
    BY <1>1, <1>5
  <1>6. CASE host' = host /\ now' \in {now, now + 1}
    <2>1. /\ host[m].slot.lastSampleAt \in Time /\ host[m].slot.readyAt \in Time
          /\ host[m].slot.phase = "settling" => host[m].slot.readyAt \in Nat
      BY <1>1 DEF SoundHost, TypedHost, HostType, SlotType, SlotShape, Time
    <2>2. /\ host[m].slot.readyAt \in Nat /\ host[m].slot.readyAt <= now => host[m].slot.readyAt <= now'
          /\ host[m].slot.lastSampleAt \in Nat /\ host[m].slot.lastSampleAt <= now
               => host[m].slot.lastSampleAt <= now'
      BY <1>1, <1>6
    <2> QED BY <1>1, <1>6, <2>1, <2>2 DEF Counted, Time
  <1> QED BY <1>1, <1>2, <1>3, <1>4, <1>5, <1>6, HostSteps

\* The readings counted for a slot are as many gaps after its ready as there are.
THEOREM ReadingsCounted == Spec => []CountInv
  <1>1. Init => CountInv
    BY SlotParts DEF Init, NewHost, CountInv, Counted
  <1> QED BY Invariance, CountStep, <1>1, PTL DEF Spec

\* CPU reports let a slot go no sooner than SettleSamples gaps after its ready,
\* however many agents report side by side, whatever they report of the pressure,
\* and however often the readings go stale.
THEOREM SettlingTakesItsTime == Spec => SettleTakesItsTime
  <1>1. ASSUME GateInv, CountInv, NEW m \in Hosts, NEW cpu \in Cpu, NEW p \in Pressure,
               Resources(m, cpu, p, {}), host[m].slot.phase = "settling",
               host'[m].slot.phase # "settling"
        PROVE  ~(now < host[m].slot.readyAt + SettleSamples * MinSampleGapMs)
    <2> DEFINE h == host[m]
               e == EvSample(h, cpu, now)
               a == Carry(e, {}, now)
               b == IF p = "none" THEN Quiet(a.host) ELSE EvPressure(a.host, p = "critical", now)
               c == Carry(b, {}, now)
    <2>1. /\ now \in Nat /\ SoundHost(h, now) /\ Cause(h) /\ Counted(h, now) /\ cpu \in Nat
          /\ host \in [Hosts -> HostType]
      BY <1>1 DEF GateInv, TypeOK, CountInv
    <2>2. a.host = e.host /\ c.host = b.host
      BY DEF Carry
    <2>3. host'[m] = c.host
      BY <1>1, <2>1 DEF Resources, Apply
    <2> HIDE DEF c, e
    <2>4. SoundHost(e.host, now)
      BY <2>1, EvSampleSound DEF SoundResult, e
    <2>5. b.host.slot = a.host.slot \/ (Free(a.host) /\ b.host.slot.phase = "booting")
      <3> DEFINE critical == p = "critical"
      <3>1. critical \in BOOLEAN
        OBVIOUS
      <3> HIDE DEF a
      <3>2. CASE p = "none"
        BY <3>2, ResultParts
      <3>3. CASE p # "none"
        <4>1. b.host = EvPressure(a.host, critical, now).host
          BY <3>3
        <4> HIDE DEF b, critical
        <4> QED BY <2>1, <2>2, <2>4, <3>1, <4>1, PressureSlot
      <3> QED BY <3>2, <3>3
    <2> HIDE DEF a, b
    <2>6. e.host.slot.phase # "settling"
      <3>1. SlotShape(e.host.slot)
        BY <2>4 DEF SoundHost, TypedHost
      <3> QED BY <1>1, <2>2, <2>3, <2>5, <3>1 DEF Free, SlotShape
    <2>7. CASE EvSample(h, cpu, now) = Quiet(h)
      <3>1. e.host = h
        BY <2>7, ResultParts DEF e
      <3> QED BY <1>1, <2>6, <3>1
    <2>8. CASE EvSample(h, cpu, now) # Quiet(h)
      <3>1. PICK g : /\ Sampled(h.slot, g.slot, now)
                     /\ \/ EvSample(h, cpu, now) = Quiet(g)
                        \/ h.slot.droppedFirst /\ Len(g.slot.samples) >= SettleSamples
        BY <2>1, <2>8, SampleCases, SMTT(20)
      <3>2. CASE EvSample(h, cpu, now) = Quiet(g)
        <4>1. e.host = g
          BY <3>2, ResultParts DEF e
        <4> QED BY <2>6, <3>1, <4>1 DEF Sampled
      <3>3. CASE h.slot.droppedFirst /\ Len(g.slot.samples) >= SettleSamples
        <4> DEFINE n == Len(g.slot.samples)
        <4>1. h.slot.readyAt + n * MinSampleGapMs <= now
          BY <2>1, <3>1, <3>3, SampledCounted
        <4>2. n \in Nat /\ n >= SettleSamples /\ h.slot.readyAt \in Nat
          BY <1>1, <2>1, <3>1, <3>3, LenProperties
          DEF Sampled, SoundHost, TypedHost, HostType, SlotType, SlotShape, Time
        <4> HIDE DEF n, h
        <4> DEFINE need == SettleSamples * MinSampleGapMs
                   got == n * MinSampleGapMs
        <4>3. need <= got /\ need \in Nat /\ got \in Nat
          BY <4>2, Gaps
        <4>4. h.slot.readyAt + got <= now
          BY <4>1
        <4> HIDE DEF need, got
        <4>5. ~(now < h.slot.readyAt + need)
          BY <2>1, <4>2, <4>3, <4>4
        <4> QED BY <4>5 DEF need, h
      <3> QED BY <3>1, <3>2, <3>3
    <2> QED BY <2>7, <2>8
  <1>2. GateInv /\ CountInv /\ [Next]_vars =>
          [\A m \in Hosts :
             (/\ host[m].slot.phase = "settling" /\ host'[m].slot # host[m].slot
              /\ host'[m].slot.phase # "settling"
              /\ now < host[m].slot.readyAt + SettleSamples * MinSampleGapMs)
             => ~\E cpu \in Cpu, p \in Pressure : Resources(m, cpu, p, {})]_vars
    BY <1>1
  <1> QED BY Invariance, ReadingsCounted, <1>2, PTL DEF Spec, SettleTakesItsTime

-----------------------------------------------------------------------------
(* An open window is automation's.                                          *)

\* The slot is s's, nobody's, or one whose boot was already let through.
Keeps(s, slot) == slot.session = None \/ slot.session = s \/ slot.phase = "settling"

\* A release under an open window frees the slot, and a window is open after it.
LEMMA ReleaseBarred ==
  ASSUME NEW h, NEW t \in Nat, SoundHost(h, t), WindowOpen(h)
  PROVE  LET k == Release(h, t).host IN
           /\ k.slot = NoSlot /\ WindowOpen(k) /\ PressureStays(h, k)
           /\ k.agingWindowUntil = t + AgingWindowMs \/ k.agingWindowUntil = h.agingWindowUntil
  <1> DEFINE d == Release(h, t)
  <1>1. /\ PressureStays(h, d.host) /\ d.host.slot = NoSlot
        /\ d.host.agingWindowUntil = t + AgingWindowMs \/ d.host.agingWindowUntil = h.agingWindowUntil
    BY ReleaseCases DEF Dispatched
  <1>2. t + AgingWindowMs # None
    OBVIOUS
  <1> HIDE DEF d
  <1>3. WindowOpen(d.host)
    BY <1>1, <1>2 DEF WindowOpen
  <1> QED BY <1>1, <1>3 DEF d

\* The end of a pressure reading starts an open window again and sends nobody.
LEMMA CriticalEndedBarred ==
  ASSUME NEW h, NEW t \in Nat, SoundHost(h, t), WindowOpen(h)
  PROVE  LET k == CriticalEnded(h, t).host IN
           /\ k.slot = h.slot /\ k.criticalUntil = None /\ WindowOpen(k)
           /\ k.agingWindowUntil = t + (IF h.windowLeft = None THEN AgingWindowMs ELSE h.windowLeft)
  <1> DEFINE until == t + (IF h.windowLeft = None THEN AgingWindowMs ELSE h.windowLeft)
  <1>1. PICK n : LET d == DispatchReservation(n, t) IN
           /\ SoundHost(n, t) /\ n.slot = h.slot /\ n.criticalUntil = None
           /\ n.agingWindowUntil = IF h.agingWindowUntil = None THEN None ELSE until
           /\ CriticalEnded(h, t) = [host |-> RefreshWaiting(d.host, t), sent |-> d.sent, ended |-> {}]
    BY CriticalEndedCases
  <1>2. until \in Nat
    <2>1. h.windowLeft \in Time
      BY DEF SoundHost, TypedHost, HostType
    <2> QED BY <2>1 DEF Time
  <1> DEFINE d == DispatchReservation(n, t)
             k == RefreshWaiting(d.host, t)
  <1> HIDE DEF until
  <1>3. n.agingWindowUntil = until /\ WindowOpen(n)
    BY <1>1, <1>2 DEF WindowOpen
  <1>4. d.host = n
    <2>1. d = Quiet(n)
      BY <1>1, <1>3, DispatchCases DEF Dispatched
    <2> QED BY <2>1, ResultParts
  <1>5. CriticalEnded(h, t).host = k
    BY <1>1
  <1>6. k.slot = n.slot /\ k.criticalUntil = n.criticalUntil /\ k.agingWindowUntil = n.agingWindowUntil
    <2> HIDE DEF d
    <2> QED BY <1>1, <1>4, RefreshFrame DEF PressureStays
  <1> HIDE DEF k
  <1> QED BY <1>1, <1>3, <1>5, <1>6 DEF WindowOpen, until

\* A pressure reading leaves an open window open and the slot alone.
LEMMA PressureBarred ==
  ASSUME NEW h, NEW t \in Nat, SoundHost(h, t), WindowOpen(h), NEW critical \in BOOLEAN
  PROVE  WindowOpen(EvPressure(h, critical, t).host) /\ EvPressure(h, critical, t).host.slot = h.slot
  <1> DEFINE left == IF ~WindowOpen(h) THEN h.windowLeft
                     ELSE IF h.agingWindowUntil > t THEN h.agingWindowUntil - t ELSE 0
             up   == [h EXCEPT !.criticalUntil = t + FreshMs]
             g    == [up EXCEPT !.windowLeft = left]
             w    == RefreshWaiting(g, t)
             k    == EvPressure(h, critical, t).host
  <1>1. k = up \/ k = w \/ k = h \/ k = CriticalEnded(h, t).host
    BY ResultParts DEF EvPressure
  <1>2. h \in HostType
    BY DEF SoundHost, TypedHost
  <1>3. up.slot = h.slot /\ up.agingWindowUntil = h.agingWindowUntil
    BY <1>2 DEF HostType
  <1>4. g \in HostType /\ g.slot = h.slot /\ g.agingWindowUntil = h.agingWindowUntil
    <2>1. left \in Time /\ t + FreshMs \in Time
      BY <1>2 DEF HostType, Time, WindowOpen
    <2> HIDE DEF left
    <2> QED BY <1>2, <2>1 DEF HostType
  <1> HIDE DEF g, up
  <1>5. w.slot = h.slot /\ w.agingWindowUntil = h.agingWindowUntil
    BY <1>4 DEF RefreshWaiting, HostType
  <1> HIDE DEF w
  <1>6. CriticalEnded(h, t).host.slot = h.slot /\ WindowOpen(CriticalEnded(h, t).host)
    BY CriticalEndedBarred
  <1> HIDE DEF k
  <1>7. WindowOpen(k) /\ k.slot = h.slot
    BY <1>1, <1>3, <1>5, <1>6 DEF WindowOpen
  <1> QED BY <1>7 DEF k

\* No event gives a slot to another session under an open window, or closes it.
LEMMA EventBarred ==
  ASSUME NEW h, NEW t \in Nat, SoundHost(h, t), WindowOpen(h), NEW s, Keeps(s, h.slot),
         NEW k, Event(h, k, t)
  PROVE  WindowOpen(k) /\ Keeps(s, k.slot)
  <1>1. ASSUME NEW critical \in BOOLEAN, k = EvPressure(h, critical, t).host
        PROVE  WindowOpen(k) /\ Keeps(s, k.slot)
    BY <1>1, PressureBarred
  <1>2. ASSUME NEW g, SoundHost(g, t), Touched(h, g, t), k = g \/ k = Release(g, t).host
        PROVE  WindowOpen(k) /\ Keeps(s, k.slot)
    <2>1. WindowOpen(g) /\ Keeps(s, g.slot)
      BY <1>2 DEF Touched, WindowOpen, Keeps, SameReading, Fresh, Sampled
    <2>2. CASE k = Release(g, t).host
      BY <1>2, <2>1, <2>2, ReleaseBarred, SlotParts DEF Keeps
    <2> QED BY <1>2, <2>1, <2>2
  <1> QED BY <1>1, <1>2, EventCases

LEMMA CarriedBarred ==
  ASSUME NEW k, NEW t \in Nat, SoundHost(k, t), WindowOpen(k), NEW s, Keeps(s, k.slot),
         NEW g, Carried(k, g, t)
  PROVE  WindowOpen(g) /\ Keeps(s, g.slot)
  <1>1. CASE g = Release(k, t).host
    BY <1>1, ReleaseBarred, SlotParts DEF Keeps
  <1> QED BY <1>1 DEF Carried

LEMMA EventsBarred ==
  ASSUME NEW h, NEW t \in Nat, SoundHost(h, t), Cause(h), WindowOpen(h), NEW k, Events(h, k, t)
  PROVE  Keeps(h.slot.session, k.slot)
  <1> DEFINE s == h.slot.session
  <1>1. PICK a, b, c : Event(h, a, t) /\ Carried(a, b, t) /\ Event(b, c, t) /\ Carried(c, k, t)
    BY DEF Events
  <1>2. Keeps(s, h.slot)
    BY DEF Keeps
  <1> HIDE DEF s
  <1>3. SoundHost(a, t) /\ Cause(a) /\ WindowOpen(a) /\ Keeps(s, a.slot)
    BY <1>1, <1>2, EventSound, EventBarred
  <1>4. SoundHost(b, t) /\ Cause(b) /\ WindowOpen(b) /\ Keeps(s, b.slot)
    BY <1>1, <1>3, CarriedSound, CarriedBarred
  <1>5. SoundHost(c, t) /\ WindowOpen(c) /\ Keeps(s, c.slot)
    BY <1>1, <1>4, EventSound, EventBarred
  <1>6. Keeps(s, k.slot)
    BY <1>1, <1>5, CarriedBarred
  <1> QED BY <1>6 DEF s

\* The window has time left, and no pressure reading stops it.
Ahead(h, t) == WindowOpen(h) /\ t < h.agingWindowUntil /\ ~IsCritical(h, t)

\* A tick gives the slot to nobody while the window has time left, now or as it resumes.
LEMMA TickBarred ==
  ASSUME NEW h, NEW t \in Nat, SoundHost(h, t), Cause(h), Ahead(h, t),
         ~(h.criticalUntil # None /\ h.windowLeft = 0)
  PROVE  LET k == TickHost(h, t).host IN
           WindowOpen(k) /\ (k.slot = h.slot \/ k.slot = NoSlot)
  <1>1. PICK a, b, c, d : Stages(h, t, a, b, c, d) /\ TickHost(h, t).host = d.host
    BY TickIsStages, ZenonT(30)
  <1>2. SoundHost(a.host, t) /\ SoundHost(b.host, t) /\ SoundHost(c.host, t)
    BY <1>1, StagesSound
  <1>3. Ahead(a.host, t) /\ a.host.slot = h.slot
    <2>1. CASE h.criticalUntil # None /\ t >= h.criticalUntil
      <3> DEFINE left == IF h.windowLeft = None THEN AgingWindowMs ELSE h.windowLeft
                 k == CriticalEnded(h, t).host
      <3>1. a.host = k
        BY <1>1, <2>1 DEF Stages, TickPressure
      <3>2. k.slot = h.slot /\ k.criticalUntil = None /\ WindowOpen(k) /\ k.agingWindowUntil = t + left
        BY CriticalEndedBarred DEF Ahead
      <3>3. left \in Nat /\ left > 0
        <4>1. h.windowLeft \in Time
          BY DEF SoundHost, TypedHost, HostType
        <4> QED BY <2>1, <4>1 DEF Time
      <3> HIDE DEF k, left
      <3> QED BY <3>1, <3>2, <3>3 DEF Ahead, IsCritical
    <2>2. CASE ~(h.criticalUntil # None /\ t >= h.criticalUntil)
      <3>1. a.host = h
        BY <1>1, <2>2, ResultParts DEF Stages, TickPressure
      <3> QED BY <3>1
    <2> QED BY <2>1, <2>2
  <1>4. Ahead(b.host, t) /\ (b.host.slot = h.slot \/ b.host.slot = NoSlot)
    <2> DEFINE k == Release(a.host, t).host
    <2>1. b.host = a.host \/ b.host = k
      BY <1>1, ResultParts DEF Stages, TickSlot
    <2>2. /\ k.slot = NoSlot /\ WindowOpen(k) /\ PressureStays(a.host, k)
          /\ k.agingWindowUntil = t + AgingWindowMs \/ k.agingWindowUntil = a.host.agingWindowUntil
      BY <1>2, <1>3, ReleaseBarred DEF Ahead
    <2> HIDE DEF k
    <2>3. Ahead(k, t)
      BY <1>3, <2>2 DEF Ahead, IsCritical, PressureStays
    <2> QED BY <1>3, <2>1, <2>2, <2>3
  <1>5. c.host = b.host
    <2>1. ~(t >= b.host.agingWindowUntil)
      <3>1. b.host.agingWindowUntil \in Time /\ t < b.host.agingWindowUntil /\ WindowOpen(b.host)
        BY <1>2, <1>4 DEF SoundHost, TypedHost, HostType, Ahead
      <3> QED BY <3>1 DEF Time, WindowOpen
    <2>2. c = Quiet(b.host)
      BY <1>1, <2>1 DEF Stages, TickWindow
    <2> QED BY <2>2, ResultParts
  <1>6. d.host.slot = c.host.slot /\ d.host.agingWindowUntil = c.host.agingWindowUntil
    <2>1. d = TickHeld(c.host, t)
      BY <1>1 DEF Stages
    <2>2. WindowOpen(c.host) /\ ~IsCritical(c.host, t)
      BY <1>4, <1>5 DEF Ahead
    <2>3. d = Quiet(c.host) => d.host = c.host
      BY ResultParts
    <2> QED BY <1>2, <2>1, <2>2, <2>3, TickHeldCases
  <1> QED BY <1>1, <1>4, <1>5, <1>6 DEF Ahead, WindowOpen

\* Under an open window a boot leaves the slot with its session, or is an
\* automated one that takes it.
LEMMA AdmitBarred ==
  ASSUME NEW h, NEW t \in Nat, SoundHost(h, t), WindowOpen(h), ~IsCritical(h, t),
         NEW s, NEW r, NEW cost, NEW class \in {"interactive", "automated"},
         NEW d, d = Admit(h, s, r, cost, class, t)
  PROVE  \/ WindowOpen(d.host) /\ d.host.slot.session = h.slot.session
         \/ /\ class = "automated" /\ h.reservation.session # s
            /\ d.sent = {r} /\ d.ended = {} /\ d.host.slot = NewSlot(s, r, "booting", t, None)
  <1>1. h \in HostType /\ h.slot \in SlotType
    BY DEF SoundHost, TypedHost, HostType
  <1>2. CASE h.reservation.session = s
    <2> DEFINE v == Vacate(h)
               w == Hold(h, h.reservation.session, r, h.reservation.since, t)
    <2>1. d.host \in {v, w}
      BY <1>2, ResultParts DEF Admit, AdmitHeldAgain
    <2>2. v.slot = h.slot /\ v.agingWindowUntil = h.agingWindowUntil
      BY <1>1 DEF Vacate, HostType
    <2>3. w.slot = h.slot /\ w.agingWindowUntil = h.agingWindowUntil
      BY <1>1, HoldFrame
    <2> HIDE DEF v, w
    <2> QED BY <2>1, <2>2, <2>3 DEF WindowOpen
  <1>3. CASE h.reservation.session # s /\ h.slot.session = s
    <2> DEFINE slot == [h.slot EXCEPT !.req = r, !.phase = "booting", !.since = t,
                            !.readyAt = None, !.samples = <<>>,
                            !.droppedFirst = FALSE, !.reboundAt = None]
               k == [h EXCEPT !.slot = slot]
    <2>1. d.host = k
      BY <1>3, ResultParts DEF Admit, AdmitSlotAgain
    <2>2. slot.session = h.slot.session
      BY <1>1 DEF SlotType
    <2> HIDE DEF slot
    <2>3. k.slot = slot /\ k.agingWindowUntil = h.agingWindowUntil
      BY <1>1 DEF HostType
    <2> HIDE DEF k
    <2> QED BY <2>1, <2>2, <2>3 DEF WindowOpen
  <1>4. CASE h.reservation.session # s /\ h.slot.session # s /\ cost = "warm"
    <2>1. d.host = h
      BY <1>4, ResultParts DEF Admit
    <2> QED BY <2>1
  <1>5. CASE h.reservation.session # s /\ h.slot.session # s /\ cost # "warm" /\ class = "automated"
    <2>1. d = AdmitAutomated(h, s, r, t)
      BY <1>5 DEF Admit
    <2>2. \/ d.sent = {r} /\ d.ended = {} /\ d.host.slot = NewSlot(s, r, "booting", t, None)
          \/ d.host.slot = h.slot /\ d.host.agingWindowUntil = h.agingWindowUntil
      BY <2>1, AdmitAutomatedCases
    <2> QED BY <1>5, <2>2 DEF WindowOpen
  <1>6. CASE h.reservation.session # s /\ h.slot.session # s /\ cost # "warm" /\ class # "automated"
    <2>1. d = AdmitPerson(h, s, r, t)
      BY <1>6 DEF Admit
    <2>2. d.host.slot = h.slot /\ d.host.agingWindowUntil = h.agingWindowUntil
      BY <2>1, AdmitPersonCases
    <2> QED BY <2>2 DEF WindowOpen
  <1> QED BY <1>2, <1>3, <1>4, <1>5, <1>6

\* While an ageing window is open and the Mac is not critical, no person's boot
\* takes the slot, whatever is asked, answered, reported or lost: only an
\* automated boot, a boot already let through, or a tick that closes the window.
THEOREM WindowBarsPeople == Spec => WindowIsForAutomation
  <1>1. ASSUME GateInv, [Next]_vars, NEW m \in Hosts,
               WindowOpen(host[m]), ~IsCritical(host[m], now),
               host'[m].slot.session \notin {None, host[m].slot.session}
        PROVE  \/ host'[m].slot.phase = "settling"
               \/ ask'[host'[m].slot.req].class = "automated"
               \/ now >= host[m].agingWindowUntil
               \/ host[m].criticalUntil # None /\ host[m].windowLeft = 0
    <2> DEFINE h == host[m]
               Goal == \/ host'[m].slot.phase = "settling"
                       \/ ask'[host'[m].slot.req].class = "automated"
                       \/ now >= host[m].agingWindowUntil
                       \/ host[m].criticalUntil # None /\ host[m].windowLeft = 0
    <2>1. /\ now \in Nat /\ SoundHost(h, now) /\ Cause(h) /\ TypeOK
          /\ ask \in [Requests -> AskType] /\ h.agingWindowUntil \in Nat
      BY <1>1 DEF GateInv, TypeOK, HostType, Time, WindowOpen
    <2>2. CASE now' = now /\ \A n \in Hosts : Events(host[n], host'[n], now)
      <3>1. Keeps(h.slot.session, host'[m].slot)
        BY <1>1, <2>1, <2>2, EventsBarred
      <3> QED BY <1>1, <3>1 DEF Keeps
    <2>3. CASE Ticked /\ now < h.agingWindowUntil /\ ~(h.criticalUntil # None /\ h.windowLeft = 0)
      <3> DEFINE k == TickHost(h, now).host
      <3>1. PICK dead : Tick(dead)
        BY <2>3 DEF Ticked
      <3>2. Carried(k, host'[m], now)
        BY <3>1, TickedHosts
      <3>3. SoundHost(k, now)
        BY <2>1, TickSound DEF SoundResult
      <3>4. WindowOpen(k) /\ (k.slot = h.slot \/ k.slot = NoSlot)
        BY <1>1, <2>1, <2>3, TickBarred DEF Ahead
      <3> HIDE DEF k
      <3>5. host'[m].slot = k.slot \/ host'[m].slot = NoSlot
        BY <2>1, <3>2, <3>3, <3>4, ReleaseBarred DEF Carried
      <3> QED BY <1>1, <3>4, <3>5, SlotParts
    <2>4. CASE now' = now /\ Booted(m)
      <3>1. PICK s \in Sessions, r \in Requests, cost \in {"cold", "warm"},
                 class \in {"interactive", "automated"}, dead \in SUBSET HeldSessions :
              m = HostOf[s] /\ Boot(s, r, cost, class, dead)
        BY <2>4 DEF Booted
      <3> DEFINE d    == Admit(h, s, r, cost, class, now)
                 asks == [ask EXCEPT ![r] = [session |-> s, class |-> class, at |-> "held"]]
                 out  == Carry(d, dead, now)
      <3>2. host'[m] = out.host /\ Carried(d.host, host'[m], now) /\ SoundHost(d.host, now)
        BY <2>1, <3>1, BootedHost, AdmitSound DEF SoundResult
      <3>3. ask' = Settle(asks, out)
        BY <3>1 DEF Boot, Apply
      <3>4. asks \in [Requests -> AskType] /\ asks[r].class = class /\ asks[r].session = s
        BY <2>1 DEF AskType
      <3>5. CASE WindowOpen(d.host) /\ d.host.slot.session = h.slot.session
        <4>1. Keeps(h.slot.session, d.host.slot)
          BY <3>5 DEF Keeps
        <4>2. Keeps(h.slot.session, host'[m].slot)
          BY <2>1, <3>2, <3>5, <4>1, CarriedBarred
        <4> QED BY <1>1, <4>2 DEF Keeps
      <3>6. CASE /\ class = "automated" /\ h.reservation.session # s
                 /\ d.sent = {r} /\ d.ended = {} /\ d.host.slot = NewSlot(s, r, "booting", now, None)
        <4> DEFINE lost == {q \in d.sent : ask[q].at = "held" /\ ask[q].session \in dead}
        <4>2. out.host = (IF d.host.slot.req \in lost THEN Release(d.host, now).host ELSE d.host)
              /\ out.sent = d.sent \ lost /\ out.ended = d.ended \cup lost
          BY DEF Carry
        <4>3. lost = {}
          <5>1. ask[r].at = "nobody"
            BY <3>1 DEF Boot, Unused
          <5> QED BY <3>6, <5>1
        <4> HIDE DEF d, asks, lost, out
        <4>4. out.host = d.host /\ r \in out.sent /\ r \notin out.ended
          BY <3>6, <4>2, <4>3
        <4>5. ask'[r].class = "automated"
          BY <3>3, <3>4, <3>6, <4>4, SettledAsk
        <4>6. host'[m].slot.req = r
          BY <3>2, <3>6, <4>4, SlotParts
        <4> QED BY <4>5, <4>6
      <3> HIDE DEF out, asks
      <3> QED BY <1>1, <2>1, <3>5, <3>6, AdmitBarred
    <2>5. CASE host'[m] = h
      BY <1>1, <2>5
    <2>6. CASE Ticked /\ ~(now < h.agingWindowUntil /\ ~(h.criticalUntil # None /\ h.windowLeft = 0))
      BY <2>1, <2>6
    <2> HIDE DEF Goal
    <2>7. TypeOK /\ [Next]_vars
      BY <1>1, <2>1
    <2>8. \/ now' = now /\ \A n \in Hosts : Events(host[n], host'[n], now)
          \/ Ticked \/ (now' = now /\ Booted(m)) \/ host'[m] = h
      BY <2>7, HostSteps
    <2> QED BY <2>2, <2>3, <2>4, <2>5, <2>6, <2>8
  <1>2. GateInv /\ [Next]_vars =>
          [\A m \in Hosts :
             (/\ WindowOpen(host[m]) /\ ~IsCritical(host[m], now)
              /\ host'[m].slot.session \notin {None, host[m].slot.session})
             => \/ host'[m].slot.phase = "settling"
                \/ ask'[host'[m].slot.req].class = "automated"
                \/ now >= host[m].agingWindowUntil
                \/ host[m].criticalUntil # None /\ host[m].windowLeft = 0]_vars
    BY <1>1
  <1> QED BY Invariance, <1>2, PTL DEF Spec, WindowIsForAutomation
=============================================================================
