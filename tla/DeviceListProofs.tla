------------------------- MODULE DeviceListProofs -------------------------
(***************************************************************************)
(* What the relay shows of a Mac, for any devices, any details of them, and *)
(* any bounds: proofs about DeviceList.                                      *)
(***************************************************************************)
EXTENDS DeviceList, TLAPS, SequenceTheorems

----------------------------------------------------------------------------
(* Types. *)

Entries == Reports \cup {Absent}
Ids == Devices \X Nat
Readings == [gen : Nat, got : Lists \cup {None}]
Answers == [removed : SUBSET Ids, added : SUBSET Ids]

TypeInv ==
  /\ TypeOK
  /\ reading # None => reading \in Readings
  /\ replies \in Seq(Answers)
  /\ seen \in [Devices -> SUBSET Entries]

\* What keeping a version makes of a report.
LEMMA KeptParts ==
  ASSUME NEW r \in Entries, NEW s \in Entries
  PROVE  /\ Kept(r, s) \in Entries
         /\ Kept(r, s) = Absent <=> r = Absent
         /\ r # Absent => Kept(r, s).name = r.name
         /\ r # Absent /\ (s = Absent \/ r.ver # NoVer) => Kept(r, s) = r
         /\ r # Absent /\ s # Absent /\ r.ver = NoVer => Kept(r, s).ver = s.ver
  <1>1. CASE r # Absent /\ s # Absent /\ r.ver = NoVer
    <2>1. r \in Reports /\ s \in Reports
      BY <1>1 DEF Entries
    <2>2. Kept(r, s) = [r EXCEPT !.ver = s.ver]
      BY <1>1 DEF Kept
    <2>3. Kept(r, s) \in Reports /\ Absent \notin Reports
      BY <2>1, <2>2, ListAssumption
    <2>4. DOMAIN r = {"name", "ver"}
      BY <2>1, ListAssumption
    <2>5. Kept(r, s).name = r.name /\ Kept(r, s).ver = s.ver
      BY <2>2, <2>4
    <2> QED
      BY <1>1, <2>3, <2>5 DEF Entries
  <1>2. CASE ~(r # Absent /\ s # Absent /\ r.ver = NoVer)
    BY <1>2 DEF Kept
  <1> QED
    BY <1>1, <1>2

\* What a listed device's session comes to show.
LEMMA DiffedParts ==
  ASSUME session \in [Devices -> Sessions \cup {None}], born \in [Devices -> Nat],
         NEW d \in Devices, NEW r \in Entries
  PROVE  /\ Diffed(d, r) \in Sessions \cup {None}
         /\ r # Absent => /\ Diffed(d, r) # None /\ ~Diffed(d, r).gone
                          /\ Diffed(d, r).rep = IF session[d] = None THEN r ELSE Kept(r, session[d].rep)
         /\ r = Absent /\ Diffed(d, r) # None =>
              /\ session[d] # None /\ Diffed(d, r).gone /\ Diffed(d, r).rep = session[d].rep
         /\ session[d] # None /\ session[d].held => Diffed(d, r) # None
  <1> DEFINE s == session[d]  x == Diffed(d, r)
  <1>0. s \in Sessions \cup {None} /\ born[d] \in Nat /\ None \notin Sessions
    BY ListAssumption
  <1>1. CASE s = None /\ r = Absent
    BY <1>1 DEF Diffed
  <1>2. CASE s = None /\ r # Absent
    <2>1. x = Fresh(d, r) /\ r \in Reports
      BY <1>2 DEF Diffed, Entries
    <2>2. x \in Sessions /\ x.rep = r /\ ~x.gone
      BY <1>0, <2>1 DEF Fresh, Sessions
    <2> QED
      BY <1>0, <1>2, <2>2
  <1>3. CASE s # None /\ r # Absent
    <2>1. x = [s EXCEPT !.rep = Kept(r, s.rep), !.gone = FALSE] /\ s \in Sessions
      BY <1>0, <1>3 DEF Diffed, Refreshed
    <2>2. s.rep \in Reports
      BY <2>1 DEF Sessions
    <2>3. Kept(r, s.rep) \in Reports
      BY <1>3, <2>2, KeptParts DEF Entries
    <2>4. x \in Sessions /\ x.rep = Kept(r, s.rep) /\ ~x.gone
      BY <2>1, <2>3 DEF Sessions
    <2> QED
      BY <1>0, <1>3, <2>4
  <1>4. CASE s # None /\ r = Absent
    <2>1. x = (IF ~s.held THEN None ELSE [s EXCEPT !.gone = TRUE]) /\ s \in Sessions
      BY <1>0, <1>4 DEF Diffed, Vacant
    <2>2. CASE s.held
      <3>1. x = [s EXCEPT !.gone = TRUE]
        BY <2>1, <2>2
      <3>2. x \in Sessions /\ x.gone /\ x.rep = s.rep
        BY <2>1, <3>1 DEF Sessions
      <3> QED
        BY <1>0, <1>4, <3>2
    <2>3. CASE ~s.held
      BY <1>4, <2>1, <2>3
    <2> QED
      BY <2>2, <2>3
  <1> QED
    BY <1>1, <1>2, <1>3, <1>4

LEMMA ListsAreEntries == Lists = [Devices -> Entries]
  BY DEF Lists, Entries

LEMMA PairsAreIds ==
  ASSUME NEW some \in [Devices -> Sessions \cup {None}]
  PROVE  Pairs(some) \subseteq Ids
  BY DEF Pairs, Ids, Sessions

\* What a read may return.
LEMMA ReadIsList ==
  ASSUME world \in Lists, NEW got, Read(got)
  PROVE  /\ got \in Lists
         /\ \A d \in Devices : got[d] # Absent => got[d] = world[d]
  <1>1. PICK miss \in SUBSET Listed(world) : got = [d \in Devices |-> IF d \in miss THEN Absent ELSE world[d]]
    BY DEF Read
  <1> QED
    BY <1>1 DEF Lists

\* A list to be sent, and the baseline it leaves.
LEMMA NextListParts ==
  ASSUME sent \in Lists, missing \subseteq Listed(sent), NEW got \in Lists
  PROVE  /\ NextList(got) \in Lists
         /\ Baseline(NextList(got)) \in Lists
         /\ \A d \in Devices :
              /\ NextList(got)[d] # Absent => NextList(got)[d] = sent[d] \/ NextList(got)[d] = got[d]
              /\ NextList(got)[d] = Absent => got[d] = Absent /\ (sent[d] = Absent \/ d \in missing)
              /\ Baseline(NextList(got))[d] = Kept(NextList(got)[d], sent[d])
              /\ Baseline(NextList(got))[d] = Absent <=> NextList(got)[d] = Absent
              /\ d \in StillMissing(got) => sent[d] # Absent /\ got[d] = Absent /\ d \notin missing
                                            /\ Baseline(NextList(got))[d] # Absent
  <1> DEFINE next == NextList(got)
  <1>1. next \in Lists
    BY DEF NextList, Lists
  <1>2. ASSUME NEW d \in Devices
        PROVE  next[d] \in Entries /\ sent[d] \in Entries /\ next[d] = (IF got[d] = Absent /\ sent[d] # Absent /\ d \notin missing THEN sent[d] ELSE got[d])
    BY <1>1, ListsAreEntries DEF NextList
  <1> HIDE DEF next
  <1>3. ASSUME NEW d \in Devices
        PROVE  Kept(next[d], sent[d]) \in Entries /\ (Kept(next[d], sent[d]) = Absent <=> next[d] = Absent)
    BY <1>2, KeptParts
  <1>4. Baseline(next) \in Lists
    BY <1>3, ListsAreEntries DEF Baseline
  <1>5. ASSUME NEW d \in Devices
        PROVE  Baseline(next)[d] = Kept(next[d], sent[d])
    BY DEF Baseline
  <1>6. ASSUME NEW d \in Devices, d \in StillMissing(got)
        PROVE  sent[d] # Absent /\ got[d] = Absent /\ d \notin missing /\ Baseline(next)[d] # Absent
    <2>1. IF sent[d] = Absent THEN d \in missing ELSE got[d] = Absent /\ d \notin missing
      BY <1>6 DEF StillMissing
    <2>2. sent[d] # Absent
      BY <2>1, missing \subseteq Listed(sent) DEF Listed
    <2> QED
      BY <1>2, <1>3, <1>5, <2>1, <2>2
  <1>7. next = NextList(got)
    BY DEF next
  <1> QED
    BY <1>1, <1>2, <1>3, <1>4, <1>5, <1>6, <1>7

\* The session each device of a delivered list is left with.
Taken(list) == [d \in Devices |-> Diffed(d, list[d])]

LEMMA MacTypes ==
  ASSUME TypeInv, NEW d \in Devices, Change(d)
  PROVE  TypeInv'
  <1>1. PICK r \in Entries : world' = [world EXCEPT ![d] = r] /\ seen' = [seen EXCEPT ![d] = @ \cup {r}]
    BY DEF Change, Entries
  <1>2. world' \in Lists
    BY <1>1, ListsAreEntries DEF TypeInv, TypeOK
  <1>3. seen' \in [Devices -> SUBSET Entries]
    BY <1>1 DEF TypeInv
  <1> QED
    BY <1>2, <1>3 DEF TypeInv, TypeOK, Change, agentVars, relayVars

LEMMA WatcherTypes ==
  ASSUME TypeInv, Agent
  PROVE  TypeInv'
  <1>1. CASE Tick
    <2>1. reading' \in Readings
      BY <1>1 DEF Tick, Readings, TypeInv, TypeOK
    <2> QED
      BY <1>1, <2>1 DEF Tick, TypeInv, TypeOK, Readings, relayVars
  <1>2. CASE Sample
    <2>1. PICK got \in Lists : reading' = [reading EXCEPT !.got = got]
      BY <1>2 DEF Sample
    <2>2. reading' \in Readings
      BY <1>2, <2>1 DEF Sample, Readings, TypeInv
    <2> QED
      BY <1>2, <2>2 DEF Sample, TypeInv, TypeOK, Readings, relayVars
  <1>3. CASE ReadFails
    BY <1>3 DEF ReadFails, TypeInv, TypeOK, relayVars
  <1>4. CASE Finish
    <2>0. reading' = None /\ reading \in Readings /\ reading.got \in Lists
      BY <1>4 DEF Finish, TypeInv, Readings
    <2>1. CASE ~Current \/ ~conn
      BY <1>4, <2>0, <2>1 DEF Finish, TypeInv, TypeOK, relayVars
    <2>2. CASE ~(~Current \/ ~conn)
      <3> DEFINE got == reading.got  next == NextList(got)
      <3>1. next \in Lists /\ Baseline(next) \in Lists
        BY <2>0, NextListParts DEF TypeInv, TypeOK
      <3>2. misses' \in [Devices -> 0..2]
        <4>1. misses' = [d \in Devices |-> IF misses[d] = 2 THEN 2 ELSE IF got[d] = Absent THEN misses[d] + 1 ELSE 0]
          BY <1>4, <2>2 DEF Finish
        <4>2. misses \in [Devices -> 0..2]
          BY DEF TypeInv, TypeOK
        <4> QED
          BY <4>1, <4>2
      <3>3. missing' = StillMissing(got)
        BY <1>4, <2>2 DEF Finish
      <3>4. sent' \in Lists /\ missing' \subseteq Listed(sent')
        <4>1. CASE Changed(next)
          <5>1. sent' = Baseline(next)
            BY <1>4, <2>2, <4>1 DEF Finish
          <5>2. \A d \in StillMissing(got) : d \in Devices /\ Baseline(next)[d] # Absent
            BY <2>0, NextListParts DEF TypeInv, TypeOK, StillMissing
          <5> QED
            BY <3>1, <3>3, <5>1, <5>2 DEF Listed
        <4>2. CASE ~Changed(next)
          <5>1. sent' = sent
            BY <1>4, <2>2, <4>2 DEF Finish
          <5>2. \A d \in StillMissing(got) : d \in Devices /\ sent[d] # Absent
            BY <2>0, NextListParts DEF TypeInv, TypeOK, StillMissing
          <5> QED
            BY <3>3, <5>1, <5>2 DEF Listed, TypeInv, TypeOK
        <4> QED
          BY <4>1, <4>2
      <3>5. wire' \in Seq(Lists) /\ Len(wire') <= MaxWire
        <4>1. CASE Changed(next)
          <5>1. wire' = Append(wire, next) /\ Len(wire) < MaxWire
            BY <1>4, <2>2, <4>1 DEF Finish
          <5>2. wire \in Seq(Lists) /\ MaxWire \in Nat
            BY ListAssumption DEF TypeInv, TypeOK
          <5> HIDE DEF next
          <5> QED
            BY <3>1, <5>1, <5>2
        <4>2. CASE ~Changed(next)
          BY <1>4, <2>2, <4>2 DEF Finish, TypeInv, TypeOK
        <4> QED
          BY <4>1, <4>2
      <3> QED
        BY <1>4, <2>0, <3>2, <3>4, <3>5 DEF Finish, TypeInv, TypeOK, relayVars
    <2> QED
      BY <2>1, <2>2
  <1>5. CASE Apply
    <2>1. replies # <<>> /\ replies \in Seq(Answers) /\ Len(replies) <= MaxWire /\ MaxWire \in Nat
      BY <1>5, ListAssumption DEF Apply, TypeInv, TypeOK
    <2>2. Head(replies) \in Answers /\ Tail(replies) \in Seq(Answers) /\ Len(Tail(replies)) <= MaxWire
      BY <2>1
    <2>3. knows' \subseteq Ids
      BY <1>5, <2>2 DEF Apply, Answers, TypeInv, TypeOK, Ids
    <2> QED
      BY <1>5, <2>2, <2>3 DEF Apply, TypeInv, TypeOK, Ids, agentVars, relayVars
  <1> QED
    BY <1>1, <1>2, <1>3, <1>4, <1>5 DEF Agent

\* What the agent's socket takes when the relay's sessions change.
LEMMA ToldTypes ==
  ASSUME TypeInv, session' \in [Devices -> Sessions \cup {None}], Len(replies) < MaxWire, Told
  PROVE  replies' \in Seq(Answers) /\ Len(replies') <= MaxWire
  <1>1. Answer \in Answers
    <2>1. Pairs(session) \subseteq Ids /\ Pairs(session') \subseteq Ids
      BY PairsAreIds DEF TypeInv, TypeOK
    <2> QED
      BY <2>1 DEF Answer, Answers
  <1>2. replies \in Seq(Answers) /\ Len(replies) \in Nat /\ MaxWire \in Nat
    BY ListAssumption DEF TypeInv
  <1>3. CASE conn
    <2>1. replies' = Append(replies, Answer)
      BY <1>3 DEF Told
    <2> HIDE DEF Answer
    <2> QED
      BY <1>1, <1>2, <2>1
  <1>4. CASE ~conn
    BY <1>2, <1>4 DEF Told
  <1> QED
    BY <1>3, <1>4

\* The sessions a delivered list leaves, and those a sweep leaves.
LEMMA DeliveredSessions ==
  ASSUME TypeInv, Deliver
  PROVE  /\ Head(wire) \in Lists /\ Tail(wire) \in Seq(Lists)
         /\ Len(wire) \in Nat /\ Len(wire) # 0 /\ Len(wire') = Len(wire) - 1
         /\ \A i \in 1..Len(wire') : wire'[i] = wire[i + 1]
         /\ Head(wire) = wire[1]
         /\ session' \in [Devices -> Sessions \cup {None}]
         /\ \A d \in Devices : session'[d] = Diffed(d, Head(wire)[d])
  <1>1. wire \in Seq(Lists) /\ wire # <<>> /\ wire' = Tail(wire)
    BY DEF Deliver, TypeInv, TypeOK
  <1>2. Head(wire) \in Lists /\ Tail(wire) \in Seq(Lists) /\ Len(wire) \in Nat /\ Len(wire) # 0 /\ Head(wire) = wire[1]
    BY <1>1
  <1>3. Len(wire') = Len(wire) - 1 /\ \A i \in 1..Len(wire') : wire'[i] = wire[i + 1]
    BY <1>1
  <1>4. session' = [d \in Devices |-> Diffed(d, Head(wire)[d])]
    BY DEF Deliver
  <1>5. ASSUME NEW d \in Devices
        PROVE  Diffed(d, Head(wire)[d]) \in Sessions \cup {None}
    <2>1. Head(wire)[d] \in Entries
      BY <1>2, ListsAreEntries
    <2> QED
      BY <2>1, DiffedParts DEF TypeInv, TypeOK
  <1> QED
    BY <1>2, <1>3, <1>4, <1>5

LEMMA SweptSessions ==
  ASSUME TypeInv, Sweep
  PROVE  /\ session' \in [Devices -> Sessions \cup {None}]
         /\ \A d \in Devices :
              \/ session'[d] = session[d]
              \/ session'[d] = None /\ session[d] # None /\ session[d].gone /\ ~session[d].held
  <1> DEFINE out == {d \in Devices : session[d] # None /\ session[d].gone /\ Vacant(session[d])}
  <1>1. session' = [d \in Devices |-> IF d \in out THEN None ELSE session[d]]
    BY DEF Sweep
  <1> QED
    BY <1>1 DEF Vacant, TypeInv, TypeOK

LEMMA HeldSessions ==
  ASSUME TypeInv, NEW d \in Devices, Hold(d) \/ Free(d)
  PROVE  /\ session' \in [Devices -> Sessions \cup {None}]
         /\ \A e \in Devices :
              /\ session[e] = None => session'[e] = None
              /\ session[e] # None => /\ session'[e] \in Sessions
                                      /\ session'[e].id = session[e].id /\ session'[e].rep = session[e].rep
                                      /\ session'[e].gone = session[e].gone
  <1>1. PICK b \in BOOLEAN : session' = [session EXCEPT ![d].held = b]
    BY DEF Hold, Free
  <1>2. session[d] \in Sessions /\ session \in [Devices -> Sessions \cup {None}]
    BY DEF Hold, Free, TypeInv, TypeOK
  <1>3. [session[d] EXCEPT !.held = b] \in Sessions
    BY <1>2 DEF Sessions
  <1>4. session' = [session EXCEPT ![d] = [session[d] EXCEPT !.held = b]]
    BY <1>1
  <1>5. /\ [session[d] EXCEPT !.held = b].id = session[d].id
        /\ [session[d] EXCEPT !.held = b].rep = session[d].rep
        /\ [session[d] EXCEPT !.held = b].gone = session[d].gone
    BY <1>2 DEF Sessions
  <1> QED
    BY <1>2, <1>3, <1>4, <1>5, ListAssumption

LEMMA RelayTypes ==
  ASSUME TypeInv, Relay
  PROVE  TypeInv'
  <1>1. CASE Deliver
    <2>1. wire' \in Seq(Lists) /\ Len(wire') <= MaxWire /\ session' \in [Devices -> Sessions \cup {None}]
      <3>1. wire' = Tail(wire) /\ MaxWire \in Nat
        BY <1>1, ListAssumption DEF Deliver
      <3> QED
        BY <1>1, <3>1, DeliveredSessions DEF TypeInv, TypeOK
    <2>2. replies' \in Seq(Answers) /\ Len(replies') <= MaxWire
      BY <1>1, <2>1, ToldTypes DEF Deliver
    <2>3. born' \in [Devices -> Nat]
      BY <1>1 DEF Deliver, Counted, TypeInv, TypeOK
    <2> QED
      BY <1>1, <2>1, <2>2, <2>3 DEF Deliver, TypeInv, TypeOK, agentVars
  <1>2. CASE Sweep
    <2>1. session' \in [Devices -> Sessions \cup {None}]
      BY <1>2, SweptSessions
    <2>2. replies' \in Seq(Answers) /\ Len(replies') <= MaxWire
      BY <1>2, <2>1, ToldTypes DEF Sweep
    <2> QED
      BY <1>2, <2>1, <2>2 DEF Sweep, TypeInv, TypeOK, agentVars
  <1>3. CASE Evict
    BY <1>3 DEF Evict, TypeInv, TypeOK, agentVars
  <1>4. ASSUME NEW d \in Devices, Hold(d) \/ Free(d)
        PROVE  TypeInv'
    <2>1. session' \in [Devices -> Sessions \cup {None}]
      BY <1>4, HeldSessions
    <2> QED
      BY <1>4, <2>1 DEF Hold, Free, TypeInv, TypeOK, agentVars
  <1> QED
    BY <1>1, <1>2, <1>3, <1>4 DEF Relay

\* What the register makes of each session.
LEMMA RegisteredSessions ==
  ASSUME TypeInv, Connect
  PROVE  /\ offer \in Lists
         /\ session' \in [Devices -> Sessions \cup {None}]
         /\ \A d \in Devices :
              /\ offer[d] = Absent => session'[d] = None
              /\ offer[d] # Absent => /\ session'[d] # None /\ ~session'[d].gone
                                      /\ session'[d].rep = offer[d]
  <1>1. offer \in Lists /\ born \in [Devices -> Nat] /\ session \in [Devices -> Sessions \cup {None}]
    BY DEF Connect, TypeInv, TypeOK
  <1> DEFINE f(d) == CASE offer[d] = Absent -> None
                       [] offer[d] # Absent /\ session[d] = None -> Fresh(d, offer[d])
                       [] OTHER -> Rebound(session[d], offer[d])
  <1>2. session' = [d \in Devices |-> f(d)]
    BY DEF Connect
  <1>3. ASSUME NEW d \in Devices
        PROVE  /\ f(d) \in Sessions \cup {None}
               /\ offer[d] = Absent => f(d) = None
               /\ offer[d] # Absent => f(d) # None /\ ~f(d).gone /\ f(d).rep = offer[d]
    <2>1. CASE offer[d] = Absent
      BY <2>1
    <2>2. CASE offer[d] # Absent /\ session[d] = None
      <3>1. f(d) = Fresh(d, offer[d]) /\ offer[d] \in Reports
        BY <1>1, <2>2 DEF Lists
      <3>2. Fresh(d, offer[d]) \in Sessions /\ ~Fresh(d, offer[d]).gone /\ Fresh(d, offer[d]).rep = offer[d]
        BY <1>1, <3>1 DEF Fresh, Sessions
      <3> QED
        BY <2>2, <3>1, <3>2, ListAssumption
    <2>3. CASE offer[d] # Absent /\ session[d] # None
      <3>1. f(d) = Rebound(session[d], offer[d]) /\ offer[d] \in Reports /\ session[d] \in Sessions
        BY <1>1, <2>3 DEF Lists
      <3>2. Rebound(session[d], offer[d]) \in Sessions /\ ~Rebound(session[d], offer[d]).gone
            /\ Rebound(session[d], offer[d]).rep = offer[d]
        BY <3>1 DEF Rebound, Sessions
      <3> QED
        BY <2>3, <3>1, <3>2, ListAssumption
    <2> QED
      BY <2>1, <2>2, <2>3
  <1> HIDE DEF f
  <1> QED
    BY <1>1, <1>2, <1>3

LEMMA LinkTypes ==
  ASSUME TypeInv, Link
  PROVE  TypeInv'
  <1>1. CASE Offer
    <2>1. PICK got \in Lists : Read(got) /\ offer' = got
      BY <1>1 DEF Offer
    <2>2. seen' \in [Devices -> SUBSET Entries]
      BY <1>1, ListsAreEntries DEF Offer, TypeInv, TypeOK
    <2> QED
      BY <1>1, <2>1, <2>2 DEF Offer, TypeInv, TypeOK, agentVars, relayVars
  <1>2. CASE Connect
    <2>1. offer \in Lists /\ session' \in [Devices -> Sessions \cup {None}]
      BY <1>2, RegisteredSessions
    <2>2. knows' \subseteq Ids
      BY <1>2, <2>1, PairsAreIds DEF Connect
    <2>3. born' \in [Devices -> Nat] /\ misses' \in [Devices -> 0..2]
      BY <1>2 DEF Connect, Counted, TypeInv, TypeOK
    <2>4. /\ <<>> \in Seq(Lists) /\ <<>> \in Seq(Answers) /\ Len(<<>>) <= MaxWire /\ {} \subseteq Listed(sent')
          /\ generation' \in Nat
      BY <1>2, ListAssumption DEF Connect, TypeInv, TypeOK
    <2> QED
      BY <1>2, <2>1, <2>2, <2>3, <2>4 DEF Connect, TypeInv, TypeOK, Ids
  <1>3. CASE Disconnect
    <2>1. /\ <<>> \in Seq(Answers) /\ Len(<<>>) <= MaxWire /\ {} \subseteq Listed(sent') /\ {} \subseteq Ids
          /\ generation' \in Nat
      BY <1>3, ListAssumption DEF Disconnect, TypeInv, TypeOK
    <2> QED
      BY <1>3, <2>1 DEF Disconnect, TypeInv, TypeOK, Ids, relayVars
  <1>4. CASE LoseWire
    <2>1. <<>> \in Seq(Lists) /\ Len(<<>>) <= MaxWire
      BY ListAssumption
    <2> QED
      BY <1>4, <2>1 DEF LoseWire, TypeInv, TypeOK, agentVars, relayVars
  <1> QED
    BY <1>1, <1>2, <1>3, <1>4 DEF Link

LEMMA TypesStart == Init => TypeInv
  <1> SUFFICES ASSUME Init PROVE TypeInv
    OBVIOUS
  <1>1. /\ <<>> \in Seq(Lists) /\ <<>> \in Seq(Answers) /\ Len(<<>>) <= MaxWire /\ NoList \in Lists
        /\ {} \subseteq Listed(sent)
    BY ListAssumption DEF NoList, Lists
  <1>2. seen \in [Devices -> SUBSET Entries]
    BY ListsAreEntries DEF Init
  <1>3. /\ session \in [Devices -> Sessions \cup {None}] /\ born \in [Devices -> Nat]
        /\ misses \in [Devices -> 0..2] /\ generation \in Nat
    BY DEF Init
  <1>4. /\ wire \in Seq(Lists) /\ Len(wire) <= MaxWire /\ replies \in Seq(Answers) /\ Len(replies) <= MaxWire
        /\ sent \in Lists /\ missing \subseteq Listed(sent) /\ knows \subseteq Devices \X Nat
    BY <1>1 DEF Init
  <1>5. world \in Lists /\ offer \in Lists \cup {None} /\ conn \in BOOLEAN /\ reading = None
    BY DEF Init
  <1> QED
    BY <1>2, <1>3, <1>4, <1>5 DEF TypeInv, TypeOK

LEMMA TypesKeep ==
  ASSUME TypeInv, [Next]_vars
  PROVE  TypeInv'
  <1>1. CASE Next
    BY <1>1, MacTypes, WatcherTypes, RelayTypes, LinkTypes DEF Next
  <1>2. CASE UNCHANGED vars
    BY <1>2 DEF vars, agentVars, relayVars, TypeInv, TypeOK
  <1> QED
    BY <1>1, <1>2

\* Every variable keeps its type, the queues their bound, and only a device of the
\* watcher's baseline is ever marked missing (missingOnce of DeviceListWatcher).
THEOREM TypesHold == Spec => []TypeOK
  <1>1. TypeInv => TypeOK
    BY DEF TypeInv
  <1> QED
    BY <1>1, TypesStart, TypesKeep, PTL DEF Spec

\* A list or a sweep never ends a session somebody holds: goneAndVacant is asked of
\* the session as it is when the list is diffed.
THEOREM HeldSessionsStay == Spec => HeldSessionStays
  <1>1. ASSUME TypeInv, Next, conn, conn', NEW d \in Devices, session[d] # None, session[d].held
        PROVE  session'[d] # None
    <2>1. CASE Deliver
      <3>1. Head(wire)[d] \in Entries /\ session'[d] = Diffed(d, Head(wire)[d])
        BY <1>1, <2>1, DeliveredSessions, ListsAreEntries
      <3> QED
        BY <1>1, <3>1, DiffedParts DEF TypeInv, TypeOK
    <2>2. CASE Sweep
      BY <1>1, <2>2, SweptSessions
    <2>3. CASE \E e \in Devices : Hold(e) \/ Free(e)
      BY <1>1, <2>3, HeldSessions, ListAssumption
    <2>4. CASE session' = session
      BY <1>1, <2>4
    <2> QED
      BY <1>1, <2>1, <2>2, <2>3, <2>4
         DEF Next, Agent, Relay, Link, Tick, Sample, ReadFails, Finish, Apply, Evict, Offer, Connect, Disconnect,
             LoseWire, Change, relayVars
  <1>2. TypeInv /\ [Next]_vars => [conn /\ conn' => \A d \in Devices :
          (session[d] # None /\ session[d].held) => session'[d] # None]_vars
    BY <1>1
  <1> QED
    BY <1>2, TypesStart, TypesKeep, PTL DEF Spec, HeldSessionStays

----------------------------------------------------------------------------
(* What the relay shows was so. *)

\* The details of x were so, each at some time, of a device of which some was so.
Sighted(some, x) ==
  /\ \E r \in some \ {Absent} : r.name = x.name
  /\ \E r \in some \ {Absent} : r.ver = x.ver

WorldIsSeen == \A d \in Devices : world[d] \in seen[d]
OfferIsSeen == offer # None => \A d \in Devices : offer[d] # Absent => offer[d] \in seen[d]

\* A read of this connection has seen what was there since its list was read.
ReadIsSeen ==
  reading # None =>
    /\ reading.gen <= generation
    /\ conn /\ Current /\ reading.got # None =>
         \A d \in Devices : reading.got[d] # Absent => reading.got[d] \in seen[d]

ShownIsSighted == conn => \A d \in Devices :
  /\ sent[d] # Absent => Sighted(seen[d], sent[d])
  /\ session[d] # None => Sighted(seen[d], session[d].rep)

WireIsSighted == conn => \A i \in 1..Len(wire), d \in Devices :
  wire[i][d] # Absent => Sighted(seen[d], wire[i][d])

RealInv == WorldIsSeen /\ OfferIsSeen /\ ReadIsSeen /\ ShownIsSighted /\ WireIsSighted

LEMMA SightedParts ==
  ASSUME NEW some, NEW more, some \subseteq more, NEW x
  PROVE  /\ Sighted(some, x) => Sighted(more, x)
         /\ x \in some /\ x # Absent => Sighted(some, x)
  BY DEF Sighted

LEMMA KeptIsSighted ==
  ASSUME NEW some, NEW r \in Entries, NEW s \in Entries, r # Absent, Sighted(some, r),
         s # Absent => Sighted(some, s)
  PROVE  Sighted(some, Kept(r, s))
  <1>1. CASE s = Absent \/ r.ver # NoVer
    BY <1>1, KeptParts
  <1>2. CASE s # Absent /\ r.ver = NoVer
    <2>1. Kept(r, s).name = r.name /\ Kept(r, s).ver = s.ver
      BY <1>2, KeptParts
    <2> QED
      BY <1>2, <2>1 DEF Sighted
  <1> QED
    BY <1>1, <1>2

LEMMA RealStart == Init => RealInv
  BY DEF Init, RealInv, WorldIsSeen, OfferIsSeen, ReadIsSeen, ShownIsSighted, WireIsSighted

\* The Mac changes: what was so stays so.
LEMMA RealChange ==
  ASSUME TypeInv, RealInv, NEW d \in Devices, Change(d)
  PROVE  RealInv'
  <1>1. /\ \A e \in Devices : seen[e] \subseteq seen'[e] /\ world'[e] \in seen'[e]
        /\ UNCHANGED <<conn, offer, agentVars, wire, session>>
    <2>1. PICK r : world' = [world EXCEPT ![d] = r] /\ seen' = [seen EXCEPT ![d] = @ \cup {r}]
      BY DEF Change
    <2> QED
      BY <2>1 DEF Change, relayVars, TypeInv, TypeOK, Lists, RealInv, WorldIsSeen
  <1>2. OfferIsSeen' /\ WorldIsSeen'
    BY <1>1 DEF RealInv, OfferIsSeen, WorldIsSeen
  <1>3. ReadIsSeen'
    BY <1>1 DEF RealInv, ReadIsSeen, Current, agentVars
  <1>4. \A e \in Devices : \A x : Sighted(seen[e], x) => Sighted(seen'[e], x)
    BY <1>1, SightedParts
  <1>5. ShownIsSighted' /\ WireIsSighted'
    BY <1>1, <1>4 DEF RealInv, ShownIsSighted, WireIsSighted, agentVars
  <1> QED
    BY <1>2, <1>3, <1>5 DEF RealInv

\* A step that changes neither the Mac nor what is sent or kept of it.
LEMMA RealRest ==
  ASSUME TypeInv, RealInv, UNCHANGED <<world, seen, sent, generation>>, conn' => conn,
         UNCHANGED offer \/ offer' = None,
         UNCHANGED reading \/ reading' = None,
         wire' = wire \/ wire' = <<>>,
         \A d \in Devices : session'[d] # None => session[d] # None /\ session'[d].rep = session[d].rep
  PROVE  RealInv'
  <1>1. WorldIsSeen' /\ OfferIsSeen' /\ ReadIsSeen'
    BY DEF RealInv, WorldIsSeen, OfferIsSeen, ReadIsSeen, Current
  <1>2. ShownIsSighted'
    BY DEF RealInv, ShownIsSighted
  <1>3. WireIsSighted'
    BY DEF RealInv, WireIsSighted
  <1> QED
    BY <1>1, <1>2, <1>3 DEF RealInv

LEMMA RealAgent ==
  ASSUME TypeInv, RealInv, Agent
  PROVE  RealInv'
  <1>1. CASE Tick
    <2>1. ReadIsSeen'
      BY <1>1 DEF Tick, ReadIsSeen, Current, TypeInv, TypeOK
    <2>2. WorldIsSeen' /\ OfferIsSeen' /\ ShownIsSighted' /\ WireIsSighted'
      BY <1>1 DEF Tick, RealInv, WorldIsSeen, OfferIsSeen, ShownIsSighted, WireIsSighted, relayVars
    <2> QED
      BY <2>1, <2>2 DEF RealInv
  <1>2. CASE Sample
    <2>1. PICK got \in Lists : Read(got) /\ reading' = [reading EXCEPT !.got = got]
      BY <1>2 DEF Sample
    <2>2. \A d \in Devices : got[d] # Absent => got[d] \in seen[d]
      BY <2>1, ReadIsList DEF TypeInv, TypeOK, RealInv, WorldIsSeen
    <2>3. reading'.gen = reading.gen /\ reading'.got = got /\ reading.gen <= generation
      BY <1>2, <2>1 DEF Sample, TypeInv, Readings, RealInv, ReadIsSeen
    <2>4. ReadIsSeen'
      BY <1>2, <2>2, <2>3 DEF Sample, ReadIsSeen, Current
    <2>5. WorldIsSeen' /\ OfferIsSeen' /\ ShownIsSighted' /\ WireIsSighted'
      BY <1>2 DEF Sample, RealInv, WorldIsSeen, OfferIsSeen, ShownIsSighted, WireIsSighted, relayVars
    <2> QED
      BY <2>4, <2>5 DEF RealInv
  <1>3. CASE ReadFails \/ Apply
    BY <1>3, RealRest DEF ReadFails, Apply, agentVars, relayVars
  <1>4. CASE Finish
    <2>1. CASE ~Current \/ ~conn
      BY <1>4, <2>1, RealRest DEF Finish, relayVars
    <2>2. CASE ~(~Current \/ ~conn) /\ ~Changed(NextList(reading.got))
      BY <1>4, <2>2, RealRest DEF Finish, relayVars
    <2>3. CASE ~(~Current \/ ~conn) /\ Changed(NextList(reading.got))
      <3> DEFINE got == reading.got  next == NextList(got)
      <3>0. got \in Lists /\ got # None
        BY <1>4 DEF Finish, TypeInv, Readings
      <3>1. /\ sent' = Baseline(next) /\ wire' = Append(wire, next) /\ reading' = None
            /\ UNCHANGED <<world, conn, offer, session, seen>>
        BY <1>4, <2>3 DEF Finish, relayVars
      <3>2. next \in Lists /\ sent \in Lists
        BY <3>0, NextListParts DEF TypeInv, TypeOK
      <3>3. ASSUME NEW d \in Devices, next[d] # Absent
            PROVE  Sighted(seen[d], next[d])
        <4>1. next[d] = sent[d] \/ next[d] = got[d]
          BY <3>0, <3>3, NextListParts DEF TypeInv, TypeOK
        <4>2. CASE next[d] = sent[d]
          BY <2>3, <3>3, <4>2 DEF RealInv, ShownIsSighted
        <4>3. CASE next[d] = got[d]
          <5>1. got[d] \in seen[d]
            BY <1>4, <2>3, <3>0, <3>3, <4>3 DEF Finish, RealInv, ReadIsSeen
          <5> QED
            BY <3>3, <4>3, <5>1, SightedParts
        <4> QED
          BY <4>1, <4>2, <4>3
      <3>4. ASSUME NEW d \in Devices, Baseline(next)[d] # Absent
            PROVE  Sighted(seen[d], Baseline(next)[d])
        <4>1. Baseline(next)[d] = Kept(next[d], sent[d]) /\ next[d] # Absent
          BY <3>0, <3>4, NextListParts DEF TypeInv, TypeOK
        <4>2. sent[d] # Absent => Sighted(seen[d], sent[d])
          BY <2>3 DEF RealInv, ShownIsSighted
        <4>3. next[d] \in Entries /\ sent[d] \in Entries
          BY <3>2, ListsAreEntries
        <4> HIDE DEF next
        <4> QED
          BY <3>3, <4>1, <4>2, <4>3, KeptIsSighted
      <3>5. wire \in Seq(Lists)
        BY DEF TypeInv, TypeOK
      <3> HIDE DEF next
      <3>6. ShownIsSighted'
        BY <3>1, <3>4 DEF RealInv, ShownIsSighted
      <3>7. WireIsSighted'
        <4>1. \A i \in 1..Len(wire') : wire'[i] = next \/ (i \in 1..Len(wire) /\ wire'[i] = wire[i])
          BY <3>1, <3>2, <3>5
        <4> QED
          BY <2>3, <3>1, <3>3, <4>1 DEF RealInv, WireIsSighted
      <3>8. WorldIsSeen' /\ OfferIsSeen' /\ ReadIsSeen'
        BY <3>1 DEF RealInv, WorldIsSeen, OfferIsSeen, ReadIsSeen
      <3> QED
        BY <3>6, <3>7, <3>8 DEF RealInv
    <2> QED
      BY <2>1, <2>2, <2>3
  <1> QED
    BY <1>1, <1>2, <1>3, <1>4 DEF Agent

LEMMA RealRelay ==
  ASSUME TypeInv, RealInv, Relay
  PROVE  RealInv'
  <1>1. CASE Deliver
    <2>1. UNCHANGED <<world, conn, offer, agentVars, seen>>
      BY <1>1 DEF Deliver
    <2>2. ShownIsSighted'
      <3>1. ASSUME conn, NEW d \in Devices, session'[d] # None
            PROVE  Sighted(seen[d], session'[d].rep)
        <4> DEFINE r == Head(wire)[d]
        <4>1. r \in Entries /\ session'[d] = Diffed(d, r)
          BY <1>1, DeliveredSessions, ListsAreEntries
        <4>2. r # Absent => Sighted(seen[d], r)
          BY <1>1, <3>1, DeliveredSessions DEF RealInv, WireIsSighted
        <4>3. session[d] # None => Sighted(seen[d], session[d].rep) /\ session[d].rep \in Entries /\ session[d].rep # Absent
          BY <3>1, ListAssumption DEF RealInv, ShownIsSighted, TypeInv, TypeOK, Sessions, Entries
        <4> HIDE DEF r
        <4>4. CASE r = Absent
          BY <3>1, <4>1, <4>3, <4>4, DiffedParts DEF TypeInv, TypeOK
        <4>5. CASE r # Absent /\ session[d] = None
          BY <3>1, <4>1, <4>2, <4>5, DiffedParts DEF TypeInv, TypeOK
        <4>6. CASE r # Absent /\ session[d] # None
          <5>1. session'[d].rep = Kept(r, session[d].rep)
            BY <4>1, <4>6, DiffedParts DEF TypeInv, TypeOK
          <5>2. Sighted(seen[d], Kept(r, session[d].rep))
            BY <4>1, <4>2, <4>3, <4>6, KeptIsSighted
          <5> QED
            BY <5>1, <5>2
        <4> QED
          BY <4>4, <4>5, <4>6
      <3> QED
        BY <2>1, <3>1 DEF RealInv, ShownIsSighted, agentVars
    <2>3. WireIsSighted'
      <3>1. \A i \in 1..Len(wire') : i + 1 \in 1..Len(wire) /\ wire'[i] = wire[i + 1]
        BY <1>1, DeliveredSessions
      <3> QED
        BY <2>1, <3>1 DEF RealInv, WireIsSighted
    <2>4. WorldIsSeen' /\ OfferIsSeen' /\ ReadIsSeen'
      BY <2>1 DEF RealInv, WorldIsSeen, OfferIsSeen, ReadIsSeen, Current, agentVars
    <2> QED
      BY <2>2, <2>3, <2>4 DEF RealInv
  <1>2. CASE Sweep
    <2>1. \A d \in Devices : session'[d] # None => session[d] # None /\ session'[d].rep = session[d].rep
      BY <1>2, SweptSessions
    <2> QED
      BY <1>2, <2>1, RealRest DEF Sweep, agentVars
  <1>3. CASE Evict
    <2>1. \A d \in Devices : session'[d] # None => session[d] # None /\ session'[d].rep = session[d].rep
      BY <1>3 DEF Evict
    <2> QED
      BY <1>3, <2>1, RealRest DEF Evict, agentVars
  <1>4. ASSUME NEW d \in Devices, Hold(d) \/ Free(d)
        PROVE  RealInv'
    <2>1. \A e \in Devices : session'[e] # None => session[e] # None /\ session'[e].rep = session[e].rep
      BY <1>4, HeldSessions
    <2> QED
      BY <1>4, <2>1, RealRest DEF Hold, Free, agentVars
  <1> QED
    BY <1>1, <1>2, <1>3, <1>4 DEF Relay

LEMMA RealLink ==
  ASSUME TypeInv, RealInv, Link
  PROVE  RealInv'
  <1>1. CASE Offer
    <2>1. PICK got \in Lists : Read(got) /\ offer' = got
      BY <1>1 DEF Offer
    <2>2. ~conn' /\ UNCHANGED <<world, agentVars>> /\ seen' = [d \in Devices |-> {world[d]}]
      BY <1>1 DEF Offer
    <2>3. WorldIsSeen' /\ OfferIsSeen'
      BY <2>1, <2>2, ReadIsList DEF WorldIsSeen, OfferIsSeen, TypeInv, TypeOK
    <2> QED
      BY <2>2, <2>3 DEF RealInv, ReadIsSeen, ShownIsSighted, WireIsSighted, agentVars
  <1>2. CASE Connect
    <2>1. \A d \in Devices : offer[d] # Absent => Sighted(seen[d], offer[d])
      BY <1>2, SightedParts DEF Connect, RealInv, OfferIsSeen
    <2>2. ShownIsSighted'
      BY <1>2, <2>1, RegisteredSessions DEF Connect, ShownIsSighted
    <2>3. WireIsSighted'
      BY <1>2 DEF Connect, WireIsSighted
    <2>4. WorldIsSeen' /\ OfferIsSeen'
      BY <1>2 DEF Connect, RealInv, WorldIsSeen, OfferIsSeen
    <2>5. ReadIsSeen'
      BY <1>2 DEF Connect, RealInv, ReadIsSeen, Current, TypeInv, TypeOK, Readings
    <2> QED
      BY <2>2, <2>3, <2>4, <2>5 DEF RealInv
  <1>3. CASE Disconnect
    <2>1. reading # None => reading.gen <= generation'
      BY <1>3 DEF Disconnect, RealInv, ReadIsSeen, TypeInv, TypeOK, Readings
    <2>2. ~conn' /\ UNCHANGED <<world, offer, reading, seen>>
      BY <1>3 DEF Disconnect
    <2> QED
      BY <2>1, <2>2 DEF RealInv, WorldIsSeen, OfferIsSeen, ReadIsSeen, ShownIsSighted, WireIsSighted
  <1>4. CASE LoseWire
    BY <1>4, RealRest DEF LoseWire, agentVars, relayVars
  <1> QED
    BY <1>1, <1>2, <1>3, <1>4 DEF Link

LEMMA RealKeeps ==
  ASSUME TypeInv, RealInv, [Next]_vars
  PROVE  RealInv'
  <1>1. CASE Next
    BY <1>1, RealChange, RealAgent, RealRelay, RealLink DEF Next
  <1>2. CASE UNCHANGED vars
    BY <1>2, RealRest DEF vars, agentVars, relayVars
  <1> QED
    BY <1>1, <1>2

\* What the relay shows of a device on a live connection was so since that connection's
\* own list was read: a read that outlived its connection is of an earlier generation
\* (DeviceListWatcher), and a list on a replaced socket is not taken.
THEOREM SentListsAreReal == Spec => []SentListIsReal
  <1>1. RealInv => SentListIsReal
    BY DEF RealInv, ShownIsSighted, Sighted, SentListIsReal
  <1> QED
    BY <1>1, TypesStart, TypesKeep, RealStart, RealKeeps, PTL DEF Spec

----------------------------------------------------------------------------
(* Once the wire is still, the relay and the watcher agree. *)

\* A baseline, and the sessions of a relay that has taken it.
Agree(base, some) == \A d \in Devices :
  /\ base[d] # Absent <=> some[d] # None /\ ~some[d].gone
  /\ base[d] # Absent => /\ some[d].rep.name = base[d].name
                         /\ base[d].ver # NoVer => some[d].rep.ver = base[d].ver

\* A list turns one baseline into the next; a device it drops had been missed twice.
TurnsInto(base, list, next, missed) == \A d \in Devices :
  /\ next[d] = Kept(list[d], base[d])
  /\ base[d] # Absent /\ next[d] = Absent => missed[d] = 2

\* The baselines the lists on the wire lead through, from what the relay has taken to
\* what the watcher holds it to.
Trail(b, lists, some, base, missed) ==
  /\ b \in [0..Len(lists) -> Lists]
  /\ Agree(b[0], some) /\ b[Len(lists)] = base
  /\ \A i \in 1..Len(lists) : TurnsInto(b[i - 1], lists[i], b[i], missed)

\* The marked devices have been missed.
MarkedIsMissed == \A d \in missing : misses[d] # 0

TrailInv ==
  /\ MarkedIsMissed
  /\ conn => \E b : Trail(b, wire, session, sent, misses)

LEMMA TrailStart == Init => TrailInv
  BY DEF Init, TrailInv, MarkedIsMissed

\* A list that is delivered takes the relay one baseline on.
LEMMA AgreeOn ==
  ASSUME TypeInv, Deliver, NEW base \in Lists, NEW next, NEW missed,
         Agree(base, session), TurnsInto(base, Head(wire), next, missed)
  PROVE  Agree(next, session')
  <1> SUFFICES ASSUME NEW d \in Devices
               PROVE  /\ next[d] # Absent <=> session'[d] # None /\ ~session'[d].gone
                      /\ next[d] # Absent => /\ session'[d].rep.name = next[d].name
                                             /\ next[d].ver # NoVer => session'[d].rep.ver = next[d].ver
    BY DEF Agree
  <1> DEFINE r == Head(wire)[d]  s == session[d]  x == Diffed(d, r)
  <1>1. r \in Entries /\ base[d] \in Entries /\ session'[d] = x
    BY DeliveredSessions, ListsAreEntries
  <1>2. s # None => s.rep \in Entries /\ s.rep # Absent
    BY ListAssumption DEF TypeInv, TypeOK, Sessions, Entries
  <1>3. /\ base[d] # Absent <=> s # None /\ ~s.gone
        /\ base[d] # Absent => s.rep.name = base[d].name /\ (base[d].ver # NoVer => s.rep.ver = base[d].ver)
    BY DEF Agree
  <1>4. next[d] = Kept(r, base[d])
    BY DEF TurnsInto
  <1>5. /\ r # Absent => /\ x # None /\ ~x.gone
                         /\ x.rep = IF s = None THEN r ELSE Kept(r, s.rep)
        /\ r = Absent /\ x # None => x.gone
    BY <1>1, DiffedParts DEF TypeInv, TypeOK
  <1> HIDE DEF r, s, x
  <1>6. CASE r = Absent
    BY <1>1, <1>4, <1>5, <1>6, KeptParts
  <1>7. CASE r # Absent /\ s = None
    BY <1>1, <1>3, <1>4, <1>5, <1>7, KeptParts
  <1>8. CASE r # Absent /\ s # None
    <2>1. x.rep = Kept(r, s.rep) /\ x # None /\ ~x.gone
      BY <1>5, <1>8
    <2>2. next[d] # Absent /\ x.rep.name = next[d].name
      BY <1>1, <1>2, <1>4, <1>8, <2>1, KeptParts
    <2>3. next[d].ver # NoVer => x.rep.ver = next[d].ver
      <3>1. CASE r.ver # NoVer
        BY <1>1, <1>2, <1>4, <1>8, <2>1, <3>1, KeptParts
      <3>2. CASE r.ver = NoVer /\ base[d] = Absent
        BY <1>1, <1>4, <1>8, <3>2, KeptParts
      <3>3. CASE r.ver = NoVer /\ base[d] # Absent
        <4>1. next[d].ver = base[d].ver /\ x.rep.ver = s.rep.ver
          BY <1>1, <1>2, <1>4, <1>8, <2>1, <3>3, KeptParts
        <4> QED
          BY <1>3, <3>3, <4>1
      <3> QED
        BY <3>1, <3>2, <3>3
    <2> QED
      BY <1>1, <2>1, <2>2, <2>3
  <1> QED
    BY <1>6, <1>7, <1>8

\* A list the watcher sends lengthens the trail.
LEMMA TrailFinish ==
  ASSUME TypeInv, TrailInv, Finish
  PROVE  TrailInv'
  <1>1. CASE ~Current \/ ~conn
    BY <1>1 DEF Finish, TrailInv, MarkedIsMissed, Trail, relayVars
  <1>2. CASE ~(~Current \/ ~conn)
    <2> DEFINE got == reading.got  next == NextList(got)  n == Len(wire)
    <2>0. got \in Lists /\ reading # None /\ wire \in Seq(Lists) /\ n \in Nat
      BY DEF Finish, TypeInv, TypeOK, Readings
    <2>1. /\ missing' = StillMissing(got)
          /\ misses' = [d \in Devices |-> IF misses[d] = 2 THEN 2 ELSE IF got[d] = Absent THEN misses[d] + 1 ELSE 0]
          /\ UNCHANGED <<conn, session>>
      BY <1>2 DEF Finish, relayVars
    <2>2. misses \in [Devices -> 0..2]
      BY DEF TypeInv, TypeOK
    <2>3. \A d \in Devices : (misses[d] = 2 => misses'[d] = 2) /\ (got[d] = Absent => misses'[d] # 0)
      BY <2>1, <2>2
    <2>4. MarkedIsMissed'
      <3>1. \A d \in StillMissing(got) : d \in Devices /\ got[d] = Absent
        BY <2>0, NextListParts DEF StillMissing, TypeInv, TypeOK
      <3> QED
        BY <2>1, <2>3, <3>1 DEF MarkedIsMissed
    <2>5. PICK b : Trail(b, wire, session, sent, misses)
      BY <1>2 DEF TrailInv
    <2>6. \A i \in 1..n : TurnsInto(b[i - 1], wire[i], b[i], misses')
      BY <2>3, <2>5 DEF Trail, TurnsInto
    <2>7. CASE ~Changed(next)
      <3>1. UNCHANGED <<sent, wire>>
        BY <1>2, <2>7 DEF Finish
      <3>2. Trail(b, wire, session, sent, misses')
        BY <2>5, <2>6 DEF Trail
      <3> QED
        BY <2>1, <2>4, <3>1, <3>2 DEF TrailInv
    <2>8. CASE Changed(next)
      <3> DEFINE base == Baseline(next)  w == Append(wire, next)
                 c == [i \in 0..(n + 1) |-> IF i <= n THEN b[i] ELSE base]
      <3>1. sent' = base /\ wire' = w
        BY <1>2, <2>8 DEF Finish
      <3>2. next \in Lists /\ base \in Lists
        BY <2>0, NextListParts DEF TypeInv, TypeOK
      <3>3. TurnsInto(sent, next, base, misses')
        <4> SUFFICES ASSUME NEW d \in Devices
                     PROVE  /\ base[d] = Kept(next[d], sent[d])
                            /\ sent[d] # Absent /\ base[d] = Absent => misses'[d] = 2
          BY DEF TurnsInto
        <4>1. base[d] = Kept(next[d], sent[d]) /\ (base[d] = Absent <=> next[d] = Absent)
              /\ (next[d] = Absent => got[d] = Absent /\ (sent[d] = Absent \/ d \in missing))
          BY <2>0, NextListParts DEF TypeInv, TypeOK
        <4>2. got[d] = Absent /\ d \in missing => misses'[d] = 2
          BY <2>1, <2>2 DEF TrailInv, MarkedIsMissed
        <4> QED
          BY <4>1, <4>2
      <3>4. /\ w \in Seq(Lists) /\ Len(w) = n + 1 /\ w[n + 1] = next
            /\ \A i \in 1..n : w[i] = wire[i]
        <4> HIDE DEF next
        <4> QED
          BY <2>0, <3>2
      <3> HIDE DEF base, w, next, n
      <3>5. b \in [0..n -> Lists] /\ Agree(b[0], session) /\ b[n] = sent
        BY <2>5 DEF Trail, n
      <3>6. /\ c \in [0..(n + 1) -> Lists] /\ c[0] = b[0] /\ c[n + 1] = base /\ c[n] = sent
            /\ \A i \in 1..n : c[i] = b[i] /\ c[i - 1] = b[i - 1]
        BY <2>0, <3>2, <3>5
      <3> HIDE DEF c
      <3>7. \A i \in 1..(n + 1) : TurnsInto(c[i - 1], w[i], c[i], misses')
        <4> TAKE i \in 1..(n + 1)
        <4>1. CASE i \in 1..n
          BY <2>6, <3>4, <3>6, <4>1
        <4>2. CASE i = n + 1
          <5>1. i - 1 = n
            BY <2>0, <4>2
          <5> QED
            BY <3>3, <3>4, <3>6, <4>2, <5>1
        <4> QED
          BY <2>0, <4>1, <4>2
      <3>8. Trail(c, w, session, base, misses')
        BY <3>4, <3>5, <3>6, <3>7 DEF Trail
      <3> QED
        BY <2>1, <2>4, <3>1, <3>8 DEF TrailInv
    <2> QED
      BY <2>7, <2>8
  <1> QED
    BY <1>1, <1>2

LEMMA TrailDeliver ==
  ASSUME TypeInv, TrailInv, Deliver
  PROVE  TrailInv'
  <1>0. UNCHANGED <<conn, sent, missing, misses>>
    BY DEF Deliver, agentVars
  <1>1. CASE ~conn
    BY <1>0, <1>1 DEF TrailInv, MarkedIsMissed
  <1>2. CASE conn
    <2> DEFINE n == Len(wire)  c(b) == [i \in 0..(n - 1) |-> b[i + 1]]
    <2>1. PICK b : Trail(b, wire, session, sent, misses)
      BY <1>2 DEF TrailInv
    <2>2. /\ n \in Nat /\ n # 0 /\ Len(wire') = n - 1 /\ Head(wire) = wire[1]
          /\ \A i \in 1..(n - 1) : wire'[i] = wire[i + 1]
      BY DeliveredSessions
    <2> HIDE DEF n
    <2>3. /\ b \in [0..n -> Lists] /\ Agree(b[0], session) /\ b[n] = sent
          /\ \A i \in 1..n : TurnsInto(b[i - 1], wire[i], b[i], misses)
      BY <2>1 DEF Trail, n
    <2>4. Agree(b[1], session')
      <3>1. b[0] \in Lists
        BY <2>2, <2>3
      <3>2. TurnsInto(b[0], wire[1], b[1], misses)
        <4>1. 1 \in 1..n /\ 1 - 1 = 0
          BY <2>2
        <4> QED
          BY <2>3, <4>1
      <3> QED
        BY <2>2, <2>3, <3>1, <3>2, AgreeOn
    <2>5. /\ c(b) \in [0..(n - 1) -> Lists] /\ c(b)[0] = b[1] /\ c(b)[n - 1] = sent
          /\ \A i \in 1..(n - 1) : c(b)[i] = b[i + 1] /\ c(b)[i - 1] = b[i]
      BY <2>2, <2>3
    <2>6. \A i \in 1..(n - 1) : i + 1 \in 1..n /\ (i + 1) - 1 = i
      BY <2>2
    <2> HIDE DEF c
    <2>7. \A i \in 1..(n - 1) : TurnsInto(c(b)[i - 1], wire'[i], c(b)[i], misses)
      BY <2>2, <2>3, <2>5, <2>6
    <2>8. Trail(c(b), wire', session', sent, misses)
      BY <2>2, <2>4, <2>5, <2>7 DEF Trail
    <2> QED
      BY <1>0, <2>8 DEF TrailInv, MarkedIsMissed
  <1> QED
    BY <1>1, <1>2

\* A step after which the relay still agrees with the same baselines.
LEMMA TrailRest ==
  ASSUME TrailInv, UNCHANGED <<conn, wire, sent, missing, misses>>,
         \A base : Agree(base, session) => Agree(base, session')
  PROVE  TrailInv'
  <1>1. CASE ~conn
    BY <1>1 DEF TrailInv, MarkedIsMissed
  <1>2. CASE conn
    <2>1. PICK b : Trail(b, wire, session, sent, misses)
      BY <1>2 DEF TrailInv
    <2>2. Trail(b, wire, session', sent, misses)
      BY <2>1 DEF Trail
    <2> QED
      BY <2>2 DEF TrailInv, MarkedIsMissed
  <1> QED
    BY <1>1, <1>2

LEMMA TrailConnect ==
  ASSUME TypeInv, Connect
  PROVE  TrailInv'
  <1> DEFINE b == [i \in 0..0 |-> offer]
  <1>1. /\ wire' = <<>> /\ sent' = offer /\ missing' = {} /\ misses' = [d \in Devices |-> 0] /\ offer \in Lists
    BY RegisteredSessions DEF Connect
  <1>2. Agree(offer, session')
    BY RegisteredSessions DEF Agree
  <1>3. Len(wire') = 0 /\ b[0] = offer /\ b \in [0..0 -> Lists]
    BY <1>1
  <1> HIDE DEF b
  <1>4. Trail(b, wire', session', sent', misses')
    BY <1>1, <1>2, <1>3 DEF Trail
  <1> QED
    BY <1>1, <1>4 DEF TrailInv, MarkedIsMissed

LEMMA TrailKeeps ==
  ASSUME TypeInv, TrailInv, [Next]_vars
  PROVE  TrailInv'
  <1>1. CASE Finish
    BY <1>1, TrailFinish
  <1>2. CASE Deliver
    BY <1>2, TrailDeliver
  <1>3. CASE Connect
    BY <1>3, TrailConnect
  <1>4. CASE Sweep
    <2>1. ASSUME NEW base, Agree(base, session)
          PROVE  Agree(base, session')
      BY <1>4, <2>1, SweptSessions DEF Agree
    <2> QED
      BY <1>4, <2>1, TrailRest DEF Sweep, agentVars
  <1>5. ASSUME NEW d \in Devices, Hold(d) \/ Free(d)
        PROVE  TrailInv'
    <2>1. ASSUME NEW base, Agree(base, session)
          PROVE  Agree(base, session')
      BY <1>5, <2>1, HeldSessions, ListAssumption DEF Agree
    <2> QED
      BY <1>5, <2>1, TrailRest DEF Hold, Free, agentVars
  <1>6. CASE Disconnect \/ LoseWire \/ Evict
    BY <1>6 DEF Disconnect, LoseWire, Evict, agentVars, TrailInv, MarkedIsMissed
  <1>7. CASE UNCHANGED <<conn, wire, sent, missing, misses, session>>
    BY <1>7, TrailRest
  <1> QED
    BY <1>1, <1>2, <1>3, <1>4, <1>5, <1>6, <1>7
       DEF Next, Agent, Relay, Link, Tick, Sample, ReadFails, Apply, Offer, Change, agentVars, relayVars, vars

\* What the agent knows after an answer.
After(known, answer) == (known \ answer.removed) \cup answer.added

\* What the agent will come to know, answer by answer, up to what the relay keeps.
Learns(k, answers, known, kept) ==
  /\ DOMAIN k = 0..Len(answers)
  /\ k[0] = known /\ k[Len(answers)] = kept
  /\ \A i \in 1..Len(answers) : k[i] = After(k[i - 1], answers[i])

KnowInv == conn => \E k : Learns(k, replies, knows, Pairs(session))

LEMMA KnowTold ==
  ASSUME TypeInv, KnowInv, Told, UNCHANGED <<conn, knows>>
  PROVE  KnowInv'
  <1>1. CASE ~conn
    BY <1>1 DEF KnowInv
  <1>2. CASE conn
    <2> DEFINE n == Len(replies)  p == Pairs(session)  q == Pairs(session')  a == Answer
    <2>1. PICK k : Learns(k, replies, knows, p)
      BY <1>2 DEF KnowInv
    <2>2. replies' = Append(replies, a)
      BY <1>2 DEF Told
    <2>3. a.removed = p \ q /\ a.added = q \ p
      BY DEF Answer
    <2>4. After(p, a) = q
      BY <2>3 DEF After
    <2>5. replies \in Seq(Answers) /\ n \in Nat
      BY DEF TypeInv
    <2>6. Len(replies') = n + 1 /\ replies'[n + 1] = a /\ \A i \in 1..n : replies'[i] = replies[i]
      <3> HIDE DEF a
      <3> QED
        BY <2>2, <2>5
    <2> DEFINE c == [i \in 0..(n + 1) |-> IF i <= n THEN k[i] ELSE q]
    <2> HIDE DEF n, p, q, a
    <2>7. DOMAIN k = 0..n /\ k[0] = knows /\ k[n] = p /\ \A i \in 1..n : k[i] = After(k[i - 1], replies[i])
      BY <2>1 DEF Learns, n
    <2>8. /\ DOMAIN c = 0..(n + 1) /\ c[0] = knows /\ c[n] = p /\ c[n + 1] = q
          /\ \A i \in 1..n : c[i] = k[i] /\ c[i - 1] = k[i - 1]
      BY <2>5, <2>7
    <2> HIDE DEF c
    <2>9. \A i \in 1..(n + 1) : c[i] = After(c[i - 1], replies'[i])
      <3> TAKE i \in 1..(n + 1)
      <3>1. CASE i \in 1..n
        BY <2>6, <2>7, <2>8, <3>1
      <3>2. CASE i = n + 1
        <4>1. i - 1 = n
          BY <2>5, <3>2
        <4> QED
          BY <2>4, <2>6, <2>8, <3>2, <4>1
      <3> QED
        BY <2>5, <3>1, <3>2
    <2>10. Learns(c, replies', knows, q)
      BY <2>6, <2>8, <2>9 DEF Learns
    <2> QED
      BY <2>10 DEF KnowInv, q
  <1> QED
    BY <1>1, <1>2

LEMMA KnowApply ==
  ASSUME TypeInv, KnowInv, Apply
  PROVE  KnowInv'
  <1>1. UNCHANGED <<conn, session>> /\ knows' = After(knows, Head(replies)) /\ replies' = Tail(replies)
    BY DEF Apply, After, relayVars
  <1>2. CASE ~conn
    BY <1>1, <1>2 DEF KnowInv
  <1>3. CASE conn
    <2> DEFINE n == Len(replies)  p == Pairs(session)
    <2>1. PICK k : Learns(k, replies, knows, p)
      BY <1>3 DEF KnowInv
    <2>2. /\ n \in Nat /\ n # 0 /\ Len(replies') = n - 1 /\ Head(replies) = replies[1]
          /\ \A i \in 1..(n - 1) : replies'[i] = replies[i + 1]
      <3>1. replies \in Seq(Answers) /\ replies # <<>>
        BY DEF Apply, TypeInv
      <3> QED
        BY <1>1, <3>1
    <2> DEFINE c == [i \in 0..(n - 1) |-> k[i + 1]]
    <2> HIDE DEF n, p
    <2>3. DOMAIN k = 0..n /\ k[0] = knows /\ k[n] = p /\ \A i \in 1..n : k[i] = After(k[i - 1], replies[i])
      BY <2>1 DEF Learns, n
    <2>4. k[1] = knows'
      <3>1. 1 \in 1..n /\ 1 - 1 = 0
        BY <2>2
      <3> QED
        BY <1>1, <2>2, <2>3, <3>1
    <2>5. /\ DOMAIN c = 0..(n - 1) /\ c[0] = k[1] /\ c[n - 1] = p
          /\ \A i \in 1..(n - 1) : c[i] = k[i + 1] /\ c[i - 1] = k[i] /\ i + 1 \in 1..n /\ (i + 1) - 1 = i
      BY <2>2, <2>3
    <2> HIDE DEF c
    <2>6. Learns(c, replies', knows', p)
      BY <2>2, <2>3, <2>4, <2>5 DEF Learns
    <2>7. p = Pairs(session')
      BY <1>1 DEF p
    <2> QED
      BY <2>6, <2>7 DEF KnowInv
  <1> QED
    BY <1>2, <1>3

\* A connection begins with the agent knowing what its register was told.
LEMMA KnowConnect ==
  ASSUME Connect
  PROVE  KnowInv'
  <1> DEFINE k == [i \in 0..0 |-> knows']
  <1>1. replies' = <<>> /\ knows' = Pairs(session')
    BY DEF Connect
  <1>2. Len(replies') = 0 /\ k[0] = knows' /\ DOMAIN k = 0..0
    BY <1>1
  <1> HIDE DEF k
  <1>3. Learns(k, replies', knows', Pairs(session'))
    BY <1>1, <1>2 DEF Learns
  <1> QED
    BY <1>3 DEF KnowInv

LEMMA KnowKeeps ==
  ASSUME TypeInv, KnowInv, [Next]_vars
  PROVE  KnowInv'
  <1>1. CASE Deliver \/ Sweep
    BY <1>1, KnowTold DEF Deliver, Sweep
  <1>2. CASE Apply
    BY <1>2, KnowApply
  <1>3. CASE Connect
    BY <1>3, KnowConnect
  <1>4. ASSUME NEW d \in Devices, Hold(d) \/ Free(d)
        PROVE  KnowInv'
    <2>1. Pairs(session') = Pairs(session)
      BY <1>4, HeldSessions, ListAssumption DEF Pairs
    <2> QED
      BY <1>4, <2>1 DEF Hold, Free, KnowInv
  <1>5. CASE Disconnect \/ Evict
    BY <1>5 DEF Disconnect, Evict, KnowInv
  <1>6. CASE UNCHANGED <<conn, replies, knows, session>>
    BY <1>6 DEF KnowInv
  <1> QED
    BY <1>1, <1>2, <1>3, <1>4, <1>5, <1>6
       DEF Next, Agent, Relay, Link, Tick, Sample, ReadFails, Finish, Offer, LoseWire, Change, agentVars, relayVars, vars

\* With the wire between them still, the relay's sessions are those of the watcher's
\* baseline, name for name and version for version, and the agent has a state for each:
\* through drops and registers, held sessions of devices that left, and devices that came
\* back, the watcher never keeps to itself what the relay lacks.
THEOREM ListsComeToAgree == Spec => []ListsAgree
  <1>1. Init => KnowInv
    BY DEF Init, KnowInv
  <1>2. TrailInv /\ TypeInv => RelayAgrees
    <2> SUFFICES ASSUME TrailInv, conn, wire = <<>> PROVE Agree(sent, session)
      BY DEF RelayAgrees, Agree
    <2>1. PICK b : Trail(b, wire, session, sent, misses)
      BY DEF TrailInv
    <2>2. Len(wire) = 0
      OBVIOUS
    <2> QED
      BY <2>1, <2>2 DEF Trail
  <1>3. KnowInv => AgentKnowsSessions
    <2> SUFFICES ASSUME KnowInv, conn, replies = <<>> PROVE knows = Pairs(session)
      BY DEF AgentKnowsSessions
    <2>1. PICK k : Learns(k, replies, knows, Pairs(session))
      BY DEF KnowInv
    <2>2. Len(replies) = 0
      OBVIOUS
    <2> QED
      BY <2>1, <2>2 DEF Learns
  <1>4. TypeInv /\ TrailInv /\ KnowInv => ListsAgree
    BY <1>2, <1>3 DEF ListsAgree
  <1> QED
    BY <1>1, <1>4, TypesStart, TypesKeep, TrailStart, TrailKeeps, KnowKeeps, PTL DEF Spec

\* On a live connection a session ends or is marked only for a device that two reads in
\* a row were without, however the lists that dropped it were delayed: missingOnce.
THEOREM OneMissIsForgiven == Spec => OneMissIsNotGone
  <1>1. ASSUME TypeInv, TrailInv, Next, conn, conn', NEW d \in Devices,
               session[d] # None, ~session[d].gone, session'[d] = None \/ session'[d].gone
        PROVE  misses[d] = 2
    <2>1. CASE Deliver
      <3>1. PICK b : Trail(b, wire, session, sent, misses)
        BY <1>1 DEF TrailInv
      <3>2. 1 \in 1..Len(wire) /\ 1 - 1 = 0 /\ 0 \in 0..Len(wire) /\ 1 \in 0..Len(wire)
        BY <1>1, <2>1, DeliveredSessions
      <3>3. TurnsInto(b[0], wire[1], b[1], misses) /\ Agree(b[0], session) /\ b[0] \in Lists
        BY <3>1, <3>2 DEF Trail
      <3>4. Head(wire) = wire[1] /\ Head(wire)[d] \in Entries /\ session'[d] = Diffed(d, Head(wire)[d])
        BY <1>1, <2>1, DeliveredSessions, ListsAreEntries
      <3>5. Head(wire)[d] = Absent
        BY <1>1, <3>4, DiffedParts DEF TypeInv, TypeOK
      <3>6. b[0][d] # Absent /\ b[0][d] \in Entries
        BY <1>1, <3>3, ListsAreEntries DEF Agree
      <3>7. b[1][d] = Absent
        BY <3>3, <3>4, <3>5, <3>6, KeptParts DEF TurnsInto
      <3> QED
        BY <3>3, <3>6, <3>7 DEF TurnsInto
    <2>2. CASE Sweep
      BY <1>1, <2>2, SweptSessions
    <2>3. CASE \E e \in Devices : Hold(e) \/ Free(e)
      BY <1>1, <2>3, HeldSessions, ListAssumption
    <2>4. CASE session' = session
      BY <1>1, <2>4
    <2> QED
      BY <1>1, <2>1, <2>2, <2>3, <2>4
         DEF Next, Agent, Relay, Link, Tick, Sample, ReadFails, Finish, Apply, Evict, Offer, Connect, Disconnect,
             LoseWire, Change, relayVars
  <1>2. TypeInv /\ TrailInv /\ [Next]_vars => [conn /\ conn' => \A d \in Devices :
          (session[d] # None /\ ~session[d].gone /\ (session'[d] = None \/ session'[d].gone)) => misses[d] = 2]_vars
    BY <1>1
  <1> QED
    BY <1>2, TypesStart, TypesKeep, TrailStart, TrailKeeps, PTL DEF Spec, OneMissIsNotGone

\* Both: no session is ended or marked on a live connection without two reads, and
\* none that somebody holds is ended.
THEOREM EndsAreAlwaysJust == Spec => EndsAreJust
  BY HeldSessionsStay, OneMissIsForgiven DEF EndsAreJust
=============================================================================
