------------------------ MODULE DeviceRequestsProofs ------------------------
(***************************************************************************)
(* Theorems about DeviceRequests, for every set of requests and builds and *)
(* every bound: each request is answered once and none is forgotten, the   *)
(* build an install is skipped for is on the device, and automation never  *)
(* takes a device a person brought up for its own.                         *)
(*                                                                         *)
(* A request is in one place at a time: in a frame to the agent, with the  *)
(* agent, or in the frame that answers it.  BootInv and InstallInv say so, *)
(* and what the relay remembers of it; RecordInv and OwnInv say what the   *)
(* relay's two records owe to a request's place.                           *)
(***************************************************************************)
EXTENDS DeviceRequests, TLAPS

-----------------------------------------------------------------------------
(* The frames on their way.                                                 *)

\* A frame of F is on its way in q; at most one is.
In(q, F)   == \E n \in 1..Len(q) : q[n] \in F
Once(q, F) == \A m, n \in 1..Len(q) : q[m] \in F /\ q[n] \in F => m = n

BootAsks(b)       == [t : {"boot"}, b : {b}, erase : BOOLEAN, reset : BOOLEAN]
WipeAsks          == {m \in [t : {"boot"}, b : Boots, erase : BOOLEAN, reset : BOOLEAN] :
                        m.erase \/ m.reset}
InstallAsks(i)    == [t : {"install"}, i : {i}, build : Builds]
OtherBuilds(g)    == [t : {"install"}, i : Installs, build : Builds \ {g}]
BootAnswers(b)    == [t : {"ready"}, b : {b}, cold : BOOLEAN]
                       \cup [t : {"boot-error"}, b : {b}]
ColdReadies       == [t : {"ready"}, b : Boots, cold : {TRUE}]
InstallAnswers(i) == [t : {"installed"}, i : {i}, done : BOOLEAN]
Dones(i)          == [t : {"installed"}, i : {i}, done : {TRUE}]

AgentFrames ==
  [t : {"boot"}, b : Boots, erase : BOOLEAN, reset : BOOLEAN]
    \cup [t : {"install"}, i : Installs, build : Builds] \cup [t : {"shutdown"}]
RelayFrames ==
  [t : {"ready"}, b : Boots, cold : BOOLEAN] \cup [t : {"boot-error"}, b : Boots]
    \cup [t : {"installed"}, i : Installs, done : BOOLEAN]
    \cup [t : {"shutdown-done", "shutdown-error"}]

\* Where a boot is: asked of the agent, being carried out for a held session or
\* one cut off, answered.
Asked(b) == In(toAgent, BootAsks(b))
Busy(b)  == task[b] # NoTask /\ ~task[b].mute
Mute(b)  == task[b] # NoTask /\ task[b].mute
Told(b)  == In(toRelay, BootAnswers(b))
Live(b)  == Asked(b) \/ Told(b) \/ task[b] # NoTask

\* The same for an install.
InstallAsked(i) == In(toAgent, InstallAsks(i))
Placing(i)      == place[i].stage # "none"
InstallTold(i)  == In(toRelay, InstallAnswers(i))

-----------------------------------------------------------------------------
(* The inductive invariant.                                                 *)

TypeInv ==
  /\ TypeOK
  /\ toAgent \in Seq(AgentFrames) /\ toRelay \in Seq(RelayFrames)

\* Without the link no boot is carried out for a session the agent holds, and one
\* that was cut off is never current again; only a full reset takes a device down.
LinkInv ==
  /\ link => up
  /\ ~link => \A b \in Boots : ~Busy(b)
  /\ \A b \in Boots : Mute(b) => cur # b
  /\ \A b \in Boots : task[b].stage \in {"stopping", "erasing"} => task[b].erase

\* A boot is in one place; it is tracked for as long as its caller is owed an
\* answer; and as long as the link holds, what is owed is on its way.
BootRight(b) ==
  /\ Once(toAgent, BootAsks(b)) /\ Once(toRelay, BootAnswers(b))
  /\ Asked(b) => task[b] = NoTask /\ ~Told(b)
  /\ task[b] # NoTask => ~Told(b)
  /\ b \in tracked => owed[b] \in {"open", "excused"}
  /\ owed[b] = "open" => b \in tracked
  /\ owed[b] # "twice"
  /\ owed[b] = "none" => task[b] = NoTask
  /\ owed[b] \in {"none", "answered"} => ~Asked(b) /\ ~Told(b) /\ ~Busy(b)
  /\ link /\ owed[b] = "open" => Asked(b) \/ Busy(b) \/ Told(b)

BootInv == \A b \in Boots : BootRight(b)

\* So is an install; who waits on the one under way is owed an answer, and as
\* long as the link holds the agent will send the one that answers them.
InstallRight(i) ==
  /\ Once(toAgent, InstallAsks(i)) /\ Once(toRelay, InstallAnswers(i))
  /\ InstallAsked(i) => ~Placing(i) /\ ~InstallTold(i)
  /\ Placing(i) => ~InstallTold(i)
  /\ i \in sess.going.waiters => owed[i] \in {"open", "excused"}
  /\ owed[i] = "open" => i \in sess.going.waiters
  /\ owed[i] # "twice"
  /\ owed[i] = "none" => ~InstallAsked(i) /\ ~Placing(i) /\ ~InstallTold(i)
  /\ sess.going.req = i => owed[i] # "none"
  /\ link /\ sess.going.req = i => InstallAsked(i) \/ Placing(i) \/ InstallTold(i)

InstallInv ==
  /\ \A i \in Installs : InstallRight(i)
  /\ sess.going.req = None => sess.going = NoInst

\* An install under way is the only one and meets no wipe, and the build that
\* is recorded is on the device with nothing about to change it.
RecordInv ==
  "install" \notin crossed =>
    /\ sess.going.req # None \/ sess.inst # None => ~Wiping
    /\ sess.inst # None => /\ app = sess.inst /\ sess.going.req = None
                           /\ \A i \in Installs : ~InstallAsked(i) /\ ~Placing(i)
    /\ sess.going.req # None =>
         /\ sess.going.build \in Builds
         /\ \A i \in Installs : InstallAsked(i) \/ Placing(i) => i = sess.going.req
         /\ ~In(toAgent, OtherBuilds(sess.going.build))
         /\ \A i \in Installs : Placing(i) => place[i].build = sess.going.build
         /\ \A i \in Installs : sess.going.req = i /\ In(toRelay, Dones(i))
                                  => app = sess.going.build

\* The record says that automation did not bring the device up, once a boot that
\* is still pending is undone.
NotAutomations(s) == IF s.pend = NoPend THEN s.last # "ai" ELSE s.pend.prev # "ai"

\* No answer on its way says that the device came up, nor will one.
NoneCold ==
  /\ ~In(toRelay, ColdReadies)
  /\ \A b \in Boots : task[b] # NoTask /\ task[b].stage \notin {"listing", "stopping"}
                       => ~task[b].cold /\ ~task[b].erase

\* A device of a person's is recorded as one, and nothing on its way takes that
\* back; the record of a boot that is not answered is its asker's.
OwnInv ==
  /\ sess.pend = NoPend <=> sess.pend.req = None
  /\ \A b \in Boots : owed[b] = "none" => sess.pend.req # b /\ sess.exp.req # b
  /\ "boot" \notin crossed =>
       /\ \A b, c \in Boots : Live(b) /\ Live(c) => b = c
       /\ theirs => /\ power \in {"on", "stopping"}
                    /\ NotAutomations(sess) /\ NoneCold
       /\ \A b \in Boots : Live(b) => /\ sess.pend.req = b => sess.last = asker[b]
                                      /\ sess.exp.req = b => sess.exp.by = asker[b]

IInv == TypeInv /\ LinkInv /\ BootInv /\ InstallInv /\ RecordInv /\ OwnInv

-----------------------------------------------------------------------------
(* Lemmas about queues.                                                     *)

LEMMA Nothing ==
  \A F : ~In(<<>>, F) /\ Once(<<>>, F)
  BY DEF In, Once

\* What is in a queue after a frame was added, and how often.
LEMMA InAppended ==
  ASSUME NEW S, NEW q \in Seq(S), NEW e \in S, NEW F
  PROVE  /\ In(Append(q, e), F) <=> (In(q, F) \/ e \in F)
         /\ Once(q, F) /\ (e \in F => ~In(q, F)) => Once(Append(q, e), F)
  <1> DEFINE r == Append(q, e)
  <1>1. /\ Len(q) \in Nat /\ Len(r) = Len(q) + 1 /\ r[Len(q) + 1] = e
        /\ \A n \in 1..Len(q) : r[n] = q[n]
    OBVIOUS
  <1> HIDE DEF r
  <1>2. In(r, F) <=> (In(q, F) \/ e \in F)
    BY <1>1 DEF In
  <1>3. Once(q, F) /\ (e \in F => ~In(q, F)) => Once(r, F)
    BY <1>1 DEF In, Once
  <1> QED
    BY <1>2, <1>3 DEF r

\* What is left once the first frame was taken.
LEMMA InTaken ==
  ASSUME NEW S, NEW q \in Seq(S), q # <<>>, NEW F
  PROVE  /\ Head(q) \in S /\ Tail(q) \in Seq(S)
         /\ In(q, F) <=> (Head(q) \in F \/ In(Tail(q), F))
         /\ Once(q, F) => Once(Tail(q), F) /\ (Head(q) \in F => ~In(Tail(q), F))
  <1> DEFINE r == Tail(q)
  <1>1. /\ Len(q) \in Nat \ {0} /\ Len(r) = Len(q) - 1 /\ Head(q) = q[1]
        /\ \A n \in 1..Len(r) : r[n] = q[n + 1] /\ n + 1 \in 1..Len(q)
        /\ r \in Seq(S) /\ q[1] \in S
    OBVIOUS
  <1> HIDE DEF r
  <1>2. In(q, F) <=> (Head(q) \in F \/ In(r, F))
    <2>1. ASSUME NEW n \in 1..Len(q), q[n] \in F, n # 1
          PROVE  In(r, F)
      <3>1. n - 1 \in 1..Len(r) /\ r[n - 1] = q[n]
        BY <2>1, <1>1
      <3> QED
        BY <2>1, <3>1 DEF In
    <2> QED
      BY <2>1, <1>1 DEF In
  <1>3. ASSUME Once(q, F) PROVE Once(r, F) /\ (Head(q) \in F => ~In(r, F))
    <2>1. ASSUME NEW m \in 1..Len(r), NEW n \in 1..Len(r), r[m] \in F, r[n] \in F
          PROVE  m = n
      <3>1. m + 1 = n + 1
        BY <1>1, <1>3, <2>1 DEF Once
      <3> QED
        BY <3>1
    <2>2. ASSUME Head(q) \in F, NEW n \in 1..Len(r), r[n] \in F
          PROVE  FALSE
      <3>1. n + 1 = 1
        BY <1>1, <1>3, <2>2 DEF Once
      <3> QED
        BY <3>1
    <2> QED
      BY <2>1, <2>2 DEF In, Once
  <1> QED
    BY <1>1, <1>2, <1>3 DEF r

\* Nothing that is asked of the agent changes but for a shutdown.
AgentSame ==
  /\ \A b \in Boots : (Asked(b)' <=> Asked(b))
                      /\ (Once(toAgent, BootAsks(b)) => Once(toAgent, BootAsks(b))')
  /\ \A i \in Installs : (InstallAsked(i)' <=> InstallAsked(i))
                         /\ (Once(toAgent, InstallAsks(i)) => Once(toAgent, InstallAsks(i))')
  /\ In(toAgent, WipeAsks)' <=> In(toAgent, WipeAsks)
  /\ \A g \in Builds : In(toAgent', OtherBuilds(g)) <=> In(toAgent, OtherBuilds(g))

\* Nothing that the agent answers changes but for a shutdown's answer.
RelaySame ==
  /\ \A b \in Boots : (Told(b)' <=> Told(b))
                      /\ (Once(toRelay, BootAnswers(b)) => Once(toRelay, BootAnswers(b))')
  /\ \A i \in Installs : /\ InstallTold(i)' <=> InstallTold(i)
                         /\ In(toRelay, Dones(i))' <=> In(toRelay, Dones(i))
                         /\ Once(toRelay, InstallAnswers(i)) => Once(toRelay, InstallAnswers(i))'
  /\ In(toRelay, ColdReadies)' <=> In(toRelay, ColdReadies)

LEMMA AgentUntouched ==
  toAgent' = toAgent => AgentSame
  BY DEF AgentSame, Asked, InstallAsked

LEMMA RelayUntouched ==
  toRelay' = toRelay => RelaySame
  BY DEF RelaySame, Told, InstallTold

\* A frame is in the sets its fields say.
LEMMA ShutdownFrame ==
  LET m == [t |-> "shutdown"] IN
  /\ m \in AgentFrames /\ m \notin WipeAsks
  /\ \A b \in Boots : m \notin BootAsks(b)
  /\ \A i \in Installs : m \notin InstallAsks(i)
  /\ \A g \in Builds : m \notin OtherBuilds(g)
  BY DEF AgentFrames, WipeAsks, BootAsks, InstallAsks, OtherBuilds

LEMMA BootFrame ==
  \A m \in AgentFrames : m.t = "boot" =>
    /\ m.b \in Boots /\ m.erase \in BOOLEAN /\ m.reset \in BOOLEAN
    /\ m \in WipeAsks <=> (m.erase \/ m.reset)
    /\ \A b \in Boots : m \in BootAsks(b) <=> m.b = b
    /\ \A i \in Installs : m \notin InstallAsks(i)
    /\ \A g \in Builds : m \notin OtherBuilds(g)
  BY DEF AgentFrames, WipeAsks, BootAsks, InstallAsks, OtherBuilds

LEMMA InstallFrame ==
  \A m \in AgentFrames : m.t = "install" =>
    /\ m.i \in Installs /\ m.build \in Builds
    /\ m \notin WipeAsks
    /\ \A b \in Boots : m \notin BootAsks(b)
    /\ \A i \in Installs : m \in InstallAsks(i) <=> m.i = i
    /\ \A g \in Builds : m \in OtherBuilds(g) <=> m.build # g
  BY DEF AgentFrames, WipeAsks, BootAsks, InstallAsks, OtherBuilds

LEMMA ShutdownAnswer ==
  \A m \in [t : {"shutdown-done", "shutdown-error"}] :
    /\ m \in RelayFrames /\ m \notin ColdReadies
    /\ \A b \in Boots : m \notin BootAnswers(b)
    /\ \A i \in Installs : m \notin InstallAnswers(i) /\ m \notin Dones(i)
  BY DEF RelayFrames, ColdReadies, BootAnswers, InstallAnswers, Dones

LEMMA ReadyAnswer ==
  ASSUME NEW c \in Boots, NEW cold \in BOOLEAN
  PROVE  LET m == [t |-> "ready", b |-> c, cold |-> cold] IN
         /\ m \in RelayFrames /\ (m \in ColdReadies <=> cold)
         /\ \A b \in Boots : m \in BootAnswers(b) <=> b = c
         /\ \A i \in Installs : m \notin InstallAnswers(i) /\ m \notin Dones(i)
  BY DEF RelayFrames, ColdReadies, BootAnswers, InstallAnswers, Dones

LEMMA ErrorAnswer ==
  ASSUME NEW c \in Boots
  PROVE  LET m == [t |-> "boot-error", b |-> c] IN
         /\ m \in RelayFrames /\ m \notin ColdReadies
         /\ \A b \in Boots : m \in BootAnswers(b) <=> b = c
         /\ \A i \in Installs : m \notin InstallAnswers(i) /\ m \notin Dones(i)
  BY DEF RelayFrames, ColdReadies, BootAnswers, InstallAnswers, Dones

LEMMA InstalledAnswer ==
  ASSUME NEW j \in Installs, NEW done \in BOOLEAN
  PROVE  LET m == [t |-> "installed", i |-> j, done |-> done] IN
         /\ m \in RelayFrames /\ m \notin ColdReadies
         /\ \A b \in Boots : m \notin BootAnswers(b)
         /\ \A i \in Installs : (m \in InstallAnswers(i) <=> i = j)
                                /\ (m \in Dones(i) <=> i = j /\ done)
  BY DEF RelayFrames, ColdReadies, BootAnswers, InstallAnswers, Dones

\* The model's own words for these sets.
LEMMA UnplacedIs ==
  TypeInv => Unplaced = {i \in Installs : Placing(i) \/ InstallAsked(i)}
  <1> SUFFICES ASSUME TypeInv, NEW i \in Installs
               PROVE  (\E n \in 1..Len(toAgent) : toAgent[n].t = "install" /\ toAgent[n].i = i)
                        <=> InstallAsked(i)
    BY DEF Unplaced, Placing
  <1>1. \A n \in 1..Len(toAgent) : toAgent[n] \in AgentFrames
    BY DEF TypeInv
  <1>2. \A m \in AgentFrames : m \in InstallAsks(i) <=> (m.t = "install" /\ m.i = i)
    BY DEF AgentFrames, InstallAsks
  <1> QED
    BY <1>1, <1>2 DEF InstallAsked, In

LEMMA UnansweredIs ==
  TypeInv => Unanswered = {b \in Boots : Live(b)}
  <1> SUFFICES ASSUME TypeInv, NEW b \in Boots
               PROVE  /\ (\E n \in 1..Len(toAgent) : toAgent[n].t = "boot" /\ toAgent[n].b = b)
                           <=> Asked(b)
                      /\ (\E n \in 1..Len(toRelay) :
                            toRelay[n].t \in {"ready", "boot-error"} /\ toRelay[n].b = b)
                           <=> Told(b)
    BY DEF Unanswered, Live
  <1>1. /\ \A n \in 1..Len(toAgent) : toAgent[n] \in AgentFrames
        /\ \A n \in 1..Len(toRelay) : toRelay[n] \in RelayFrames
    BY DEF TypeInv
  <1>2. \A m \in AgentFrames : m \in BootAsks(b) <=> (m.t = "boot" /\ m.b = b)
    BY DEF AgentFrames, BootAsks
  <1>3. \A m \in RelayFrames :
          m \in BootAnswers(b) <=> (m.t \in {"ready", "boot-error"} /\ m.b = b)
    BY DEF RelayFrames, BootAnswers
  <1> QED
    BY <1>1, <1>2, <1>3 DEF Asked, Told, In

LEMMA WipingIs ==
  TypeInv => (Wiping <=> \/ \E b \in Boots : task[b] # NoTask /\ (task[b].erase \/ task[b].reset)
                         \/ In(toAgent, WipeAsks))
  <1> SUFFICES ASSUME TypeInv
               PROVE  (\E n \in 1..Len(toAgent) :
                         toAgent[n].t = "boot" /\ (toAgent[n].erase \/ toAgent[n].reset))
                        <=> In(toAgent, WipeAsks)
    BY DEF Wiping
  <1>1. \A n \in 1..Len(toAgent) : toAgent[n] \in AgentFrames
    BY DEF TypeInv
  <1>2. \A m \in AgentFrames : m \in WipeAsks <=> (m.t = "boot" /\ (m.erase \/ m.reset))
    BY DEF AgentFrames, WipeAsks
  <1> QED
    BY <1>1, <1>2 DEF In

-----------------------------------------------------------------------------
(* The types of what the relay's helpers return.                            *)

PendType  == [req : Boots \cup {None}, prev : Kinds \cup {None}, late : BOOLEAN]
ExpType   == [req : Boots \cup {None}, by : Kinds \cup {None}]
GoingType == [req : Installs \cup {None}, build : Builds \cup {None},
              waiters : SUBSET Installs]
OwedType  == [Boots \cup Installs ->
                {"none", "sent", "open", "answered", "excused", "twice"}]

\* What of a session the invariants look at.
Looks(s) == <<s.pend, s.exp, s.last, s.inst, s.going>>

LEMMA NoneTypes ==
  /\ NoPend \in PendType /\ NoPend.req = None /\ NoPend.prev = None
  /\ NoExp \in ExpType /\ NoExp.req = None
  /\ NoInst \in GoingType /\ NoInst.req = None /\ NoInst.waiters = {} /\ NoInst.build = None
  BY DEF NoPend, NoExp, NoInst, PendType, ExpType, GoingType

LEMMA SessionParts ==
  \A s \in Session :
    /\ s.pend \in PendType /\ s.exp \in ExpType /\ s.going \in GoingType
    /\ s.last \in Kinds \cup {None} /\ s.inst \in Builds \cup {None}
    /\ s.holder \in Kinds \cup {None}
  BY DEF Session, PendType, ExpType, GoingType

\* Setting a field to something of its type.
LEMMA SessionSet ==
  ASSUME NEW s \in Session
  PROVE  /\ \A x \in PendType : [s EXCEPT !.pend = x] \in Session
         /\ \A x \in ExpType : [s EXCEPT !.exp = x] \in Session
         /\ \A x \in GoingType : [s EXCEPT !.going = x] \in Session
         /\ \A x \in Kinds \cup {None} : [s EXCEPT !.last = x] \in Session
         /\ \A x \in Builds \cup {None} : [s EXCEPT !.inst = x] \in Session
  BY DEF Session, PendType, ExpType, GoingType

LEMMA InstallDroppedIs ==
  ASSUME NEW s \in Session
  PROVE  /\ InstallDropped(s) \in Session
         /\ InstallDropped(s).going = NoInst
         /\ InstallDropped(s).inst = s.inst
         /\ InstallDropped(s).pend = s.pend /\ InstallDropped(s).exp = s.exp
         /\ InstallDropped(s).last = s.last
  <1>1. InstallDropped(s) \in Session
    BY SessionSet, NoneTypes DEF InstallDropped
  <1> QED
    BY <1>1 DEF InstallDropped, Session

LEMMA InstallForgottenIs ==
  ASSUME NEW s \in Session
  PROVE  /\ InstallForgotten(s) \in Session
         /\ InstallForgotten(s).going = NoInst
         /\ InstallForgotten(s).inst = None
         /\ InstallForgotten(s).pend = s.pend /\ InstallForgotten(s).exp = s.exp
         /\ InstallForgotten(s).last = s.last
  <1> DEFINE d == InstallDropped(s)
  <1>1. /\ d \in Session /\ d.going = NoInst /\ d.pend = s.pend /\ d.exp = s.exp
        /\ d.last = s.last
    BY InstallDroppedIs
  <1>2. InstallForgotten(s) = [d EXCEPT !.inst = None]
    BY DEF InstallForgotten
  <1> HIDE DEF d
  <1>3. [d EXCEPT !.inst = None] \in Session
    BY <1>1, SessionSet
  <1> QED
    BY <1>1, <1>2, <1>3 DEF Session

\* A boot's record is put back; any other stays.
LEMMA UndoneIs ==
  ASSUME NEW s \in Session, NEW b
  PROVE  /\ Undone(s, b) \in Session
         /\ Undone(s, b).inst = s.inst /\ Undone(s, b).going = s.going
         /\ Undone(s, b).exp = s.exp /\ Undone(s, b).holder = s.holder
         /\ \/ Undone(s, b) = s
            \/ /\ b # None /\ s.pend.req = b
               /\ Undone(s, b).last = s.pend.prev /\ Undone(s, b).pend = NoPend
         /\ (b # None /\ s.pend.req = b) => Undone(s, b).pend = NoPend
  <1>1. CASE b # None /\ s.pend.req = b
    <2> DEFINE u == [s EXCEPT !.last = s.pend.prev]
               v == [u EXCEPT !.pend = NoPend]
    <2>1. s.pend.prev \in Kinds \cup {None}
      BY SessionParts DEF PendType
    <2>2. u \in Session
      BY <2>1, SessionSet
    <2>3. v \in Session
      BY <2>2, SessionSet, NoneTypes
    <2>4. Undone(s, b) = v
      BY <1>1 DEF Undone, Session
    <2> QED
      BY <1>1, <2>3, <2>4 DEF Session
  <1>2. CASE ~(b # None /\ s.pend.req = b)
    <2>1. Undone(s, b) = s
      BY <1>2 DEF Undone
    <2> QED
      BY <1>2, <2>1
  <1> QED
    BY <1>1, <1>2

LEMMA RipenedType ==
  ASSUME NEW s \in Session
  PROVE  /\ Ripened(s) \in Session
         /\ Ripened(s).inst = s.inst /\ Ripened(s).going = s.going
         /\ Ripened(s).holder = s.holder
         /\ \/ Ripened(s) = s
            \/ /\ s.pend.late /\ s.last # None
               /\ Ripened(s) = Undone([s EXCEPT !.exp = [req |-> s.pend.req, by |-> s.last]],
                                      s.pend.req)
  <1> DEFINE e == [req |-> s.pend.req, by |-> s.last]
             u == [s EXCEPT !.exp = e]
  <1>1. e \in ExpType
    BY SessionParts DEF ExpType, PendType
  <1> HIDE DEF e
  <1>2. u \in Session
    BY <1>1, SessionSet
  <1>3. u.inst = s.inst /\ u.going = s.going /\ u.holder = s.holder
    BY DEF Session
  <1> HIDE DEF u
  <1>4. /\ Undone(u, s.pend.req) \in Session
        /\ Undone(u, s.pend.req).inst = s.inst /\ Undone(u, s.pend.req).going = s.going
        /\ Undone(u, s.pend.req).holder = s.holder
    BY <1>2, <1>3, UndoneIs
  <1>5. Ripened(s) = IF s.pend.late /\ s.last # None THEN Undone(u, s.pend.req) ELSE s
    BY DEF Ripened, u, e
  <1> QED
    BY <1>4, <1>5 DEF u, e

\* A record past its time is put back and remembered.
LEMMA RipenedIs ==
  ASSUME NEW s \in Session, s.pend = NoPend <=> s.pend.req = None
  PROVE  \/ Ripened(s) = s
         \/ /\ s.pend.req \in Boots /\ s.last # None
            /\ Ripened(s).exp = [req |-> s.pend.req, by |-> s.last]
            /\ Ripened(s).pend = NoPend /\ Ripened(s).last = s.pend.prev
  <1> SUFFICES ASSUME s.pend.late, s.last # None,
                      Ripened(s) = Undone([s EXCEPT !.exp = [req |-> s.pend.req, by |-> s.last]],
                                          s.pend.req)
               PROVE  /\ s.pend.req \in Boots
                      /\ Ripened(s).exp = [req |-> s.pend.req, by |-> s.last]
                      /\ Ripened(s).pend = NoPend /\ Ripened(s).last = s.pend.prev
    BY RipenedType
  <1>1. s.pend # NoPend
    BY DEF NoPend
  <1>2. s.pend.req \in Boots /\ s.pend.req # None
    BY <1>1, SessionParts DEF PendType
  <1> QED
    BY <1>2 DEF Undone, Session

LEMMA JoinedIs ==
  ASSUME NEW s \in Session, NEW k \in Kinds
  PROVE  /\ Joined(s, k) \in Session /\ Looks(Joined(s, k)) = Looks(s)
         /\ Joined(s, k).holder = k
  BY ZenonT(30) DEF Joined, Session, Looks, Kinds

\* A ready settles who brought the device up: the boot's asker when its record
\* stands, whoever it was before when it was up, and otherwise a guess.
LEMMA BootSettledIs ==
  ASSUME NEW s \in Session, NEW b \in Boots, NEW cold \in BOOLEAN
  PROVE  LET r == BootSettled(s, b, cold) IN
         /\ r \in Session
         /\ r.inst = s.inst /\ r.going = s.going /\ r.exp = s.exp
         /\ s.pend.req = b => /\ r.pend = NoPend
                              /\ r.last = IF cold THEN s.last ELSE s.pend.prev
         /\ s.pend.req # b /\ ~cold => r = s
         /\ s.pend.req # b /\ cold =>
              /\ r.last = IF s.exp.req = b THEN s.exp.by
                          ELSE IF s.holder = "ai" THEN "ai" ELSE "person"
              /\ r.pend.req = s.pend.req
              /\ s.pend = NoPend => r.pend = NoPend
              /\ s.pend # NoPend => r.pend.prev = r.last
  <1>1. CASE s.pend.req = b
    <2> DEFINE l == IF cold THEN s.last ELSE s.pend.prev
               u == [s EXCEPT !.last = l]
               v == [u EXCEPT !.pend = NoPend]
    <2>1. l \in Kinds \cup {None}
      BY SessionParts DEF PendType
    <2> HIDE DEF l
    <2>2. u \in Session
      BY <2>1, SessionSet
    <2>3. v \in Session
      BY <2>2, SessionSet, NoneTypes
    <2>4. BootSettled(s, b, cold) = v
      BY <1>1 DEF BootSettled, Session, l
    <2>5. v.inst = s.inst /\ v.going = s.going /\ v.exp = s.exp /\ v.pend = NoPend /\ v.last = l
      BY DEF Session
    <2> QED
      BY <1>1, <2>3, <2>4, <2>5 DEF l
  <1>2. CASE s.pend.req # b /\ ~cold
    BY <1>2 DEF BootSettled
  <1>3. CASE s.pend.req # b /\ cold
    <2> DEFINE by == IF s.exp.req = b THEN s.exp.by
                     ELSE IF s.holder = "ai" THEN "ai" ELSE "person"
               p == [s.pend EXCEPT !.prev = IF s.pend = NoPend THEN @ ELSE by]
               u == [s EXCEPT !.last = by]
               v == [u EXCEPT !.pend = p]
    <2>1. by \in Kinds \cup {None}
      BY SessionParts DEF ExpType, Kinds
    <2>2. BootSettled(s, b, cold) = [s EXCEPT !.last = by,
                                     !.pend.prev = IF s.pend = NoPend THEN @ ELSE by]
      BY <1>3 DEF BootSettled
    <2> HIDE DEF by
    <2>3. /\ p \in PendType /\ p.req = s.pend.req
          /\ s.pend = NoPend => p = NoPend
          /\ s.pend # NoPend => p.prev = by
      BY <2>1, SessionParts DEF PendType, NoPend
    <2>4. u \in Session
      BY <2>1, SessionSet
    <2>5. BootSettled(s, b, cold) = v
      BY <2>2 DEF Session
    <2> HIDE DEF p
    <2>6. v \in Session
      BY <2>3, <2>4, SessionSet
    <2>7. v.inst = s.inst /\ v.going = s.going /\ v.exp = s.exp /\ v.pend = p /\ v.last = by
      BY DEF Session
    <2> HIDE DEF v
    <2> QED
      BY <1>3, <2>3, <2>5, <2>6, <2>7 DEF by
  <1> QED
    BY <1>1, <1>2, <1>3

\* A boot that goes out cold is recorded as the holder's, over what was recorded
\* before; one that wipes takes the record of the build away.
LEMMA ForwardedIs ==
  ASSUME NEW s \in Session, NEW b \in Boots, NEW erase \in BOOLEAN, NEW reset \in BOOLEAN
  PROVE  LET r == Forwarded(s, b, erase, reset)
         IN  /\ r \in Session /\ r.exp = s.exp
             /\ erase \/ reset => r.going = NoInst /\ r.inst = None
             /\ ~(erase \/ reset) => r.going = s.going /\ r.inst = s.inst
             /\ \/ /\ r.last = s.holder /\ r.pend.req = b /\ r.pend # NoPend
                   /\ r.pend.prev = IF s.pend = NoPend THEN s.last ELSE s.pend.prev
                \/ r.last = s.last /\ r.pend = s.pend
  <1> DEFINE cold == s.status # "booted" \/ erase
             p == [req |-> b, late |-> FALSE,
                   prev |-> IF s.pend = NoPend THEN s.last ELSE s.pend.prev]
             u == [s EXCEPT !.last = s.holder]
             s1 == IF cold THEN [u EXCEPT !.pend = p] ELSE s
             s2 == [s1 EXCEPT !.again = IF @ = "no" THEN "yes" ELSE @]
  <1>1. /\ p \in PendType /\ p.req = b
        /\ p.prev = IF s.pend = NoPend THEN s.last ELSE s.pend.prev
    BY SessionParts DEF PendType
  <1>2. cold => p # NoPend \/ None \in Boots
    BY <1>1 DEF NoPend
  <1>3. None \notin Boots
    BY RequestsAssumption
  <1> HIDE DEF p
  <1>4. /\ s1 \in Session /\ s1.exp = s.exp /\ s1.going = s.going /\ s1.inst = s.inst
        /\ cold => s1.last = s.holder /\ s1.pend = p
        /\ ~cold => s1.last = s.last /\ s1.pend = s.pend
    <2>1. u \in Session
      BY SessionParts, SessionSet
    <2>2. [u EXCEPT !.pend = p] \in Session
      BY <1>1, <2>1, SessionSet
    <2> QED
      BY <2>2 DEF Session
  <1>5. Forwarded(s, b, erase, reset) = IF Wipes(erase, reset) THEN InstallForgotten(s2) ELSE s2
    <2>1. cold => [u EXCEPT !.pend = p]
                    = [s EXCEPT !.last = s.holder,
                                !.pend = [req |-> b, late |-> FALSE,
                                          prev |-> IF s.pend = NoPend THEN s.last
                                                   ELSE s.pend.prev]]
      BY DEF Session, p
    <2> QED
      BY <2>1 DEF Forwarded
  <1> HIDE DEF s1
  <1>6. s2 \in Session /\ Looks(s2) = Looks(s1)
    BY <1>4 DEF Session, Looks
  <1> HIDE DEF s2
  <1>7. /\ s2.exp = s.exp /\ s2.going = s.going /\ s2.inst = s.inst
        /\ s2.last = s1.last /\ s2.pend = s1.pend
    BY <1>4, <1>6 DEF Looks
  <1>8. /\ InstallForgotten(s2) \in Session /\ InstallForgotten(s2).going = NoInst
        /\ InstallForgotten(s2).inst = None /\ InstallForgotten(s2).exp = s2.exp
        /\ InstallForgotten(s2).last = s2.last /\ InstallForgotten(s2).pend = s2.pend
    BY <1>6, InstallForgottenIs
  <1> DEFINE r == Forwarded(s, b, erase, reset)
  <1>9. /\ r \in Session /\ r.exp = s.exp /\ r.last = s1.last /\ r.pend = s1.pend
        /\ erase \/ reset => r.going = NoInst /\ r.inst = None
        /\ ~(erase \/ reset) => r.going = s.going /\ r.inst = s.inst
    BY <1>5, <1>6, <1>7, <1>8 DEF Wipes
  <1> HIDE DEF r, cold
  <1>10. \/ /\ r.last = s.holder /\ r.pend.req = b /\ r.pend # NoPend
            /\ r.pend.prev = IF s.pend = NoPend THEN s.last ELSE s.pend.prev
         \/ r.last = s.last /\ r.pend = s.pend
    <2>1. CASE cold
      BY <2>1, <1>1, <1>2, <1>3, <1>4, <1>9
    <2>2. CASE ~cold
      BY <2>2, <1>4, <1>9
    <2> QED
      BY <2>1, <2>2
  <1> QED
    BY <1>9, <1>10 DEF r

\* The rebind drops the install that was under way, and puts back the record of a
\* boot that will not be answered.
LEMMA ReboundIs ==
  ASSUME NEW s \in Session
  PROVE  /\ Rebound(s) \in Session
         /\ Rebound(s).going = NoInst /\ Rebound(s).inst = s.inst
         /\ Rebound(s).exp = s.exp
         /\ \/ Rebound(s).pend = s.pend /\ Rebound(s).last = s.last
            \/ /\ s.pend.req \in tracked /\ s.pend.req # None
               /\ Rebound(s).pend = NoPend /\ Rebound(s).last = s.pend.prev
  <1> DEFINE s1 == InstallDropped(s)
             s2 == IF s1.pend.req \in tracked THEN Undone(s1, s1.pend.req) ELSE s1
             x == CASE power = "on" -> "booted" [] OTHER -> "shutdown"
             r == [s2 EXCEPT !.status = x]
  <1>1. /\ s1 \in Session /\ s1.going = NoInst /\ s1.inst = s.inst /\ s1.pend = s.pend
        /\ s1.exp = s.exp /\ s1.last = s.last
    BY InstallDroppedIs
  <1>2. Rebound(s) = r
    BY DEF Rebound
  <1> HIDE DEF s1
  <1>3. /\ s2 \in Session /\ s2.going = NoInst /\ s2.inst = s.inst /\ s2.exp = s.exp
        /\ \/ s2.pend = s.pend /\ s2.last = s.last
           \/ /\ s.pend.req \in tracked /\ s.pend.req # None
              /\ s2.pend = NoPend /\ s2.last = s.pend.prev
    BY <1>1, UndoneIs
  <1>4. x \in {"shutdown", "unknown", "booted"}
    OBVIOUS
  <1> HIDE DEF s2, x
  <1>5. r \in Session /\ Looks(r) = Looks(s2)
    BY <1>3, <1>4 DEF Session, Looks
  <1> QED
    BY <1>2, <1>3, <1>5 DEF Looks

LEMMA AnsweredIs ==
  ASSUME NEW o \in OwedType, NEW R
  PROVE  /\ Answered(o, R) \in OwedType
         /\ \A q \in Boots \cup Installs :
              /\ q \notin R => Answered(o, R)[q] = o[q]
              /\ q \in R /\ o[q] = "open" => Answered(o, R)[q] = "answered"
              /\ q \in R /\ o[q] = "answered" => Answered(o, R)[q] = "twice"
              /\ q \in R /\ o[q] \notin {"open", "answered"} => Answered(o, R)[q] = o[q]
  BY DEF Answered, OwedType

LEMMA ExcusedIs ==
  ASSUME NEW o \in OwedType
  PROVE  /\ Excused(o) \in OwedType
         /\ \A q \in Boots \cup Installs :
              /\ o[q] \in {"open", "sent"} => Excused(o)[q] = "excused"
              /\ o[q] \notin {"open", "sent"} => Excused(o)[q] = o[q]
  BY DEF Excused, OwedType

-----------------------------------------------------------------------------
(* What an action does, as far as the invariants look.                      *)

\* The record of who brought the device up stays, or ripens.
SameRecord(s, t) ==
  /\ t.pend = NoPend <=> s.pend = NoPend
  /\ t.pend.req = s.pend.req /\ t.pend.prev = s.pend.prev
  /\ t.last = s.last /\ t.exp = s.exp
Ripens(s, t) ==
  /\ s.pend.req \in Boots /\ s.pend # NoPend
  /\ t.pend = NoPend /\ t.last = s.pend.prev
  /\ t.exp.req = s.pend.req /\ t.exp.by = s.last

\* The records of one session and another say the same of the device.
Alike(s, t) ==
  /\ t.inst = s.inst /\ t.going = s.going
  /\ SameRecord(s, t) \/ Ripens(s, t)

\* The device is no more a person's than it was.
DeviceMoves == theirs' => theirs /\ power' \in {"on", "stopping"}

\* A step that no boot and no install takes part in.
Aside ==
  /\ Alike(sess, sess')
  /\ AgentSame /\ RelaySame
  /\ UNCHANGED <<up, tracked, link, task, place, app, owed, asker, crossed>>
  /\ cur' \in {cur, None}
  /\ DeviceMoves \/ UNCHANGED <<theirs, power>>

\* A boot the agent carries out goes on, stops, or is done.
GoesOn(b) ==
  /\ task' = [task EXCEPT ![b] = task'[b]]
  /\ task[b] # NoTask /\ task'[b] # NoTask
  /\ task'[b].mute = task[b].mute
  /\ task'[b].erase = task[b].erase /\ task'[b].reset = task[b].reset
  /\ UNCHANGED cur /\ RelaySame
Stops(b) ==
  /\ task[b] # NoTask /\ task' = [task EXCEPT ![b] = NoTask]
  /\ cur' \in {cur, None}
  /\ IF Mute(b) THEN RelaySame
     ELSE toRelay' = IF link THEN Append(toRelay, [t |-> "boot-error", b |-> b]) ELSE toRelay
IsReady(b) ==
  /\ task[b] # NoTask /\ task' = [task EXCEPT ![b] = NoTask]
  /\ cur = b /\ UNCHANGED cur
  /\ task[b].stage = "opening"
  /\ toRelay' = IF link
                THEN Append(toRelay, [t |-> "ready", b |-> b,
                                      cold |-> task[b].cold \/ task[b].erase])
                ELSE toRelay
BootMoves(b) ==
  /\ UNCHANGED <<sess, up, tracked, link, place, toAgent, owed, asker, crossed>>
  /\ GoesOn(b) \/ Stops(b) \/ IsReady(b)
  /\ DeviceMoves \/ UNCHANGED <<theirs, power>>
  /\ theirs' /\ task'[b] # NoTask /\ task'[b].stage \notin {"listing", "stopping"}
       => IF task[b].stage \in {"listing", "stopping"}
          THEN power = "off" \/ (~task'[b].cold /\ ~task'[b].erase)
          ELSE task'[b].cold = task[b].cold
  /\ task'[b].stage \in {"stopping", "erasing"} => task[b].erase
  /\ app' = app \/ (app' = None /\ (task[b].erase \/ task[b].reset))

-----------------------------------------------------------------------------
(* Type correctness, and which step each action is.                         *)

\* Adding a frame to a queue and taking one keep its type.
LEMMA FrameAdded ==
  ASSUME TypeInv
  PROVE  /\ \A m \in AgentFrames : Append(toAgent, m) \in Seq(AgentFrames)
         /\ \A m \in RelayFrames : Append(toRelay, m) \in Seq(RelayFrames)
         /\ <<>> \in Seq(AgentFrames) /\ <<>> \in Seq(RelayFrames)
         /\ toAgent # <<>> => Head(toAgent) \in AgentFrames /\ Tail(toAgent) \in Seq(AgentFrames)
         /\ toRelay # <<>> => Head(toRelay) \in RelayFrames /\ Tail(toRelay) \in Seq(RelayFrames)
  BY DEF TypeInv

LEMMA InitTyped ==
  Init => TypeInv
  <1> SUFFICES ASSUME Init PROVE TypeInv
    OBVIOUS
  <1>1. Unheld \in Session
    BY NoneTypes DEF Unheld, Session, PendType, ExpType, GoingType
  <1>2. sess \in Session
    BY <1>1 DEF Init, Session
  <1> QED
    <2>1. /\ task \in [Boots -> BootTask \cup {NoTask}]
          /\ place \in [Installs -> [stage : {"none", "fetching", "placing"},
                                     build : Builds \cup {None}]]
          /\ owed \in [Boots \cup Installs ->
                          {"none", "sent", "open", "answered", "excused", "twice"}]
          /\ asker \in [Boots -> Kinds \cup {None}]
      BY DEF Init
    <2>2. toAgent \in Seq(AgentFrames) /\ toRelay \in Seq(RelayFrames)
      BY DEF Init
    <2>3. /\ up \in BOOLEAN /\ link \in BOOLEAN /\ off \in {"no", "asked", "done"}
          /\ tracked \subseteq Boots /\ cur \in Boots \cup {None}
          /\ power \in {"off", "booting", "on", "stopping"}
          /\ app \in Builds \cup {None} /\ theirs \in BOOLEAN
          /\ crossed \subseteq {"install", "boot"}
      BY DEF Init
    <2> QED
      BY <1>2, <2>1, <2>2, <2>3 DEF TypeInv, TypeOK

\* A shutdown that is sent, and one that is taken.
LEMMA ShutdownAsked ==
  ASSUME TypeInv, toAgent' = Append(toAgent, [t |-> "shutdown"])
  PROVE  AgentSame /\ toAgent' \in Seq(AgentFrames)
  <1>1. toAgent \in Seq(AgentFrames)
    BY DEF TypeInv
  <1> DEFINE m == [t |-> "shutdown"]
  <1>2. /\ m \in AgentFrames /\ m \notin WipeAsks
        /\ \A b \in Boots : m \notin BootAsks(b)
        /\ \A i \in Installs : m \notin InstallAsks(i)
        /\ \A g \in Builds : m \notin OtherBuilds(g)
    BY ShutdownFrame
  <1> HIDE DEF m
  <1>3. \A F : m \notin F => /\ In(Append(toAgent, m), F) <=> In(toAgent, F)
                             /\ Once(toAgent, F) => Once(Append(toAgent, m), F)
    BY <1>1, <1>2, InAppended
  <1>4. toAgent' = Append(toAgent, m)
    BY DEF m
  <1> QED
    BY <1>1, <1>2, <1>3, <1>4 DEF AgentSame, Asked, InstallAsked

LEMMA ShutdownTaken ==
  ASSUME TypeInv, toAgent # <<>>, Head(toAgent) = [t |-> "shutdown"], toAgent' = Tail(toAgent)
  PROVE  AgentSame /\ toAgent' \in Seq(AgentFrames)
  <1>1. toAgent \in Seq(AgentFrames)
    BY DEF TypeInv
  <1> DEFINE m == [t |-> "shutdown"]
  <1>2. /\ m \in AgentFrames /\ m \notin WipeAsks
        /\ \A b \in Boots : m \notin BootAsks(b)
        /\ \A i \in Installs : m \notin InstallAsks(i)
        /\ \A g \in Builds : m \notin OtherBuilds(g)
    BY ShutdownFrame
  <1>3. Head(toAgent) = m
    OBVIOUS
  <1> HIDE DEF m
  <1>4. \A F : m \notin F => /\ In(toAgent', F) <=> In(toAgent, F)
                             /\ Once(toAgent, F) => Once(toAgent', F)
    BY <1>1, <1>2, <1>3, InTaken
  <1> QED
    BY <1>1, <1>2, <1>4, InTaken DEF AgentSame, Asked, InstallAsked

\* The same of the answer.
LEMMA ShutdownAnswered ==
  ASSUME TypeInv, NEW m \in [t : {"shutdown-done", "shutdown-error"}],
         \/ toRelay' = Append(toRelay, m)
         \/ toRelay # <<>> /\ Head(toRelay) = m /\ toRelay' = Tail(toRelay)
  PROVE  RelaySame /\ toRelay' \in Seq(RelayFrames)
  <1>1. toRelay \in Seq(RelayFrames)
    BY DEF TypeInv
  <1>2. /\ m \in RelayFrames /\ m \notin ColdReadies
        /\ \A b \in Boots : m \notin BootAnswers(b)
        /\ \A i \in Installs : m \notin InstallAnswers(i) /\ m \notin Dones(i)
    BY ShutdownAnswer
  <1>3. \A F : m \notin F => /\ In(toRelay', F) <=> In(toRelay, F)
                             /\ Once(toRelay, F) => Once(toRelay', F)
    <2>1. CASE toRelay' = Append(toRelay, m)
      BY <2>1, <1>1, <1>2, InAppended
    <2>2. CASE toRelay # <<>> /\ Head(toRelay) = m /\ toRelay' = Tail(toRelay)
      BY <2>2, <1>1, <1>2, InTaken
    <2> QED
      BY <2>1, <2>2
  <1>4. toRelay' \in Seq(RelayFrames)
    BY <1>1, <1>2, InTaken
  <1> QED
    BY <1>2, <1>3, <1>4 DEF RelaySame, Told, InstallTold

LEMMA LooksAlike ==
  \A s, t \in Session : Looks(t) = Looks(s) => Alike(s, t)
  BY DEF Looks, Alike, SameRecord

\* A record that nobody's boot is in is NoPend.
PendNamed == sess.pend = NoPend <=> sess.pend.req = None

LEMMA RipenedAlike ==
  ASSUME TypeInv, PendNamed
  PROVE  Ripened(sess) \in Session /\ Alike(sess, Ripened(sess))
  <1>1. sess \in Session
    BY DEF TypeInv, TypeOK
  <1>2. /\ Ripened(sess) \in Session
        /\ Ripened(sess).inst = sess.inst /\ Ripened(sess).going = sess.going
    BY <1>1, RipenedType
  <1>3. SameRecord(sess, Ripened(sess)) \/ Ripens(sess, Ripened(sess))
    <2>1. None \notin Boots
      BY RequestsAssumption
    <2>2. CASE Ripened(sess) = sess
      BY <2>2 DEF SameRecord
    <2>3. CASE Ripened(sess) # sess
      <3>1. /\ sess.pend.req \in Boots
            /\ Ripened(sess).exp = [req |-> sess.pend.req, by |-> sess.last]
            /\ Ripened(sess).pend = NoPend /\ Ripened(sess).last = sess.pend.prev
        BY <2>3, <1>1, RipenedIs DEF PendNamed
      <3> QED
        BY <3>1, <2>1 DEF Ripens, PendNamed
    <2> QED
      BY <2>2, <2>3
  <1> QED
    BY <1>2, <1>3 DEF Alike

\* Who holds the session, and what runs beside its records, changes.
LEMMA SessionAside ==
  ASSUME TypeInv,
         \/ \E k \in Kinds : Join(k)
         \/ IdleUnsent \/ EvictionGraceEnds \/ RecordAges
  PROVE  TypeInv' /\ Aside
  <1>1. sess \in Session
    BY DEF TypeInv, TypeOK
  <1>2. sess' \in Session /\ Alike(sess, sess')
    <2>1. ASSUME NEW k \in Kinds, Join(k) PROVE sess' \in Session /\ Alike(sess, sess')
      BY <2>1, <1>1, JoinedIs, LooksAlike DEF Join
    <2>2. CASE IdleUnsent
      <3>1. sess' = [sess EXCEPT !.wait = "no", !.waited = FALSE]
        BY <2>2 DEF IdleUnsent
      <3>2. sess' \in Session
        BY <3>1, <1>1 DEF Session
      <3>3. Looks(sess') = Looks(sess)
        BY <3>1, <1>1 DEF Session, Looks
      <3> QED
        BY <3>2, <3>3, <1>1, LooksAlike
    <2>3. CASE EvictionGraceEnds
      <3>1. sess' \in Session /\ Looks(sess') = Looks(sess)
        BY <2>3, <1>1 DEF EvictionGraceEnds, Session, Looks
      <3> QED
        BY <3>1, <1>1, LooksAlike
    <2>4. CASE RecordAges
      <3> DEFINE p == [sess.pend EXCEPT !.late = TRUE]
      <3>1. /\ p \in PendType /\ p.req = sess.pend.req /\ p.prev = sess.pend.prev
            /\ p # NoPend /\ sess.pend # NoPend
        BY <2>4, <1>1, SessionParts DEF RecordAges, PendType, NoPend
      <3>2. sess' = [sess EXCEPT !.pend = p]
        BY <2>4, <1>1 DEF RecordAges, Session
      <3> HIDE DEF p
      <3>3. sess' \in Session
        BY <3>1, <3>2, <1>1, SessionSet
      <3>4. /\ sess'.inst = sess.inst /\ sess'.going = sess.going
            /\ sess'.last = sess.last /\ sess'.exp = sess.exp /\ sess'.pend = p
        BY <3>2, <1>1 DEF Session
      <3> QED
        BY <3>1, <3>3, <3>4 DEF Alike, SameRecord
    <2> QED
      BY <2>1, <2>2, <2>3, <2>4
  <1>3. UNCHANGED <<up, tracked, agentVars, toAgent, toRelay, power, app, owed, theirs, history>>
    BY DEF Join, IdleUnsent, EvictionGraceEnds, RecordAges
  <1>4. AgentSame /\ RelaySame
    BY <1>3, AgentUntouched, RelayUntouched
  <1>5. TypeInv'
    BY <1>2, <1>3 DEF TypeInv, TypeOK, agentVars, history
  <1> QED
    BY <1>2, <1>3, <1>4, <1>5 DEF Aside, agentVars, history

LEMMA CountedAside ==
  ASSUME TypeInv, PendNamed, CountedForAnother
  PROVE  TypeInv' /\ Aside
  <1>1. sess' \in Session /\ Alike(sess, sess')
    BY RipenedAlike DEF CountedForAnother
  <1>2. UNCHANGED <<up, tracked, agentVars, toAgent, toRelay, power, app, owed, theirs, history>>
    BY DEF CountedForAnother
  <1>3. AgentSame /\ RelaySame
    BY <1>2, AgentUntouched, RelayUntouched
  <1>4. TypeInv'
    BY <1>1, <1>2 DEF TypeInv, TypeOK, agentVars, history
  <1> QED
    BY <1>1, <1>2, <1>3, <1>4 DEF Aside, agentVars, history

\* A shutdown is sent: asked for, at the end of a countdown, or to make room.
LEMMA ShutdownAside ==
  ASSUME TypeInv, PendNamed, AskShutdown \/ IdleShutdown \/ Evict
  PROVE  TypeInv' /\ Aside
  <1>1. sess \in Session
    BY DEF TypeInv, TypeOK
  <1>2. sess' \in Session /\ Alike(sess, sess')
    <2>1. CASE AskShutdown
      <3>1. sess' \in Session /\ Looks(sess') = Looks(sess)
        BY <2>1, <1>1 DEF AskShutdown, Session, Looks
      <3> QED
        BY <3>1, <1>1, LooksAlike
    <2>2. CASE IdleShutdown
      <3>1. sess' = [sess EXCEPT !.wait = "no", !.waited = FALSE, !.again = "no"]
        BY <2>2 DEF IdleShutdown
      <3>2. sess' \in Session /\ Looks(sess') = Looks(sess)
        BY <3>1, <1>1 DEF Session, Looks
      <3> QED
        BY <3>2, <1>1, LooksAlike
    <2>3. CASE Evict
      <3> DEFINE s == Ripened(sess)
      <3>1. s \in Session /\ Alike(sess, s)
        BY RipenedAlike
      <3>2. sess' = [s EXCEPT !.evict = "fresh", !.status = "shutdown", !.again = "no"]
        BY <2>3 DEF Evict
      <3> HIDE DEF s
      <3>3. sess' \in Session /\ Looks(sess') = Looks(s)
        BY <3>1, <3>2 DEF Session, Looks
      <3>4. Alike(sess, sess')
        BY <3>1, <3>3 DEF Alike, SameRecord, Ripens, Looks
      <3> QED
        BY <3>3, <3>4
    <2> QED
      BY <2>1, <2>2, <2>3
  <1>3. SendShutdown
    BY DEF AskShutdown, IdleShutdown, Evict
  <1>4. AgentSame /\ toAgent' \in Seq(AgentFrames)
    BY <1>3, ShutdownAsked DEF SendShutdown
  <1>5. UNCHANGED <<up, tracked, agentVars, toRelay, power, app, owed, theirs, history>>
    BY <1>3 DEF SendShutdown
  <1>6. TypeInv'
    BY <1>2, <1>4, <1>5 DEF TypeInv, TypeOK, agentVars, history
  <1> QED
    BY <1>2, <1>4, <1>5, <1>6, RelayUntouched DEF Aside, agentVars, history

LEMMA ShutdownErrorAside ==
  ASSUME TypeInv, ShutdownError
  PROVE  TypeInv' /\ Aside
  <1>1. sess \in Session
    BY DEF TypeInv, TypeOK
  <1>2. sess' \in Session /\ Looks(sess') = Looks(sess)
    <2> DEFINE st == IF sess.evict = "no" THEN sess.status ELSE "booted"
               wd == sess.waited \/ (sess.undo /\ sess.again = "no" /\ sess.holder = None
                                                 /\ sess.wait # "no")
    <2>1. st \in {"shutdown", "unknown", "booted"} /\ wd \in BOOLEAN
      BY <1>1 DEF Session
    <2>2. sess' = [sess EXCEPT !.status = st, !.evict = "no", !.again = "none",
                               !.undo = FALSE, !.waited = wd]
      BY <1>1 DEF ShutdownError, Session
    <2> HIDE DEF st, wd
    <2> QED
      BY <1>1, <2>1, <2>2 DEF Session, Looks
  <1>3. Alike(sess, sess')
    BY <1>1, <1>2, LooksAlike
  <1>4. RelaySame /\ toRelay' \in Seq(RelayFrames)
    <2> DEFINE m == [t |-> "shutdown-error"]
    <2>1. m \in [t : {"shutdown-done", "shutdown-error"}]
      OBVIOUS
    <2>2. toRelay # <<>> /\ Head(toRelay) = m /\ toRelay' = Tail(toRelay)
      BY DEF ShutdownError, Received
    <2> HIDE DEF m
    <2> QED
      BY <2>1, <2>2, ShutdownAnswered
  <1>5. UNCHANGED <<up, tracked, agentVars, toAgent, power, app, owed, theirs, history>>
    BY DEF ShutdownError, Received
  <1>6. TypeInv'
    BY <1>2, <1>4, <1>5 DEF TypeInv, TypeOK, agentVars, history
  <1> QED
    BY <1>3, <1>4, <1>5, <1>6, AgentUntouched DEF Aside, agentVars, history

\* What the agent answers goes out as long as it has its link.
LEMMA ShutdownDelivered ==
  ASSUME TypeInv, NEW t \in {"shutdown-done", "shutdown-error"}, Deliver([t |-> t])
  PROVE  RelaySame /\ toRelay' \in Seq(RelayFrames)
  <1> DEFINE m == [t |-> t]
  <1>1. m \in [t : {"shutdown-done", "shutdown-error"}]
    OBVIOUS
  <1>2. toRelay' = IF link THEN Append(toRelay, m) ELSE toRelay
    BY DEF Deliver
  <1> HIDE DEF m
  <1>3. CASE link
    BY <1>1, <1>2, <1>3, ShutdownAnswered
  <1>4. CASE ~link
    BY <1>2, <1>4, RelayUntouched DEF TypeInv
  <1> QED
    BY <1>3, <1>4

\* The device goes up and down, and a shutdown is carried out.
LEMMA DeviceAside ==
  ASSUME TypeInv,
         \/ TakeShutdown \/ ShutdownLands \/ ShutdownFails
         \/ DeviceComesUp \/ DeviceGoesDown \/ GoesOffOutside
  PROVE  TypeInv' /\ Aside
  <1>1. sess \in Session
    BY DEF TypeInv, TypeOK
  <1>2. UNCHANGED <<sess, up, tracked, link, task, place, app, owed, asker, crossed>>
    BY DEF TakeShutdown, AtAgent, ShutdownLands, ShutdownFails, DeviceComesUp, DeviceGoesDown,
           GoesOffOutside, relayVars, agentVars, history
  <1>3. /\ AgentSame /\ RelaySame
        /\ toAgent' \in Seq(AgentFrames) /\ toRelay' \in Seq(RelayFrames)
    <2>1. CASE TakeShutdown
      <3>1. /\ toAgent # <<>> /\ Head(toAgent) = [t |-> "shutdown"]
            /\ toAgent' = Tail(toAgent) /\ toRelay' = toRelay
        BY <2>1 DEF TakeShutdown, AtAgent
      <3> QED
        BY <3>1, ShutdownTaken, RelayUntouched DEF TypeInv
    <2>2. CASE ShutdownLands
      <3>1. Deliver([t |-> "shutdown-done"]) /\ toAgent' = toAgent
        BY <2>2 DEF ShutdownLands
      <3> QED
        BY <3>1, ShutdownDelivered, AgentUntouched DEF TypeInv
    <2>3. CASE ShutdownFails
      <3>1. Deliver([t |-> "shutdown-error"]) /\ toAgent' = toAgent
        BY <2>3 DEF ShutdownFails
      <3> QED
        BY <3>1, ShutdownDelivered, AgentUntouched DEF TypeInv
    <2>4. CASE DeviceComesUp \/ DeviceGoesDown \/ GoesOffOutside
      <3>1. toRelay' = toRelay /\ toAgent' = toAgent
        BY <2>4 DEF DeviceComesUp, DeviceGoesDown, GoesOffOutside
      <3> QED
        BY <3>1, RelayUntouched, AgentUntouched DEF TypeInv
    <2> QED
      BY <2>1, <2>2, <2>3, <2>4
  <1>4. /\ DeviceMoves \/ UNCHANGED <<theirs, power>>
        /\ theirs' \in BOOLEAN /\ power' \in {"off", "booting", "on", "stopping"}
        /\ off' \in {"no", "asked", "done"} /\ cur' \in {cur, None}
    <2>0. theirs \in BOOLEAN /\ power \in {"off", "booting", "on", "stopping"}
          /\ off \in {"no", "asked", "done"}
      BY DEF TypeInv, TypeOK
    <2>1. CASE TakeShutdown
      BY <2>0, <2>1 DEF TakeShutdown, ToStop, DeviceMoves
    <2>2. CASE ShutdownLands \/ ShutdownFails
      BY <2>0, <2>2 DEF ShutdownLands, ShutdownFails, DeviceMoves
    <2>3. CASE DeviceComesUp \/ DeviceGoesDown \/ GoesOffOutside
      <3>1. CASE DeviceComesUp
        BY <2>0, <3>1 DEF DeviceComesUp, DeviceMoves, agentVars
      <3>2. CASE DeviceGoesDown
        BY <2>0, <3>2 DEF DeviceGoesDown, DeviceMoves
      <3>3. CASE GoesOffOutside
        BY <2>0, <3>3 DEF GoesOffOutside, DeviceMoves, agentVars
      <3> QED
        BY <2>3, <3>1, <3>2, <3>3
    <2> QED
      BY <2>1, <2>2, <2>3
  <1>5. TypeInv'
    BY <1>2, <1>3, <1>4 DEF TypeInv, TypeOK
  <1>6. Alike(sess, sess')
    BY <1>1, <1>2, LooksAlike
  <1> QED
    BY <1>2, <1>3, <1>4, <1>5, <1>6 DEF Aside

Stages == {"listing", "stopping", "erasing", "starting", "resetting", "opening"}
TaskType == [Boots -> BootTask \cup {NoTask}]

LEMMA TaskIs ==
  /\ NoTask.stage = "none"
  /\ \A t \in BootTask : t # NoTask /\ t.stage \in Stages /\ t.stage # "none"
                         /\ t.erase \in BOOLEAN /\ t.reset \in BOOLEAN
                         /\ t.cold \in BOOLEAN /\ t.mute \in BOOLEAN
  BY DEF NoTask, BootTask, Stages

\* A boot gives up, and says so unless it was cut off.
LEMMA StoppedIs ==
  ASSUME TypeInv, NEW b \in Boots, task[b] # NoTask, Stopped(b)
  PROVE  /\ Stops(b) /\ task'[b] = NoTask
         /\ task' \in TaskType /\ cur' \in Boots \cup {None}
         /\ toRelay' \in Seq(RelayFrames)
  <1>1. /\ task \in TaskType /\ cur \in Boots \cup {None} /\ toRelay \in Seq(RelayFrames)
    BY DEF TypeInv, TypeOK, TaskType
  <1>2. task' = [task EXCEPT ![b] = NoTask] /\ cur' \in {cur, None}
    BY DEF Stopped
  <1>3. task' \in TaskType /\ task'[b] = NoTask
    BY <1>1, <1>2 DEF TaskType
  <1>4. Mute(b) => toRelay' = toRelay /\ RelaySame
    BY RelayUntouched DEF Stopped, Mute
  <1>5. ~Mute(b) => toRelay' = IF link THEN Append(toRelay, [t |-> "boot-error", b |-> b])
                                ELSE toRelay
    BY DEF Stopped, Mute, Deliver
  <1>6. [t |-> "boot-error", b |-> b] \in RelayFrames
    BY ErrorAnswer
  <1>7. toRelay' \in Seq(RelayFrames)
    <2> DEFINE m == [t |-> "boot-error", b |-> b]
    <2>1. Append(toRelay, m) \in Seq(RelayFrames)
      BY <1>6, FrameAdded
    <2> HIDE DEF m
    <2> QED
      BY <1>1, <1>4, <1>5, <2>1 DEF m
  <1> QED
    BY <1>1, <1>2, <1>3, <1>4, <1>5, <1>7 DEF Stops

\* A boot goes on to its next stage.
LEMMA GoesIs ==
  ASSUME TypeInv, NEW b \in Boots, task[b] # NoTask, NEW stage \in Stages,
         NEW cold \in BOOLEAN,
         task' = [task EXCEPT ![b].stage = stage, ![b].cold = cold],
         UNCHANGED <<cur, toRelay>>
  PROVE  /\ GoesOn(b)
         /\ task'[b].stage = stage /\ task'[b].cold = cold
         /\ task'[b].erase = task[b].erase
         /\ task' \in TaskType /\ cur' \in Boots \cup {None}
         /\ toRelay' \in Seq(RelayFrames)
  <1>1. /\ task \in TaskType /\ cur \in Boots \cup {None} /\ toRelay \in Seq(RelayFrames)
    BY DEF TypeInv, TypeOK, TaskType
  <1>2. task[b] \in BootTask
    BY <1>1 DEF TaskType
  <1> DEFINE t == [task[b] EXCEPT !.stage = stage, !.cold = cold]
  <1>3. /\ t \in BootTask /\ t.stage = stage /\ t.cold = cold
        /\ t.erase = task[b].erase /\ t.reset = task[b].reset /\ t.mute = task[b].mute
    BY <1>2 DEF BootTask, Stages
  <1>4. task' = [task EXCEPT ![b] = t]
    BY <1>1 DEF TaskType
  <1> HIDE DEF t
  <1>5. task'[b] = t /\ task' \in TaskType
    BY <1>1, <1>3, <1>4 DEF TaskType
  <1>6. t # NoTask
    BY <1>3, TaskIs
  <1> QED
    BY <1>1, <1>3, <1>4, <1>5, <1>6, RelayUntouched DEF GoesOn

LEMMA GoesStage ==
  ASSUME TypeInv, NEW b \in Boots, task[b] # NoTask, NEW stage \in Stages, Goes(b, stage)
  PROVE  /\ GoesOn(b)
         /\ task'[b].stage = stage /\ task'[b].cold = task[b].cold
         /\ task'[b].erase = task[b].erase
         /\ task' \in TaskType /\ cur' \in Boots \cup {None}
         /\ toRelay' \in Seq(RelayFrames)
  <1>1. task \in TaskType /\ task[b] \in BootTask
    BY DEF TypeInv, TypeOK, TaskType
  <1>2. task[b].cold \in BOOLEAN
    BY <1>1, TaskIs
  <1>3. [task[b] EXCEPT !.stage = stage] = [task[b] EXCEPT !.stage = stage, !.cold = task[b].cold]
    BY <1>1 DEF BootTask
  <1>4. task' = [task EXCEPT ![b].stage = stage, ![b].cold = task[b].cold]
    BY <1>1, <1>3 DEF Goes, TaskType
  <1>5. UNCHANGED <<cur, toRelay>>
    BY DEF Goes
  <1> QED
    BY <1>2, <1>4, <1>5, GoesIs

\* What every step of a boot leaves alone.
LEMMA BootStepIs ==
  ASSUME TypeInv, NEW b \in Boots, NEW stage \in Stages, BootStep(b, stage)
  PROVE  /\ task[b] # NoTask /\ task[b] \in BootTask /\ task[b].stage = stage
         /\ UNCHANGED <<sess, up, tracked, link, place, off, toAgent, owed, asker, crossed, spent>>
  <1>1. task[b] \in BootTask \cup {NoTask} /\ task[b].stage = stage /\ stage # "none"
    BY DEF TypeInv, TypeOK, BootStep, Stages
  <1> QED
    BY <1>1, TaskIs DEF BootStep, relayVars, history

\* The boot's types, once the step has said what it does to the rest.
LEMMA BootStepTyped ==
  ASSUME TypeInv,
         UNCHANGED <<sess, up, tracked, link, place, off, toAgent, owed, asker, crossed, spent>>,
         task' \in TaskType, cur' \in Boots \cup {None}, toRelay' \in Seq(RelayFrames),
         power' \in {"off", "booting", "on", "stopping"}, theirs' \in BOOLEAN,
         app' \in Builds \cup {None}
  PROVE  TypeInv'
  BY DEF TypeInv, TypeOK, TaskType

\* What is asked of the device on a boot's behalf.
LEMMA AskedOfDevice ==
  ASSUME TypeInv, ToBoot \/ (ToStop /\ UNCHANGED theirs) \/ UNCHANGED <<power, theirs>>
  PROVE  /\ power' \in {"off", "booting", "on", "stopping"} /\ theirs' \in BOOLEAN
         /\ DeviceMoves \/ UNCHANGED <<theirs, power>>
         /\ ToBoot /\ theirs' => power = "on"
  <1>1. power \in {"off", "booting", "on", "stopping"} /\ theirs \in BOOLEAN
    BY DEF TypeInv, TypeOK
  <1>2. CASE ToBoot
    BY <1>1, <1>2 DEF ToBoot, DeviceMoves
  <1>3. CASE ToStop /\ UNCHANGED theirs
    BY <1>1, <1>3 DEF ToStop, DeviceMoves, ToBoot
  <1>4. CASE UNCHANGED <<power, theirs>>
    BY <1>1, <1>4 DEF ToBoot
  <1> QED
    BY <1>2, <1>3, <1>4

LEMMA ListsMoves ==
  ASSUME TypeInv, NEW b \in Boots, BootLists(b)
  PROVE  TypeInv' /\ BootMoves(b)
  <1>1. BootStep(b, "listing") /\ "listing" \in Stages /\ app' = app /\ app \in Builds \cup {None}
    BY DEF BootLists, Stages, TypeInv, TypeOK
  <1>2. /\ task[b] # NoTask /\ task[b] \in BootTask /\ task[b].stage = "listing"
        /\ UNCHANGED <<sess, up, tracked, link, place, off, toAgent, owed, asker, crossed, spent>>
    BY <1>1, BootStepIs
  <1>3. CASE ~Current(b)
    <2>1. Stopped(b) /\ UNCHANGED <<power, theirs>>
      BY <1>3 DEF BootLists
    <2>2. /\ Stops(b) /\ task'[b] = NoTask
          /\ task' \in TaskType /\ cur' \in Boots \cup {None}
          /\ toRelay' \in Seq(RelayFrames)
      BY <1>2, <2>1, StoppedIs
    <2>3. TypeInv'
      BY <1>1, <1>2, <2>1, <2>2, AskedOfDevice, BootStepTyped
    <2> QED
      BY <1>1, <1>2, <2>1, <2>2, <2>3, TaskIs DEF BootMoves
  <1>4. CASE Current(b)
    <2> DEFINE stage == IF task[b].erase THEN "stopping" ELSE "starting"
               cold == power # "on"
    <2>1. stage \in Stages /\ cold \in BOOLEAN
      BY DEF Stages
    <2>2. /\ task' = [task EXCEPT ![b].stage = stage, ![b].cold = cold]
          /\ UNCHANGED <<cur, toRelay>>
      <3>1. task \in TaskType
        BY DEF TypeInv, TypeOK, TaskType
      <3>2. /\ task' = [task EXCEPT ![b].cold = cold, ![b].stage = stage]
            /\ UNCHANGED <<cur, toRelay>>
        BY <1>4 DEF BootLists
      <3> HIDE DEF stage, cold
      <3>3. [task[b] EXCEPT !.cold = cold, !.stage = stage]
              = [task[b] EXCEPT !.stage = stage, !.cold = cold]
        BY <1>2 DEF BootTask
      <3> QED
        BY <3>1, <3>2, <3>3 DEF TaskType
    <2>3. IF task[b].erase THEN ToStop /\ UNCHANGED theirs ELSE ToBoot
      BY <1>4 DEF BootLists
    <2> HIDE DEF stage, cold
    <2>4. /\ GoesOn(b)
          /\ task'[b].stage = stage /\ task'[b].cold = cold
          /\ task'[b].erase = task[b].erase
          /\ task' \in TaskType /\ cur' \in Boots \cup {None}
          /\ toRelay' \in Seq(RelayFrames)
      BY <1>2, <2>1, <2>2, GoesIs
    <2>5. TypeInv'
      BY <1>1, <1>2, <2>3, <2>4, AskedOfDevice, BootStepTyped
    <2>6. DeviceMoves \/ UNCHANGED <<theirs, power>>
      BY <2>3, AskedOfDevice
    <2>7. task[b].erase \in BOOLEAN
      BY <1>2, TaskIs
    <2>8. CASE task[b].erase
      BY <1>1, <1>2, <2>4, <2>5, <2>6, <2>8 DEF BootMoves, stage
    <2>9. CASE ~task[b].erase
      BY <1>1, <1>2, <2>3, <2>4, <2>5, <2>6, <2>7, <2>9, AskedOfDevice DEF BootMoves, stage, cold
    <2> QED
      BY <2>7, <2>8, <2>9
  <1> QED
    BY <1>3, <1>4

LEMMA ErasesMoves ==
  ASSUME TypeInv, LinkInv, NEW b \in Boots, BootErases(b) \/ BootNotErased(b)
  PROVE  TypeInv' /\ BootMoves(b)
  <1>1. BootStep(b, "stopping") /\ {"stopping", "erasing"} \subseteq Stages /\ app \in Builds \cup {None}
    BY DEF BootErases, BootNotErased, Stages, TypeInv, TypeOK
  <1>2. /\ task[b] # NoTask /\ task[b] \in BootTask /\ task[b].stage = "stopping"
        /\ UNCHANGED <<sess, up, tracked, link, place, off, toAgent, owed, asker, crossed, spent>>
    BY <1>1, BootStepIs
  <1>3. task[b].erase
    BY <1>2 DEF LinkInv
  <1>4. app' \in {app, None}
    BY DEF BootErases, BootNotErased
  <1>5. ToBoot \/ UNCHANGED <<power, theirs>>
    BY DEF BootErases, BootNotErased
  <1>6. DeviceMoves \/ UNCHANGED <<theirs, power>>
    BY <1>5, AskedOfDevice
  <1>7. CASE Stopped(b)
    <2>1. /\ Stops(b) /\ task'[b] = NoTask
          /\ task' \in TaskType /\ cur' \in Boots \cup {None}
          /\ toRelay' \in Seq(RelayFrames)
      BY <1>2, <1>7, StoppedIs
    <2>2. TypeInv'
      BY <1>1, <1>2, <1>4, <1>5, <2>1, AskedOfDevice, BootStepTyped
    <2> QED
      BY <1>2, <1>3, <1>4, <1>6, <2>1, <2>2, TaskIs DEF BootMoves
  <1>8. CASE ~Stopped(b)
    <2>1. Goes(b, "erasing") /\ power = "off"
      BY <1>8 DEF BootErases, BootNotErased, StopOr
    <2>2. /\ GoesOn(b)
          /\ task'[b].stage = "erasing" /\ task'[b].erase = task[b].erase
          /\ task' \in TaskType /\ cur' \in Boots \cup {None}
          /\ toRelay' \in Seq(RelayFrames)
      BY <1>1, <1>2, <2>1, GoesStage
    <2>3. TypeInv'
      BY <1>1, <1>2, <1>4, <1>5, <2>2, AskedOfDevice, BootStepTyped
    <2> QED
      BY <1>2, <1>3, <1>4, <1>6, <2>1, <2>2, <2>3 DEF BootMoves
  <1> QED
    BY <1>7, <1>8

LEMMA StartsMoves ==
  ASSUME TypeInv, LinkInv, NEW b \in Boots, BootStarts(b)
  PROVE  TypeInv' /\ BootMoves(b)
  <1>1. /\ BootStep(b, "erasing") /\ {"erasing", "starting"} \subseteq Stages
        /\ app' = app /\ app \in Builds \cup {None} /\ ToBoot
    BY DEF BootStarts, Stages, TypeInv, TypeOK
  <1>2. /\ task[b] # NoTask /\ task[b] \in BootTask /\ task[b].stage = "erasing"
        /\ UNCHANGED <<sess, up, tracked, link, place, off, toAgent, owed, asker, crossed, spent>>
    BY <1>1, BootStepIs
  <1>3. DeviceMoves \/ UNCHANGED <<theirs, power>>
    BY <1>1, AskedOfDevice
  <1>4. CASE Stopped(b)
    <2>1. /\ Stops(b) /\ task'[b] = NoTask
          /\ task' \in TaskType /\ cur' \in Boots \cup {None}
          /\ toRelay' \in Seq(RelayFrames)
      BY <1>2, <1>4, StoppedIs
    <2>2. TypeInv'
      BY <1>1, <1>2, <2>1, AskedOfDevice, BootStepTyped
    <2> QED
      BY <1>1, <1>2, <1>3, <2>1, <2>2, TaskIs DEF BootMoves
  <1>5. CASE ~Stopped(b)
    <2>1. Goes(b, "starting")
      BY <1>5 DEF BootStarts, StopOr
    <2>2. /\ GoesOn(b)
          /\ task'[b].stage = "starting" /\ task'[b].cold = task[b].cold
          /\ task' \in TaskType /\ cur' \in Boots \cup {None}
          /\ toRelay' \in Seq(RelayFrames)
      BY <1>1, <1>2, <2>1, GoesStage
    <2>3. TypeInv'
      BY <1>1, <1>2, <2>2, AskedOfDevice, BootStepTyped
    <2> QED
      BY <1>1, <1>2, <1>3, <2>2, <2>3 DEF BootMoves
  <1> QED
    BY <1>4, <1>5

LEMMA SettlesMoves ==
  ASSUME TypeInv, NEW b \in Boots, BootSettles(b) \/ BootFails(b) \/ BootResets(b)
  PROVE  TypeInv' /\ BootMoves(b)
  <1>1. PICK stage \in {"starting", "resetting"} : BootStep(b, stage)
    BY DEF BootSettles, BootFails, BootResets
  <1>2. {"starting", "resetting", "opening"} \subseteq Stages /\ app \in Builds \cup {None}
    BY DEF Stages, TypeInv, TypeOK
  <1>3. /\ task[b] # NoTask /\ task[b] \in BootTask /\ task[b].stage = stage
        /\ UNCHANGED <<sess, up, tracked, link, place, off, toAgent, owed, asker, crossed, spent>>
    BY <1>1, <1>2, BootStepIs
  <1>4. /\ UNCHANGED <<power, theirs>>
        /\ app' = app \/ (app' = None /\ (task[b].erase \/ task[b].reset))
    BY DEF BootSettles, BootFails, BootResets
  <1>5. CASE Stopped(b)
    <2>1. /\ Stops(b) /\ task'[b] = NoTask
          /\ task' \in TaskType /\ cur' \in Boots \cup {None}
          /\ toRelay' \in Seq(RelayFrames)
      BY <1>3, <1>5, StoppedIs
    <2>2. TypeInv'
      BY <1>2, <1>3, <1>4, <2>1, AskedOfDevice, BootStepTyped
    <2> QED
      BY <1>3, <1>4, <2>1, <2>2, TaskIs DEF BootMoves
  <1>6. CASE ~Stopped(b)
    <2>1. PICK next \in {"resetting", "opening"} : Goes(b, next)
      BY <1>6 DEF BootSettles, BootFails, BootResets, StopOr
    <2>2. /\ GoesOn(b)
          /\ task'[b].stage = next /\ task'[b].cold = task[b].cold
          /\ task' \in TaskType /\ cur' \in Boots \cup {None}
          /\ toRelay' \in Seq(RelayFrames)
      BY <1>2, <1>3, <2>1, GoesStage
    <2>3. TypeInv'
      BY <1>2, <1>3, <1>4, <2>2, AskedOfDevice, BootStepTyped
    <2> QED
      BY <1>3, <1>4, <2>2, <2>3 DEF BootMoves
  <1> QED
    BY <1>5, <1>6

LEMMA ReadyMoves ==
  ASSUME TypeInv, NEW b \in Boots, BootReady(b)
  PROVE  TypeInv' /\ BootMoves(b)
  <1>1. /\ BootStep(b, "opening") /\ "opening" \in Stages
        /\ UNCHANGED <<power, app, theirs>> /\ app \in Builds \cup {None}
    BY DEF BootReady, Stages, TypeInv, TypeOK
  <1>2. /\ task[b] # NoTask /\ task[b] \in BootTask /\ task[b].stage = "opening"
        /\ UNCHANGED <<sess, up, tracked, link, place, off, toAgent, owed, asker, crossed, spent>>
    BY <1>1, BootStepIs
  <1>3. CASE ~Current(b)
    <2>1. Stopped(b)
      BY <1>3 DEF BootReady
    <2>2. /\ Stops(b) /\ task'[b] = NoTask
          /\ task' \in TaskType /\ cur' \in Boots \cup {None}
          /\ toRelay' \in Seq(RelayFrames)
      BY <1>2, <2>1, StoppedIs
    <2>3. TypeInv'
      BY <1>1, <1>2, <2>2, AskedOfDevice, BootStepTyped
    <2> QED
      BY <1>1, <1>2, <2>2, <2>3, TaskIs DEF BootMoves
  <1>4. CASE Current(b)
    <2> DEFINE cold == task[b].cold \/ task[b].erase
               m == [t |-> "ready", b |-> b, cold |-> cold]
    <2>1. cold \in BOOLEAN
      BY <1>2, TaskIs
    <2>2. /\ task' = [task EXCEPT ![b] = NoTask] /\ UNCHANGED cur /\ cur = b
          /\ toRelay' = IF link THEN Append(toRelay, m) ELSE toRelay
      BY <1>4 DEF BootReady, Deliver, Current
    <2>3. IsReady(b)
      BY <1>2, <2>2 DEF IsReady
    <2>4. task \in TaskType /\ cur \in Boots \cup {None}
      BY DEF TypeInv, TypeOK, TaskType
    <2>5. task' \in TaskType /\ task'[b] = NoTask
      BY <2>2, <2>4 DEF TaskType
    <2> HIDE DEF cold
    <2>6. m \in RelayFrames
      BY <2>1, ReadyAnswer
    <2> HIDE DEF m
    <2>7. toRelay' \in Seq(RelayFrames)
      BY <2>2, <2>6, FrameAdded DEF TypeInv
    <2>8. TypeInv'
      BY <1>1, <1>2, <2>2, <2>4, <2>5, <2>7, AskedOfDevice, BootStepTyped
    <2> QED
      BY <1>1, <1>2, <2>3, <2>5, <2>8, TaskIs DEF BootMoves
  <1> QED
    BY <1>3, <1>4

\* Each frame that is added or taken, and what that does to the places of requests.
LEMMA BootAdded ==
  ASSUME TypeInv, NEW b \in Boots, NEW erase \in BOOLEAN, NEW reset \in BOOLEAN,
         toAgent' = Append(toAgent, [t |-> "boot", b |-> b, erase |-> erase, reset |-> reset])
  PROVE  /\ toAgent' \in Seq(AgentFrames)
         /\ \A c \in Boots :
              /\ Asked(c)' <=> (Asked(c) \/ c = b)
              /\ Once(toAgent, BootAsks(c)) /\ ~(c = b /\ Asked(c)) => Once(toAgent', BootAsks(c))
         /\ \A i \in Installs :
              /\ InstallAsked(i)' <=> InstallAsked(i)
              /\ Once(toAgent, InstallAsks(i)) => Once(toAgent', InstallAsks(i))
         /\ In(toAgent', WipeAsks) <=> (In(toAgent, WipeAsks) \/ erase \/ reset)
         /\ \A g \in Builds : In(toAgent', OtherBuilds(g)) <=> In(toAgent, OtherBuilds(g))
  <1>1. toAgent \in Seq(AgentFrames)
    BY DEF TypeInv
  <1> DEFINE m == [t |-> "boot", b |-> b, erase |-> erase, reset |-> reset]
  <1>2. /\ m \in AgentFrames /\ (m \in WipeAsks <=> erase \/ reset)
        /\ \A c \in Boots : m \in BootAsks(c) <=> c = b
        /\ \A i \in Installs : m \notin InstallAsks(i)
        /\ \A g \in Builds : m \notin OtherBuilds(g)
    <2>1. m \in AgentFrames /\ m.t = "boot" /\ m.b = b /\ m.erase = erase /\ m.reset = reset
      BY DEF AgentFrames
    <2> HIDE DEF m
    <2> QED
      BY <2>1, BootFrame
  <1> HIDE DEF m
  <1>3. toAgent' = Append(toAgent, m)
    BY DEF m
  <1>4. \A F : /\ In(toAgent', F) <=> (In(toAgent, F) \/ m \in F)
               /\ Once(toAgent, F) /\ (m \in F => ~In(toAgent, F)) => Once(toAgent', F)
    BY <1>1, <1>2, <1>3, InAppended
  <1>5. toAgent' \in Seq(AgentFrames)
    BY <1>1, <1>2, <1>3
  <1> QED
    BY <1>2, <1>4, <1>5 DEF Asked, InstallAsked

LEMMA InstallAdded ==
  ASSUME TypeInv, NEW j \in Installs, NEW build \in Builds,
         toAgent' = Append(toAgent, [t |-> "install", i |-> j, build |-> build])
  PROVE  /\ toAgent' \in Seq(AgentFrames)
         /\ \A c \in Boots :
              /\ Asked(c)' <=> Asked(c)
              /\ Once(toAgent, BootAsks(c)) => Once(toAgent', BootAsks(c))
         /\ \A i \in Installs :
              /\ InstallAsked(i)' <=> (InstallAsked(i) \/ i = j)
              /\ Once(toAgent, InstallAsks(i)) /\ ~(i = j /\ InstallAsked(i))
                   => Once(toAgent', InstallAsks(i))
         /\ In(toAgent', WipeAsks) <=> In(toAgent, WipeAsks)
         /\ \A g \in Builds :
              In(toAgent', OtherBuilds(g)) <=> (In(toAgent, OtherBuilds(g)) \/ build # g)
  <1>1. toAgent \in Seq(AgentFrames)
    BY DEF TypeInv
  <1> DEFINE m == [t |-> "install", i |-> j, build |-> build]
  <1>2. /\ m \in AgentFrames /\ m \notin WipeAsks
        /\ \A c \in Boots : m \notin BootAsks(c)
        /\ \A i \in Installs : m \in InstallAsks(i) <=> i = j
        /\ \A g \in Builds : m \in OtherBuilds(g) <=> build # g
    <2>1. m \in AgentFrames /\ m.t = "install" /\ m.i = j /\ m.build = build
      BY DEF AgentFrames
    <2> HIDE DEF m
    <2> QED
      BY <2>1, InstallFrame
  <1> HIDE DEF m
  <1>3. toAgent' = Append(toAgent, m)
    BY DEF m
  <1>4. \A F : /\ In(toAgent', F) <=> (In(toAgent, F) \/ m \in F)
               /\ Once(toAgent, F) /\ (m \in F => ~In(toAgent, F)) => Once(toAgent', F)
    BY <1>1, <1>2, <1>3, InAppended
  <1>5. toAgent' \in Seq(AgentFrames)
    BY <1>1, <1>2, <1>3
  <1> QED
    BY <1>2, <1>4, <1>5 DEF Asked, InstallAsked

LEMMA BootTaken ==
  ASSUME TypeInv, toAgent # <<>>, Head(toAgent).t = "boot", toAgent' = Tail(toAgent)
  PROVE  LET m == Head(toAgent) IN
         /\ toAgent' \in Seq(AgentFrames)
         /\ m.b \in Boots /\ m.erase \in BOOLEAN /\ m.reset \in BOOLEAN
         /\ \A c \in Boots :
              /\ Asked(c) <=> (Asked(c)' \/ c = m.b)
              /\ Once(toAgent, BootAsks(c)) => /\ Once(toAgent', BootAsks(c))
                                               /\ c = m.b => ~Asked(c)'
         /\ \A i \in Installs :
              /\ InstallAsked(i)' <=> InstallAsked(i)
              /\ Once(toAgent, InstallAsks(i)) => Once(toAgent', InstallAsks(i))
         /\ In(toAgent, WipeAsks) <=> (In(toAgent', WipeAsks) \/ m.erase \/ m.reset)
         /\ \A g \in Builds : In(toAgent', OtherBuilds(g)) <=> In(toAgent, OtherBuilds(g))
  <1>1. toAgent \in Seq(AgentFrames)
    BY DEF TypeInv
  <1> DEFINE m == Head(toAgent)
  <1>2. /\ m \in AgentFrames /\ (m \in WipeAsks <=> m.erase \/ m.reset)
        /\ m.b \in Boots /\ m.erase \in BOOLEAN /\ m.reset \in BOOLEAN
        /\ \A c \in Boots : m \in BootAsks(c) <=> c = m.b
        /\ \A i \in Installs : m \notin InstallAsks(i)
        /\ \A g \in Builds : m \notin OtherBuilds(g)
    <2>1. m \in AgentFrames /\ m.t = "boot"
      BY <1>1, InTaken
    <2> HIDE DEF m
    <2> QED
      BY <2>1, BootFrame
  <1> HIDE DEF m
  <1>3. toAgent # <<>> /\ m = Head(toAgent) /\ toAgent' = Tail(toAgent)
    BY DEF m
  <1>4. \A F : /\ In(toAgent, F) <=> (m \in F \/ In(toAgent', F))
               /\ Once(toAgent, F) => Once(toAgent', F) /\ (m \in F => ~In(toAgent', F))
    BY <1>1, <1>3, InTaken
  <1>5. toAgent' \in Seq(AgentFrames)
    BY <1>1, <1>3, InTaken
  <1> QED
    BY <1>2, <1>4, <1>5 DEF Asked, InstallAsked, m

LEMMA InstallTaken ==
  ASSUME TypeInv, toAgent # <<>>, Head(toAgent).t = "install", toAgent' = Tail(toAgent)
  PROVE  LET m == Head(toAgent) IN
         /\ toAgent' \in Seq(AgentFrames)
         /\ m.i \in Installs /\ m.build \in Builds
         /\ \A c \in Boots :
              /\ Asked(c)' <=> Asked(c)
              /\ Once(toAgent, BootAsks(c)) => Once(toAgent', BootAsks(c))
         /\ \A i \in Installs :
              /\ InstallAsked(i) <=> (InstallAsked(i)' \/ i = m.i)
              /\ Once(toAgent, InstallAsks(i)) => /\ Once(toAgent', InstallAsks(i))
                                                  /\ i = m.i => ~InstallAsked(i)'
         /\ In(toAgent', WipeAsks) <=> In(toAgent, WipeAsks)
         /\ \A g \in Builds :
              In(toAgent, OtherBuilds(g)) <=> (In(toAgent', OtherBuilds(g)) \/ m.build # g)
  <1>1. toAgent \in Seq(AgentFrames)
    BY DEF TypeInv
  <1> DEFINE m == Head(toAgent)
  <1>2. /\ m \in AgentFrames /\ m \notin WipeAsks
        /\ m.i \in Installs /\ m.build \in Builds
        /\ \A c \in Boots : m \notin BootAsks(c)
        /\ \A i \in Installs : m \in InstallAsks(i) <=> i = m.i
        /\ \A g \in Builds : m \in OtherBuilds(g) <=> m.build # g
    <2>1. m \in AgentFrames /\ m.t = "install"
      BY <1>1, InTaken
    <2> HIDE DEF m
    <2> QED
      BY <2>1, InstallFrame
  <1> HIDE DEF m
  <1>3. toAgent # <<>> /\ m = Head(toAgent) /\ toAgent' = Tail(toAgent)
    BY DEF m
  <1>4. \A F : /\ In(toAgent, F) <=> (m \in F \/ In(toAgent', F))
               /\ Once(toAgent, F) => Once(toAgent', F) /\ (m \in F => ~In(toAgent', F))
    BY <1>1, <1>3, InTaken
  <1>5. toAgent' \in Seq(AgentFrames)
    BY <1>1, <1>3, InTaken
  <1> QED
    BY <1>2, <1>4, <1>5 DEF Asked, InstallAsked, m

LEMMA ReadyAdded ==
  ASSUME TypeInv, NEW b \in Boots, NEW cold \in BOOLEAN,
         toRelay' = Append(toRelay, [t |-> "ready", b |-> b, cold |-> cold])
  PROVE  /\ toRelay' \in Seq(RelayFrames)
         /\ \A c \in Boots :
              /\ Told(c)' <=> (Told(c) \/ c = b)
              /\ Once(toRelay, BootAnswers(c)) /\ ~(c = b /\ Told(c))
                   => Once(toRelay', BootAnswers(c))
         /\ \A i \in Installs :
              /\ InstallTold(i)' <=> InstallTold(i)
              /\ In(toRelay', Dones(i)) <=> In(toRelay, Dones(i))
              /\ Once(toRelay, InstallAnswers(i)) => Once(toRelay', InstallAnswers(i))
         /\ In(toRelay', ColdReadies) <=> (In(toRelay, ColdReadies) \/ cold)
  <1>1. toRelay \in Seq(RelayFrames)
    BY DEF TypeInv
  <1> DEFINE m == [t |-> "ready", b |-> b, cold |-> cold]
  <1>2. /\ m \in RelayFrames /\ (m \in ColdReadies <=> cold)
        /\ \A c \in Boots : m \in BootAnswers(c) <=> c = b
        /\ \A i \in Installs : m \notin InstallAnswers(i) /\ m \notin Dones(i)
    BY ReadyAnswer
  <1> HIDE DEF m
  <1>3. toRelay' = Append(toRelay, m)
    BY DEF m
  <1>4. \A F : /\ In(toRelay', F) <=> (In(toRelay, F) \/ m \in F)
               /\ Once(toRelay, F) /\ (m \in F => ~In(toRelay, F)) => Once(toRelay', F)
    BY <1>1, <1>2, <1>3, InAppended
  <1>5. toRelay' \in Seq(RelayFrames)
    BY <1>1, <1>2, <1>3
  <1> QED
    BY <1>2, <1>4, <1>5 DEF Told, InstallTold

LEMMA ReadyTaken ==
  ASSUME TypeInv, NEW b \in Boots, NEW cold \in BOOLEAN,
         toRelay # <<>>, Head(toRelay) = [t |-> "ready", b |-> b, cold |-> cold],
         toRelay' = Tail(toRelay)
  PROVE  /\ toRelay' \in Seq(RelayFrames)
         /\ \A c \in Boots :
              /\ Told(c) <=> (Told(c)' \/ c = b)
              /\ Once(toRelay, BootAnswers(c)) => /\ Once(toRelay', BootAnswers(c))
                                                  /\ c = b => ~Told(c)'
         /\ \A i \in Installs :
              /\ InstallTold(i)' <=> InstallTold(i)
              /\ In(toRelay', Dones(i)) <=> In(toRelay, Dones(i))
              /\ Once(toRelay, InstallAnswers(i)) => Once(toRelay', InstallAnswers(i))
         /\ In(toRelay, ColdReadies) <=> (In(toRelay', ColdReadies) \/ cold)
  <1>1. toRelay \in Seq(RelayFrames)
    BY DEF TypeInv
  <1> DEFINE m == [t |-> "ready", b |-> b, cold |-> cold]
  <1>2. /\ m \in RelayFrames /\ (m \in ColdReadies <=> cold)
        /\ \A c \in Boots : m \in BootAnswers(c) <=> c = b
        /\ \A i \in Installs : m \notin InstallAnswers(i) /\ m \notin Dones(i)
    BY ReadyAnswer
  <1> HIDE DEF m
  <1>3. toRelay # <<>> /\ m = Head(toRelay) /\ toRelay' = Tail(toRelay)
    BY DEF m
  <1>4. \A F : /\ In(toRelay, F) <=> (m \in F \/ In(toRelay', F))
               /\ Once(toRelay, F) => Once(toRelay', F) /\ (m \in F => ~In(toRelay', F))
    BY <1>1, <1>3, InTaken
  <1>5. toRelay' \in Seq(RelayFrames)
    BY <1>1, <1>3, InTaken
  <1> QED
    BY <1>2, <1>4, <1>5 DEF Told, InstallTold

LEMMA ErrorAdded ==
  ASSUME TypeInv, NEW b \in Boots,
         toRelay' = Append(toRelay, [t |-> "boot-error", b |-> b])
  PROVE  /\ toRelay' \in Seq(RelayFrames)
         /\ \A c \in Boots :
              /\ Told(c)' <=> (Told(c) \/ c = b)
              /\ Once(toRelay, BootAnswers(c)) /\ ~(c = b /\ Told(c))
                   => Once(toRelay', BootAnswers(c))
         /\ \A i \in Installs :
              /\ InstallTold(i)' <=> InstallTold(i)
              /\ In(toRelay', Dones(i)) <=> In(toRelay, Dones(i))
              /\ Once(toRelay, InstallAnswers(i)) => Once(toRelay', InstallAnswers(i))
         /\ In(toRelay', ColdReadies) <=> In(toRelay, ColdReadies)
  <1>1. toRelay \in Seq(RelayFrames)
    BY DEF TypeInv
  <1> DEFINE m == [t |-> "boot-error", b |-> b]
  <1>2. /\ m \in RelayFrames /\ m \notin ColdReadies
        /\ \A c \in Boots : m \in BootAnswers(c) <=> c = b
        /\ \A i \in Installs : m \notin InstallAnswers(i) /\ m \notin Dones(i)
    BY ErrorAnswer
  <1> HIDE DEF m
  <1>3. toRelay' = Append(toRelay, m)
    BY DEF m
  <1>4. \A F : /\ In(toRelay', F) <=> (In(toRelay, F) \/ m \in F)
               /\ Once(toRelay, F) /\ (m \in F => ~In(toRelay, F)) => Once(toRelay', F)
    BY <1>1, <1>2, <1>3, InAppended
  <1>5. toRelay' \in Seq(RelayFrames)
    BY <1>1, <1>2, <1>3
  <1> QED
    BY <1>2, <1>4, <1>5 DEF Told, InstallTold

LEMMA ErrorTaken ==
  ASSUME TypeInv, NEW b \in Boots,
         toRelay # <<>>, Head(toRelay) = [t |-> "boot-error", b |-> b],
         toRelay' = Tail(toRelay)
  PROVE  /\ toRelay' \in Seq(RelayFrames)
         /\ \A c \in Boots :
              /\ Told(c) <=> (Told(c)' \/ c = b)
              /\ Once(toRelay, BootAnswers(c)) => /\ Once(toRelay', BootAnswers(c))
                                                  /\ c = b => ~Told(c)'
         /\ \A i \in Installs :
              /\ InstallTold(i)' <=> InstallTold(i)
              /\ In(toRelay', Dones(i)) <=> In(toRelay, Dones(i))
              /\ Once(toRelay, InstallAnswers(i)) => Once(toRelay', InstallAnswers(i))
         /\ In(toRelay', ColdReadies) <=> In(toRelay, ColdReadies)
  <1>1. toRelay \in Seq(RelayFrames)
    BY DEF TypeInv
  <1> DEFINE m == [t |-> "boot-error", b |-> b]
  <1>2. /\ m \in RelayFrames /\ m \notin ColdReadies
        /\ \A c \in Boots : m \in BootAnswers(c) <=> c = b
        /\ \A i \in Installs : m \notin InstallAnswers(i) /\ m \notin Dones(i)
    BY ErrorAnswer
  <1> HIDE DEF m
  <1>3. toRelay # <<>> /\ m = Head(toRelay) /\ toRelay' = Tail(toRelay)
    BY DEF m
  <1>4. \A F : /\ In(toRelay, F) <=> (m \in F \/ In(toRelay', F))
               /\ Once(toRelay, F) => Once(toRelay', F) /\ (m \in F => ~In(toRelay', F))
    BY <1>1, <1>3, InTaken
  <1>5. toRelay' \in Seq(RelayFrames)
    BY <1>1, <1>3, InTaken
  <1> QED
    BY <1>2, <1>4, <1>5 DEF Told, InstallTold

LEMMA InstalledAdded ==
  ASSUME TypeInv, NEW j \in Installs, NEW done \in BOOLEAN,
         toRelay' = Append(toRelay, [t |-> "installed", i |-> j, done |-> done])
  PROVE  /\ toRelay' \in Seq(RelayFrames)
         /\ \A c \in Boots :
              /\ Told(c)' <=> Told(c)
              /\ Once(toRelay, BootAnswers(c)) => Once(toRelay', BootAnswers(c))
         /\ \A i \in Installs :
              /\ InstallTold(i)' <=> (InstallTold(i) \/ i = j)
              /\ In(toRelay', Dones(i)) <=> (In(toRelay, Dones(i)) \/ (i = j /\ done))
              /\ Once(toRelay, InstallAnswers(i)) /\ ~(i = j /\ InstallTold(i))
                   => Once(toRelay', InstallAnswers(i))
         /\ In(toRelay', ColdReadies) <=> In(toRelay, ColdReadies)
  <1>1. toRelay \in Seq(RelayFrames)
    BY DEF TypeInv
  <1> DEFINE m == [t |-> "installed", i |-> j, done |-> done]
  <1>2. /\ m \in RelayFrames /\ m \notin ColdReadies
        /\ \A c \in Boots : m \notin BootAnswers(c)
        /\ \A i \in Installs : /\ m \in InstallAnswers(i) <=> i = j
                               /\ m \in Dones(i) <=> (i = j /\ done)
    BY InstalledAnswer
  <1> HIDE DEF m
  <1>3. toRelay' = Append(toRelay, m)
    BY DEF m
  <1>4. \A F : /\ In(toRelay', F) <=> (In(toRelay, F) \/ m \in F)
               /\ Once(toRelay, F) /\ (m \in F => ~In(toRelay, F)) => Once(toRelay', F)
    BY <1>1, <1>2, <1>3, InAppended
  <1>5. toRelay' \in Seq(RelayFrames)
    BY <1>1, <1>2, <1>3
  <1> QED
    BY <1>2, <1>4, <1>5 DEF Told, InstallTold

LEMMA InstalledTaken ==
  ASSUME TypeInv, NEW j \in Installs, NEW done \in BOOLEAN,
         toRelay # <<>>, Head(toRelay) = [t |-> "installed", i |-> j, done |-> done],
         toRelay' = Tail(toRelay)
  PROVE  /\ toRelay' \in Seq(RelayFrames)
         /\ \A c \in Boots :
              /\ Told(c)' <=> Told(c)
              /\ Once(toRelay, BootAnswers(c)) => Once(toRelay', BootAnswers(c))
         /\ \A i \in Installs :
              /\ InstallTold(i) <=> (InstallTold(i)' \/ i = j)
              /\ In(toRelay, Dones(i)) <=> (In(toRelay', Dones(i)) \/ (i = j /\ done))
              /\ Once(toRelay, InstallAnswers(i)) => /\ Once(toRelay', InstallAnswers(i))
                                                     /\ i = j => ~InstallTold(i)'
         /\ In(toRelay', ColdReadies) <=> In(toRelay, ColdReadies)
  <1>1. toRelay \in Seq(RelayFrames)
    BY DEF TypeInv
  <1> DEFINE m == [t |-> "installed", i |-> j, done |-> done]
  <1>2. /\ m \in RelayFrames /\ m \notin ColdReadies
        /\ \A c \in Boots : m \notin BootAnswers(c)
        /\ \A i \in Installs : /\ m \in InstallAnswers(i) <=> i = j
                               /\ m \in Dones(i) <=> (i = j /\ done)
    BY InstalledAnswer
  <1> HIDE DEF m
  <1>3. toRelay # <<>> /\ m = Head(toRelay) /\ toRelay' = Tail(toRelay)
    BY DEF m
  <1>4. \A F : /\ In(toRelay, F) <=> (m \in F \/ In(toRelay', F))
               /\ Once(toRelay, F) => Once(toRelay', F) /\ (m \in F => ~In(toRelay', F))
    BY <1>1, <1>3, InTaken
  <1>5. toRelay' \in Seq(RelayFrames)
    BY <1>1, <1>3, InTaken
  <1> QED
    BY <1>2, <1>4, <1>5 DEF Told, InstallTold

-----------------------------------------------------------------------------
(* What the other actions do.                                               *)

OwedStays == UNCHANGED <<task, cur, place, link, power, app, theirs, asker, crossed>>

\* The holder goes: nobody is owed an answer any more.
LEMMA GoneIs ==
  ASSUME TypeInv, Drop \/ Leave
  PROVE  /\ TypeInv' /\ OwedStays /\ AgentSame /\ RelaySame
         /\ Alike(sess, sess') /\ up' = up
         /\ owed' = Excused(owed) /\ tracked' \in {tracked, {}}
  <1>1. sess \in Session /\ owed \in OwedType
    BY DEF TypeInv, TypeOK, OwedType
  <1>2. sess' \in Session /\ Looks(sess') = Looks(sess)
    <2>1. CASE Drop
      <3> DEFINE w == IF sess.holder = "person" THEN "person"
                      ELSE IF sess.wait = "no" THEN "ai" ELSE sess.wait
                 wd == sess.holder = "person" \/ (sess.waited /\ sess.wait = "person")
      <3>1. w \in {"no", "ai", "person"} /\ wd \in BOOLEAN
        BY <1>1 DEF Session
      <3>2. sess' = [sess EXCEPT !.holder = None, !.wait = w, !.waited = wd]
        BY <2>1, <1>1 DEF Drop, Session
      <3> HIDE DEF w, wd
      <3> QED
        BY <1>1, <3>1, <3>2 DEF Session, Looks
    <2>2. CASE Leave
      <3> DEFINE wd == sess.waited /\ sess.wait = "person"
      <3>1. wd \in BOOLEAN
        BY <1>1 DEF Session
      <3>2. sess' = [sess EXCEPT !.holder = None, !.waited = wd]
        BY <2>2, <1>1 DEF Leave, Session
      <3> HIDE DEF wd
      <3> QED
        BY <1>1, <3>1, <3>2 DEF Session, Looks
    <2> QED
      BY <2>1, <2>2
  <1>3. Alike(sess, sess')
    BY <1>1, <1>2, LooksAlike
  <1>4. /\ owed' = Excused(owed) /\ tracked' \in {tracked, {}}
        /\ UNCHANGED <<up, agentVars, toAgent, toRelay, power, app, theirs, history>>
    BY DEF Drop, Leave
  <1>5. Excused(owed) \in OwedType
    BY <1>1, ExcusedIs
  <1>6. TypeInv'
    BY <1>2, <1>4, <1>5 DEF TypeInv, TypeOK, OwedType, agentVars, history
  <1> QED
    BY <1>3, <1>4, <1>6, AgentUntouched, RelayUntouched DEF OwedStays, agentVars, history

LEMMA HoldEndsIs ==
  ASSUME TypeInv, HoldEnds
  PROVE  /\ TypeInv' /\ OwedStays /\ AgentSame /\ RelaySame /\ up' = up
         /\ sess'.pend = NoPend /\ sess'.exp = NoExp /\ sess'.last = None
         /\ sess'.inst = None /\ sess'.going = NoInst
         /\ owed' = Excused(owed) /\ tracked' = {}
  <1>1. owed \in OwedType
    BY DEF TypeInv, TypeOK, OwedType
  <1>2. Unheld \in Session
    BY NoneTypes DEF Unheld, Session, PendType, ExpType, GoingType
  <1>3. /\ sess' \in Session
        /\ sess'.pend = NoPend /\ sess'.exp = NoExp /\ sess'.last = None
        /\ sess'.inst = None /\ sess'.going = NoInst
    <2>1. sess' = [Unheld EXCEPT !.on = FALSE]
      BY DEF HoldEnds
    <2> QED
      BY <1>2, <2>1 DEF Session, Unheld
  <1>4. /\ owed' = Excused(owed) /\ tracked' = {}
        /\ UNCHANGED <<up, agentVars, toAgent, toRelay, power, app, theirs, history>>
    BY DEF HoldEnds
  <1>5. Excused(owed) \in OwedType
    BY <1>1, ExcusedIs
  <1>6. TypeInv'
    BY <1>3, <1>4, <1>5 DEF TypeInv, TypeOK, OwedType, agentVars, history
  <1> QED
    BY <1>3, <1>4, <1>6, AgentUntouched, RelayUntouched DEF OwedStays, agentVars, history

\* Only what one request is owed changes, and whether it is tracked.
OwedOnly(r, x) ==
  /\ UNCHANGED <<sess, up>> /\ OwedStays /\ AgentSame /\ RelaySame
  /\ owed' = [owed EXCEPT ![r] = x]

LEMMA RunsOutIs ==
  ASSUME TypeInv, NEW b \in Boots, RunsOut(b)
  PROVE  /\ TypeInv' /\ tracked' = tracked \ {b}
         /\ OwedOnly(b, IF owed[b] = "open" THEN "excused" ELSE owed[b])
  <1>1. owed \in OwedType
    BY DEF TypeInv, TypeOK, OwedType
  <1> DEFINE x == IF owed[b] = "open" THEN "excused" ELSE owed[b]
  <1>2. /\ owed' = [owed EXCEPT ![b] = x] /\ tracked' = tracked \ {b}
        /\ UNCHANGED <<sess, up, agentVars, toAgent, toRelay, power, app, theirs, history>>
    BY <1>1 DEF RunsOut, OwedType
  <1>3. owed' \in OwedType
    BY <1>1, <1>2 DEF OwedType
  <1>4. TypeInv'
    BY <1>2, <1>3 DEF TypeInv, TypeOK, OwedType, agentVars, history
  <1> QED
    BY <1>2, <1>4, AgentUntouched, RelayUntouched DEF OwedOnly, OwedStays, agentVars, history

\* The relay answers by itself: it has no agent to send a boot to.
LEMMA RefusedIs ==
  ASSUME TypeInv, NEW b \in Boots, NEW erase \in BOOLEAN, NEW reset \in BOOLEAN,
         SendBoot(b, erase, reset), ~up
  PROVE  /\ TypeInv' /\ UNCHANGED tracked
         /\ owed[b] = "none" /\ OwedOnly(b, "answered")
  <1>1. owed \in OwedType
    BY DEF TypeInv, TypeOK, OwedType
  <1>2. /\ owed' = [owed EXCEPT ![b] = "answered"] /\ owed[b] = "none"
        /\ UNCHANGED <<sess, up, tracked, agentVars, toAgent, toRelay, power, app, theirs, history>>
    BY DEF SendBoot, Fresh
  <1>3. owed' \in OwedType
    BY <1>1, <1>2 DEF OwedType
  <1>4. TypeInv'
    BY <1>2, <1>3 DEF TypeInv, TypeOK, OwedType, agentVars, history
  <1> QED
    BY <1>2, <1>4, AgentUntouched, RelayUntouched DEF OwedOnly, OwedStays, agentVars, history

\* A boot goes out, with the session's record as s has it.
Sends(s, b, erase, reset) ==
  /\ s \in Session /\ Alike(sess, s)
  /\ Forward(s, b, erase, reset)
  /\ owed[b] = "none"
  /\ UNCHANGED <<up, agentVars, toRelay, power, app, theirs>>

LEMMA BootSends ==
  ASSUME TypeInv, PendNamed, NEW b \in Boots, NEW erase \in BOOLEAN, NEW reset \in BOOLEAN,
         \/ SendBoot(b, erase, reset) /\ up
         \/ Lease(b, reset) /\ erase = FALSE
  PROVE  \E s : Sends(s, b, erase, reset)
  <1>1. sess \in Session /\ Alike(sess, sess)
    BY LooksAlike DEF TypeInv, TypeOK
  <1>2. Ripened(sess) \in Session /\ Alike(sess, Ripened(sess))
    BY RipenedAlike
  <1>3. CASE SendBoot(b, erase, reset) /\ up
    <2> DEFINE s == IF sess.holder = "ai" /\ (erase \/ sess.status # "booted")
                    THEN Ripened(sess) ELSE sess
    <2>1. s \in Session /\ Alike(sess, s)
      BY <1>1, <1>2
    <2>2. /\ Forward(s, b, erase, reset) /\ owed[b] = "none"
          /\ UNCHANGED <<up, agentVars, toRelay, power, app, theirs>>
      BY <1>3 DEF SendBoot, Fresh
    <2> HIDE DEF s
    <2> QED
      BY <2>1, <2>2 DEF Sends
  <1>4. CASE Lease(b, reset) /\ erase = FALSE
    <2> DEFINE r == Ripened(sess)
               s == Joined(r, "ai")
    <2>1. r \in Session /\ Alike(sess, r) /\ "ai" \in Kinds
      BY <1>2 DEF Kinds
    <2> HIDE DEF r
    <2>2. s \in Session /\ Looks(s) = Looks(r)
      BY <2>1, JoinedIs
    <2>3. Alike(sess, s)
      BY <2>1, <2>2 DEF Alike, SameRecord, Ripens, Looks
    <2>4. /\ Forward(s, b, erase, reset) /\ owed[b] = "none"
          /\ UNCHANGED <<up, agentVars, toRelay, power, app, theirs>>
      BY <1>4 DEF Lease, Fresh, r
    <2> HIDE DEF s
    <2> QED
      BY <2>3, <2>2, <2>4 DEF Sends
  <1> QED
    BY <1>3, <1>4

\* What that changes.
Sent(s, b, erase, reset) ==
  /\ owed[b] = "none" /\ RelaySame
  /\ UNCHANGED <<up, link, task, cur, place, power, app, theirs>>
  /\ tracked' = tracked \cup {b}
  /\ toAgent' = Append(toAgent, [t |-> "boot", b |-> b, erase |-> erase, reset |-> reset])
  /\ owed'[b] = "open"
  /\ \A q \in (Boots \cup Installs) \ {b} :
       owed'[q] = Answered(owed, IF erase \/ reset THEN sess.going.waiters ELSE {})[q]
  /\ sess' = Forwarded(s, b, erase, reset)
  /\ asker' = [asker EXCEPT ![b] = s.holder]
  /\ "install" \in crossed' <=>
       "install" \in crossed \/ ((erase \/ reset) /\ Unplaced # {})
  /\ "boot" \in crossed' <=> "boot" \in crossed \/ Unanswered # {}

LEMMA SentIs ==
  ASSUME TypeInv, NEW s, NEW b \in Boots, NEW erase \in BOOLEAN, NEW reset \in BOOLEAN,
         Sends(s, b, erase, reset)
  PROVE  TypeInv' /\ Sent(s, b, erase, reset)
  <1>1. /\ sess \in Session /\ s \in Session /\ s.going = sess.going
        /\ owed \in OwedType /\ crossed \subseteq {"install", "boot"}
        /\ tracked \subseteq Boots /\ asker \in [Boots -> Kinds \cup {None}]
    BY DEF TypeInv, TypeOK, OwedType, Sends, Alike
  <1> DEFINE W == IF erase \/ reset THEN sess.going.waiters ELSE {}
             a == Answered(owed, W)
  <1>2. /\ Forward(s, b, erase, reset) /\ owed[b] = "none"
        /\ UNCHANGED <<up, agentVars, toRelay, power, app, theirs>>
    BY DEF Sends
  <1>3. a \in OwedType
    BY <1>1, AnsweredIs
  <1>4. owed' = [a EXCEPT ![b] = "open"]
    BY <1>1, <1>2 DEF Forward, Wipes
  <1> HIDE DEF a
  <1>5. owed' \in OwedType /\ owed'[b] = "open" /\ \A q \in (Boots \cup Installs) \ {b} : owed'[q] = a[q]
    BY <1>3, <1>4 DEF OwedType
  <1>6. sess' \in Session
    BY <1>1, <1>2, ForwardedIs DEF Forward
  <1>7. /\ tracked' = tracked \cup {b} /\ asker' = [asker EXCEPT ![b] = s.holder]
        /\ toAgent' = Append(toAgent, [t |-> "boot", b |-> b, erase |-> erase, reset |-> reset])
        /\ crossed' = crossed \cup (IF (erase \/ reset) /\ Unplaced # {} THEN {"install"} ELSE {})
                              \cup (IF Unanswered # {} THEN {"boot"} ELSE {})
    BY <1>2 DEF Forward
  <1>8. toAgent' \in Seq(AgentFrames)
    BY <1>7, BootAdded
  <1>9. asker' \in [Boots -> Kinds \cup {None}]
    BY <1>1, <1>7, SessionParts
  <1>10. /\ crossed' \subseteq {"install", "boot"}
         /\ "install" \in crossed' <=>
              "install" \in crossed \/ ((erase \/ reset) /\ Unplaced # {})
         /\ "boot" \in crossed' <=> "boot" \in crossed \/ Unanswered # {}
    BY <1>1, <1>7
  <1>11. TypeInv'
    BY <1>1, <1>2, <1>5, <1>6, <1>7, <1>8, <1>9, <1>10 DEF TypeInv, TypeOK, OwedType, agentVars
  <1> QED
    BY <1>2, <1>5, <1>7, <1>10, <1>11, RelayUntouched DEF Sent, Forward, agentVars, a

\* An install is answered at once, joins the one under way, or goes out.
AnswersInstall(i) == UNCHANGED tracked /\ OwedOnly(i, "answered")
JoinsInstall(i) ==
  /\ UNCHANGED <<up, tracked>> /\ OwedStays /\ AgentSame /\ RelaySame
  /\ SameRecord(sess, sess') /\ sess'.inst = sess.inst
  /\ sess.going # NoInst
  /\ sess'.going = [sess.going EXCEPT !.waiters = @ \cup {i}]
  /\ owed' = [owed EXCEPT ![i] = "open"]
SendsInstall(i, build) ==
  /\ UNCHANGED <<up, tracked, link, task, cur, place, power, app, theirs, asker>> /\ RelaySame
  /\ SameRecord(sess, sess') /\ sess'.inst = None
  /\ sess'.going = [req |-> i, build |-> build, waiters |-> {}]
  /\ owed'[i] = "sent"
  /\ \A q \in (Boots \cup Installs) \ {i} : owed'[q] = Answered(owed, sess.going.waiters)[q]
  /\ toAgent' = Append(toAgent, [t |-> "install", i |-> i, build |-> build])
  /\ "boot" \in crossed' <=> "boot" \in crossed
  /\ "install" \in crossed' <=> "install" \in crossed \/ Unplaced # {} \/ Wiping

LEMMA InstallIs ==
  ASSUME TypeInv, NEW i \in Installs, NEW build \in Builds, NEW keep \in BOOLEAN,
         Install(i, build, keep)
  PROVE  /\ TypeInv' /\ owed[i] = "none"
         /\ AnswersInstall(i) \/ JoinsInstall(i) \/ SendsInstall(i, build)
  <1>1. sess \in Session /\ owed \in OwedType /\ crossed \subseteq {"install", "boot"}
    BY DEF TypeInv, TypeOK, OwedType
  <1>2. /\ owed[i] = "none"
        /\ UNCHANGED <<up, tracked, agentVars, toRelay, power, app, theirs, asker>>
    BY DEF Install, Fresh
  <1>3. OwedStays <=> UNCHANGED crossed
    BY <1>2 DEF OwedStays, agentVars
  <1>4. CASE owed' = [owed EXCEPT ![i] = "answered"] /\ UNCHANGED <<sess, toAgent, crossed>>
    <2>1. owed' \in OwedType
      BY <1>1, <1>4 DEF OwedType
    <2>2. TypeInv'
      BY <1>2, <1>4, <2>1 DEF TypeInv, TypeOK, OwedType, agentVars
    <2> QED
      BY <1>2, <1>3, <1>4, <2>2, AgentUntouched, RelayUntouched DEF AnswersInstall, OwedOnly
  <1>5. CASE /\ sess.going # NoInst
             /\ sess' = [sess EXCEPT !.going.waiters = @ \cup {i}]
             /\ owed' = [owed EXCEPT ![i] = "open"]
             /\ UNCHANGED <<toAgent, crossed>>
    <2>1. owed' \in OwedType
      BY <1>1, <1>5 DEF OwedType
    <2> DEFINE g == [sess.going EXCEPT !.waiters = @ \cup {i}]
    <2>2. g \in GoingType
      BY <1>1, SessionParts DEF GoingType
    <2>3. sess' = [sess EXCEPT !.going = g]
      BY <1>1, <1>5 DEF Session
    <2> HIDE DEF g
    <2>4. sess' \in Session
      BY <1>1, <2>2, <2>3, SessionSet
    <2>5. sess'.going = g /\ SameRecord(sess, sess') /\ sess'.inst = sess.inst
      BY <1>1, <2>3 DEF Session, SameRecord
    <2>6. TypeInv'
      BY <1>2, <1>5, <2>1, <2>4 DEF TypeInv, TypeOK, OwedType, agentVars
    <2> QED
      BY <1>2, <1>3, <1>5, <2>5, <2>6, AgentUntouched, RelayUntouched DEF JoinsInstall, g
  <1>6. CASE /\ sess' = [InstallForgotten(sess) EXCEPT
                           !.going = [req |-> i, build |-> build, waiters |-> {}]]
             /\ owed' = [Answered(owed, sess.going.waiters) EXCEPT ![i] = "sent"]
             /\ toAgent' = Append(toAgent, [t |-> "install", i |-> i, build |-> build])
             /\ crossed' = crossed \cup
                  (IF Unplaced # {} \/ Wiping THEN {"install"} ELSE {})
    <2> DEFINE a == Answered(owed, sess.going.waiters)
               g == [req |-> i, build |-> build, waiters |-> {}]
               f == InstallForgotten(sess)
    <2>1. a \in OwedType
      BY <1>1, AnsweredIs
    <2>2. g \in GoingType
      BY DEF GoingType
    <2>3. /\ f \in Session /\ f.inst = None
          /\ f.pend = sess.pend /\ f.exp = sess.exp /\ f.last = sess.last
      BY <1>1, InstallForgottenIs
    <2>4. owed' = [a EXCEPT ![i] = "sent"] /\ sess' = [f EXCEPT !.going = g]
      BY <1>6
    <2> HIDE DEF a, g, f
    <2>5. owed' \in OwedType /\ owed'[i] = "sent" /\ \A q \in (Boots \cup Installs) \ {i} : owed'[q] = a[q]
      BY <2>1, <2>4 DEF OwedType
    <2>6. sess' \in Session
      BY <2>2, <2>3, <2>4, SessionSet
    <2>7. sess'.going = g /\ sess'.inst = None /\ SameRecord(sess, sess')
      BY <2>3, <2>4 DEF Session, SameRecord
    <2>8. toAgent' \in Seq(AgentFrames)
      BY <1>6, InstallAdded
    <2>9. /\ crossed' \subseteq {"install", "boot"}
          /\ "boot" \in crossed' <=> "boot" \in crossed
          /\ "install" \in crossed' <=> "install" \in crossed \/ Unplaced # {} \/ Wiping
      BY <1>1, <1>6
    <2>10. TypeInv'
      BY <1>2, <2>5, <2>6, <2>8, <2>9 DEF TypeInv, TypeOK, OwedType, agentVars
    <2>11. SendsInstall(i, build)
      BY <1>2, <1>6, <2>5, <2>7, <2>9, RelayUntouched DEF SendsInstall, agentVars, a, g
    <2> QED
      BY <1>2, <2>10, <2>11
  <1>7. \/ owed' = [owed EXCEPT ![i] = "answered"] /\ UNCHANGED <<sess, toAgent, crossed>>
        \/ /\ sess.going # NoInst
           /\ sess' = [sess EXCEPT !.going.waiters = @ \cup {i}]
           /\ owed' = [owed EXCEPT ![i] = "open"]
           /\ UNCHANGED <<toAgent, crossed>>
        \/ /\ sess' = [InstallForgotten(sess) EXCEPT
                         !.going = [req |-> i, build |-> build, waiters |-> {}]]
           /\ owed' = [Answered(owed, sess.going.waiters) EXCEPT ![i] = "sent"]
           /\ toAgent' = Append(toAgent, [t |-> "install", i |-> i, build |-> build])
           /\ crossed' = crossed \cup
                (IF Unplaced # {} \/ Wiping THEN {"install"} ELSE {})
    BY DEF Install
  <1> QED
    BY <1>4, <1>5, <1>6, <1>7

\* The relay reads an answer.
Reads(m) ==
  /\ toRelay # <<>> /\ Head(toRelay) = m /\ toRelay' = Tail(toRelay)
  /\ AgentSame
  /\ UNCHANGED <<up, link, task, cur, place, power, app, asker, crossed>>

\* What a ready makes of who brought the device up.
ReadySettles(b, cold) ==
  /\ sess'.going = sess.going /\ sess'.exp = sess.exp
  /\ sess'.inst = IF cold THEN None ELSE sess.inst
  /\ sess.pend.req = b => /\ sess'.pend = NoPend
                          /\ sess'.last = IF cold THEN sess.last ELSE sess.pend.prev
  /\ sess.pend.req # b /\ ~cold => SameRecord(sess, sess')
  /\ sess.pend.req # b /\ cold =>
       /\ sess'.last = IF sess.exp.req = b THEN sess.exp.by
                       ELSE IF sess.holder = "ai" THEN "ai" ELSE "person"
       /\ sess'.pend.req = sess.pend.req
       /\ sess.pend = NoPend => sess'.pend = NoPend
       /\ sess.pend # NoPend => sess'.pend.prev = sess'.last

LEMMA ReadyIs ==
  ASSUME TypeInv, NEW b \in Boots, NEW cold \in BOOLEAN, Ready(b, cold)
  PROVE  /\ TypeInv' /\ Reads([t |-> "ready", b |-> b, cold |-> cold])
         /\ ReadySettles(b, cold)
         /\ tracked' = tracked \ {b} /\ owed' = Answered(owed, {b})
         /\ theirs' = (theirs \/ (/\ cold /\ power = "on"
                                  /\ asker[b] = "person"
                                  /\ sess.holder = "ai" => b \in {sess.pend.req, sess.exp.req}))
  <1>1. /\ sess \in Session /\ owed \in OwedType /\ tracked \subseteq Boots
        /\ theirs \in BOOLEAN
    BY DEF TypeInv, TypeOK, OwedType
  <1> DEFINE x == IF cold THEN None ELSE sess.inst
             s == [sess EXCEPT !.inst = x]
             r == BootSettled(s, b, cold)
  <1>2. s \in Session /\ s.inst = x /\ s.pend = sess.pend /\ s.exp = sess.exp
        /\ s.last = sess.last /\ s.going = sess.going /\ s.holder = sess.holder
    <2>1. x \in Builds \cup {None}
      BY <1>1, SessionParts
    <2> HIDE DEF x
    <2> QED
      BY <1>1, <2>1, SessionSet DEF Session
  <1>3. sess' = [r EXCEPT !.status = "booted"]
    BY <1>1 DEF Ready, Session
  <1> HIDE DEF s, x
  <1>4. /\ r \in Session
        /\ r.inst = s.inst /\ r.going = s.going /\ r.exp = s.exp
        /\ s.pend.req = b => /\ r.pend = NoPend
                             /\ r.last = IF cold THEN s.last ELSE s.pend.prev
        /\ s.pend.req # b /\ ~cold => r = s
        /\ s.pend.req # b /\ cold =>
             /\ r.last = IF s.exp.req = b THEN s.exp.by
                         ELSE IF s.holder = "ai" THEN "ai" ELSE "person"
             /\ r.pend.req = s.pend.req
             /\ s.pend = NoPend => r.pend = NoPend
             /\ s.pend # NoPend => r.pend.prev = r.last
    BY <1>2, BootSettledIs
  <1> HIDE DEF r
  <1>5. /\ sess' \in Session /\ sess'.inst = r.inst /\ sess'.going = r.going /\ sess'.exp = r.exp
        /\ sess'.pend = r.pend /\ sess'.last = r.last
    BY <1>3, <1>4 DEF Session
  <1>6. ReadySettles(b, cold)
    BY <1>2, <1>4, <1>5 DEF ReadySettles, SameRecord, x
  <1>7. /\ up /\ toRelay # <<>> /\ Head(toRelay) = [t |-> "ready", b |-> b, cold |-> cold]
        /\ toRelay' = Tail(toRelay)
        /\ UNCHANGED <<up, agentVars, toAgent, power, app, history>>
        /\ tracked' = tracked \ {b} /\ owed' = Answered(owed, {b})
        /\ theirs' = (theirs \/ (/\ cold /\ power = "on"
                                 /\ asker[b] = "person"
                                 /\ sess.holder = "ai" => b \in {sess.pend.req, sess.exp.req}))
    BY DEF Ready, Received
  <1>8. toRelay' \in Seq(RelayFrames)
    BY <1>7, FrameAdded
  <1>9. owed' \in OwedType /\ theirs' \in BOOLEAN
    BY <1>1, <1>7, AnsweredIs
  <1>10. TypeInv'
    BY <1>1, <1>5, <1>7, <1>8, <1>9 DEF TypeInv, TypeOK, OwedType, agentVars, history
  <1> QED
    BY <1>6, <1>7, <1>10, AgentUntouched DEF Reads, agentVars, history

LEMMA BootErrorIs ==
  ASSUME TypeInv, NEW b \in Boots, BootError(b)
  PROVE  /\ TypeInv' /\ Reads([t |-> "boot-error", b |-> b])
         /\ sess'.going = sess.going /\ sess'.inst = sess.inst /\ sess'.exp = sess.exp
         /\ \/ sess' = sess
            \/ sess.pend.req = b /\ sess'.pend = NoPend /\ sess'.last = sess.pend.prev
         /\ tracked' = tracked \ {b} /\ owed' = Answered(owed, {b}) /\ theirs' = theirs
  <1>1. sess \in Session /\ owed \in OwedType /\ tracked \subseteq Boots
    BY DEF TypeInv, TypeOK, OwedType
  <1>2. /\ up /\ toRelay # <<>> /\ Head(toRelay) = [t |-> "boot-error", b |-> b]
        /\ toRelay' = Tail(toRelay)
        /\ UNCHANGED <<up, agentVars, toAgent, power, app, history, theirs>>
        /\ tracked' = tracked \ {b} /\ owed' = Answered(owed, {b})
        /\ sess' = Undone(sess, b)
    BY DEF BootError, Received
  <1>3. /\ sess' \in Session
        /\ sess'.going = sess.going /\ sess'.inst = sess.inst /\ sess'.exp = sess.exp
        /\ \/ sess' = sess
           \/ sess.pend.req = b /\ sess'.pend = NoPend /\ sess'.last = sess.pend.prev
    BY <1>1, <1>2, UndoneIs
  <1>4. toRelay' \in Seq(RelayFrames)
    BY <1>2, FrameAdded
  <1>5. owed' \in OwedType
    BY <1>1, <1>2, AnsweredIs
  <1>6. TypeInv'
    BY <1>1, <1>2, <1>3, <1>4, <1>5 DEF TypeInv, TypeOK, OwedType, agentVars, history
  <1> QED
    BY <1>2, <1>3, <1>6, AgentUntouched DEF Reads, agentVars, history

LEMMA ShutdownDoneIs ==
  ASSUME TypeInv, ShutdownDone
  PROVE  /\ TypeInv' /\ AgentSame /\ RelaySame /\ OwedStays /\ UNCHANGED <<up, tracked>>
         /\ sess'.going = NoInst /\ sess'.inst = None
         /\ sess'.exp = NoExp /\ sess'.pend = sess.pend
         /\ sess'.last = IF sess.pend = NoPend THEN None ELSE sess.last
         /\ owed' = Answered(owed, sess.going.waiters)
  <1>1. sess \in Session /\ owed \in OwedType
    BY DEF TypeInv, TypeOK, OwedType
  <1> DEFINE f == InstallForgotten(sess)
             stale == sess.again = "yes"
             w == IF stale \/ sess.holder # None THEN f.wait ELSE "no"
             wd == stale /\ f.waited
             l == IF sess.pend = NoPend THEN None ELSE f.last
  <1>2. sess' = [f EXCEPT !.status = "shutdown", !.again = "none", !.wait = w, !.waited = wd,
                          !.last = l, !.exp = NoExp, !.evict = "no"]
    BY DEF ShutdownDone
  <1>3. /\ f \in Session /\ f.going = NoInst /\ f.inst = None
        /\ f.pend = sess.pend /\ f.last = sess.last
    BY <1>1, InstallForgottenIs
  <1> HIDE DEF f
  <1>4. w \in {"no", "ai", "person"} /\ wd \in BOOLEAN /\ l \in Kinds \cup {None}
    BY <1>3 DEF Session
  <1>5. l = IF sess.pend = NoPend THEN None ELSE sess.last
    BY <1>3
  <1> HIDE DEF w, wd, l
  <1>6. NoExp \in ExpType
    BY NoneTypes
  <1>7. sess' \in Session
    <2> DEFINE u == [f EXCEPT !.exp = NoExp]
               v == [u EXCEPT !.last = l]
    <2>1. u \in Session
      BY <1>3, <1>6, SessionSet
    <2>2. v \in Session
      BY <1>4, <2>1, SessionSet
    <2>3. sess' = [v EXCEPT !.status = "shutdown", !.again = "none", !.wait = w,
                            !.waited = wd, !.evict = "no"]
      BY <1>2, <1>3 DEF Session
    <2> HIDE DEF v
    <2> QED
      BY <1>4, <2>2, <2>3, ZenonT(30) DEF Session
  <1>8. /\ sess'.going = NoInst /\ sess'.inst = None /\ sess'.exp = NoExp
        /\ sess'.pend = sess.pend /\ sess'.last = l
    BY <1>2, <1>3 DEF Session
  <1>9. RelaySame /\ toRelay' \in Seq(RelayFrames)
    <2> DEFINE m == [t |-> "shutdown-done"]
    <2>1. m \in [t : {"shutdown-done", "shutdown-error"}]
      OBVIOUS
    <2>2. toRelay # <<>> /\ Head(toRelay) = m /\ toRelay' = Tail(toRelay)
      BY DEF ShutdownDone, Received
    <2> HIDE DEF m
    <2> QED
      BY <2>1, <2>2, ShutdownAnswered
  <1>10. /\ owed' = Answered(owed, sess.going.waiters)
         /\ UNCHANGED <<up, tracked, agentVars, toAgent, power, app, history, theirs>>
    BY DEF ShutdownDone, Received
  <1>11. owed' \in OwedType
    BY <1>1, <1>10, AnsweredIs
  <1>12. TypeInv'
    BY <1>7, <1>9, <1>10, <1>11 DEF TypeInv, TypeOK, OwedType, agentVars, history
  <1> QED
    BY <1>5, <1>8, <1>9, <1>10, <1>12, AgentUntouched DEF OwedStays, agentVars, history

LEMMA InstallReplyIs ==
  ASSUME TypeInv, NEW i \in Installs, NEW done \in BOOLEAN, InstallReply(i, done)
  PROVE  /\ TypeInv' /\ Reads([t |-> "installed", i |-> i, done |-> done])
         /\ UNCHANGED <<tracked, theirs>> /\ SameRecord(sess, sess')
         /\ sess.going.req # i => sess' = sess /\ owed' = Answered(owed, {})
         /\ sess.going.req = i => /\ sess'.going = NoInst
                                  /\ sess'.inst = IF done THEN sess.going.build ELSE None
                                  /\ owed' = Answered(owed, sess.going.waiters)
  <1>1. sess \in Session /\ owed \in OwedType
    BY DEF TypeInv, TypeOK, OwedType
  <1> DEFINE d == InstallDropped(sess)
             x == IF done THEN sess.going.build ELSE None
  <1>2. /\ d \in Session /\ d.going = NoInst
        /\ d.pend = sess.pend /\ d.exp = sess.exp /\ d.last = sess.last
    BY <1>1, InstallDroppedIs
  <1>3. x \in Builds \cup {None}
    BY <1>1, SessionParts DEF GoingType
  <1>4. /\ toRelay # <<>> /\ Head(toRelay) = [t |-> "installed", i |-> i, done |-> done]
        /\ toRelay' = Tail(toRelay)
        /\ UNCHANGED <<up, tracked, agentVars, toAgent, power, app, history, theirs>>
        /\ owed' = Answered(owed, IF sess.going.req = i THEN sess.going.waiters ELSE {})
    BY DEF InstallReply, Received
  <1>5. sess' = IF sess.going.req = i THEN [d EXCEPT !.inst = x] ELSE sess
    BY DEF InstallReply
  <1> HIDE DEF d, x
  <1>6. /\ sess' \in Session /\ SameRecord(sess, sess')
        /\ sess.going.req = i => sess'.going = NoInst /\ sess'.inst = x
    <2>1. CASE sess.going.req = i
      <3>1. sess' = [d EXCEPT !.inst = x]
        BY <2>1, <1>5
      <3>2. sess' \in Session
        BY <3>1, <1>2, <1>3, SessionSet
      <3> QED
        BY <2>1, <3>1, <3>2, <1>2 DEF Session, SameRecord
    <2>2. CASE sess.going.req # i
      BY <2>2, <1>1, <1>5 DEF SameRecord
    <2> QED
      BY <2>1, <2>2
  <1>7. toRelay' \in Seq(RelayFrames)
    BY <1>4, FrameAdded
  <1>8. owed' \in OwedType
    BY <1>1, <1>4, AnsweredIs
  <1>9. TypeInv'
    BY <1>4, <1>6, <1>7, <1>8 DEF TypeInv, TypeOK, OwedType, agentVars, history
  <1> QED
    BY <1>4, <1>5, <1>6, <1>9, AgentUntouched DEF Reads, agentVars, history, x

\* The agent takes a frame.
LEMMA TakeBootIs ==
  ASSUME TypeInv, TakeBoot
  PROVE  LET m == Head(toAgent) IN
         /\ TypeInv' /\ RelaySame
         /\ toAgent # <<>> /\ m.t = "boot" /\ toAgent' = Tail(toAgent)
         /\ UNCHANGED <<sess, up, tracked, link, place, power, app, owed, theirs, asker, crossed>>
         /\ link /\ cur' = m.b
         /\ task' = [task EXCEPT ![m.b] = task'[m.b]]
         /\ task'[m.b] \in BootTask /\ task'[m.b].stage = "listing" /\ ~task'[m.b].mute
         /\ task'[m.b].erase = m.erase /\ task'[m.b].reset = m.reset
  <1> DEFINE m == Head(toAgent)
             t == [stage |-> "listing", erase |-> m.erase, reset |-> m.reset,
                   cold |-> FALSE, mute |-> FALSE]
  <1>1. /\ link /\ toAgent # <<>> /\ m.t = "boot" /\ toAgent' = Tail(toAgent)
        /\ cur' = m.b /\ task' = [task EXCEPT ![m.b] = t]
        /\ UNCHANGED <<relayVars, link, toRelay, owed, place, off, power, app, theirs, history>>
    BY DEF TakeBoot, AtAgent
  <1>2. /\ toAgent' \in Seq(AgentFrames)
        /\ m.b \in Boots /\ m.erase \in BOOLEAN /\ m.reset \in BOOLEAN
    BY <1>1, BootTaken
  <1>3. task \in TaskType
    BY DEF TypeInv, TypeOK, TaskType
  <1> HIDE DEF m
  <1>4. /\ t \in BootTask /\ t.stage = "listing" /\ ~t.mute
        /\ t.erase = m.erase /\ t.reset = m.reset
    BY <1>2 DEF BootTask
  <1> HIDE DEF t
  <1>5. task'[m.b] = t /\ task' \in TaskType
    BY <1>1, <1>2, <1>3, <1>4 DEF TaskType
  <1>6. TypeInv'
    BY <1>1, <1>2, <1>5 DEF TypeInv, TypeOK, TaskType, relayVars, history
  <1> QED
    BY <1>1, <1>4, <1>5, <1>6, RelayUntouched DEF relayVars, history, m

PlaceType == [Installs -> [stage : {"none", "fetching", "placing"}, build : Builds \cup {None}]]

LEMMA TakeInstallIs ==
  ASSUME TypeInv, TakeInstall
  PROVE  LET m == Head(toAgent) IN
         /\ TypeInv' /\ RelaySame
         /\ toAgent # <<>> /\ m.t = "install" /\ toAgent' = Tail(toAgent)
         /\ UNCHANGED <<sess, up, tracked, link, task, cur, power, app, owed, theirs, asker, crossed>>
         /\ place' = [place EXCEPT ![m.i] = [stage |-> "fetching", build |-> m.build]]
         /\ place'[m.i].stage = "fetching" /\ place'[m.i].build = m.build
  <1> DEFINE m == Head(toAgent)
  <1>1. /\ toAgent # <<>> /\ m.t = "install" /\ toAgent' = Tail(toAgent)
        /\ place' = [place EXCEPT ![m.i] = [stage |-> "fetching", build |-> m.build]]
        /\ UNCHANGED <<relayVars, link, toRelay, owed, task, cur, off, power, app, theirs, history>>
    BY DEF TakeInstall, AtAgent
  <1>2. toAgent' \in Seq(AgentFrames) /\ m.i \in Installs /\ m.build \in Builds
    BY <1>1, InstallTaken
  <1>3. place \in PlaceType
    BY DEF TypeInv, TypeOK, PlaceType
  <1> HIDE DEF m
  <1>4. /\ place'[m.i].stage = "fetching" /\ place'[m.i].build = m.build
        /\ place' \in PlaceType
    BY <1>1, <1>2, <1>3 DEF PlaceType
  <1>5. TypeInv'
    BY <1>1, <1>2, <1>4 DEF TypeInv, TypeOK, PlaceType, relayVars, history
  <1> QED
    BY <1>1, <1>4, <1>5, RelayUntouched DEF relayVars, history, m

\* An install goes on, or is answered.
PlaceOnly(i) ==
  /\ UNCHANGED <<sess, up, tracked, link, task, cur, power, owed, theirs, asker, crossed>>
  /\ AgentSame
  /\ place[i].stage # "none"
  /\ \A j \in Installs : j # i => place'[j] = place[j]

LEMMA InstallClearsIs ==
  ASSUME TypeInv, NEW i \in Installs, InstallClears(i)
  PROVE  /\ TypeInv' /\ PlaceOnly(i) /\ RelaySame
         /\ place'[i].stage # "none" /\ place'[i].build = place[i].build
         /\ app' \in {app, None}
  <1>1. place \in PlaceType /\ app \in Builds \cup {None}
    BY DEF TypeInv, TypeOK, PlaceType
  <1>2. /\ place[i].stage = "fetching" /\ app' \in {app, None}
        /\ place' = [place EXCEPT ![i].stage = "placing"]
        /\ UNCHANGED <<relayVars, link, task, cur, off, toAgent, toRelay, power, owed, theirs, history>>
    BY DEF InstallClears, InstallStep
  <1>3. /\ place' \in PlaceType
        /\ place'[i].stage = "placing" /\ place'[i].build = place[i].build
        /\ \A j \in Installs : j # i => place'[j] = place[j]
    BY <1>1, <1>2 DEF PlaceType
  <1>4. TypeInv'
    BY <1>1, <1>2, <1>3 DEF TypeInv, TypeOK, PlaceType, relayVars, history
  <1> QED
    BY <1>2, <1>3, <1>4, AgentUntouched, RelayUntouched DEF PlaceOnly, relayVars, history

LEMMA InstallEndsIs ==
  ASSUME TypeInv, NEW i \in Installs, NEW done \in BOOLEAN, InstallEnds(i, done)
  PROVE  /\ TypeInv' /\ PlaceOnly(i)
         /\ place'[i].stage = "none"
         /\ app' = IF done THEN place[i].build ELSE app
         /\ toRelay' = IF link THEN Append(toRelay, [t |-> "installed", i |-> i, done |-> done])
                       ELSE toRelay
  <1> DEFINE m == [t |-> "installed", i |-> i, done |-> done]
  <1>1. place \in PlaceType /\ app \in Builds \cup {None} /\ toRelay \in Seq(RelayFrames)
    BY DEF TypeInv, TypeOK, PlaceType
  <1>2. /\ place[i].stage # "none" /\ app' = IF done THEN place[i].build ELSE app
        /\ place' = [place EXCEPT ![i] = [stage |-> "none", build |-> None]]
        /\ toRelay' = IF link THEN Append(toRelay, m) ELSE toRelay
        /\ UNCHANGED <<relayVars, link, task, cur, off, toAgent, power, owed, theirs, history>>
    BY DEF InstallEnds, InstallStep, Deliver
  <1>3. /\ place' \in PlaceType /\ place'[i].stage = "none" /\ place[i].build \in Builds \cup {None}
        /\ \A j \in Installs : j # i => place'[j] = place[j]
    BY <1>1, <1>2 DEF PlaceType
  <1>4. m \in RelayFrames
    BY InstalledAnswer
  <1> HIDE DEF m
  <1>5. toRelay' \in Seq(RelayFrames)
    BY <1>1, <1>2, <1>4, FrameAdded
  <1>6. TypeInv'
    BY <1>1, <1>2, <1>3, <1>5 DEF TypeInv, TypeOK, PlaceType, relayVars, history
  <1> QED
    BY <1>2, <1>3, <1>6, AgentUntouched DEF PlaceOnly, relayVars, history, m

\* The link is lost: the boots are cut off, and what the agent was asked is gone.
LEMMA LinkLostIs ==
  ASSUME TypeInv, NEW died \in BOOLEAN, LinkLost(died)
  PROVE  /\ TypeInv' /\ RelaySame
         /\ UNCHANGED <<sess, up, tracked, power, app, owed, theirs, asker, crossed>>
         /\ toAgent' = <<>> /\ link' = FALSE /\ cur' = None
         /\ \A b \in Boots :
              \/ task'[b] = NoTask
              \/ /\ task[b] # NoTask /\ task'[b] # NoTask /\ task'[b].mute
                 /\ task'[b].stage = task[b].stage /\ task'[b].cold = task[b].cold
                 /\ task'[b].erase = task[b].erase /\ task'[b].reset = task[b].reset
         /\ \A i \in Installs : place'[i] = place[i] \/ place'[i].stage = "none"
  <1>1. place \in PlaceType /\ task \in TaskType /\ off \in {"no", "asked", "done"}
    BY DEF TypeInv, TypeOK, PlaceType, TaskType
  <1>2. /\ UNCHANGED <<sess, up, tracked, toRelay, power, app, owed, theirs, asker, crossed>>
        /\ toAgent' = <<>> /\ link' = FALSE /\ cur' = None
    BY DEF LinkLost, relayVars, history
  <1>3. off' \in {"no", "asked", "done"}
    BY <1>1 DEF LinkLost
  <1>4. /\ place' \in PlaceType
        /\ \A i \in Installs : place'[i] = place[i] \/ place'[i].stage = "none"
    <2>1. place' = place \/ place' = [i \in Installs |-> [stage |-> "none", build |-> None]]
      BY DEF LinkLost
    <2> QED
      BY <1>1, <2>1 DEF PlaceType
  <1>5. task' = [b \in Boots |-> IF died \/ task[b] = NoTask THEN NoTask
                                 ELSE [task[b] EXCEPT !.mute = TRUE]]
    BY DEF LinkLost
  <1>6. ASSUME NEW b \in Boots
        PROVE  /\ task'[b] \in BootTask \cup {NoTask}
               /\ \/ task'[b] = NoTask
                  \/ /\ task[b] # NoTask /\ task'[b] # NoTask /\ task'[b].mute
                     /\ task'[b].stage = task[b].stage /\ task'[b].cold = task[b].cold
                     /\ task'[b].erase = task[b].erase /\ task'[b].reset = task[b].reset
    <2>1. CASE died \/ task[b] = NoTask
      BY <1>5, <2>1
    <2>2. CASE ~(died \/ task[b] = NoTask)
      <3> DEFINE t == [task[b] EXCEPT !.mute = TRUE]
      <3>1. task[b] \in BootTask
        BY <1>1, <2>2 DEF TaskType
      <3>2. /\ t \in BootTask /\ t.mute
            /\ t.stage = task[b].stage /\ t.cold = task[b].cold
            /\ t.erase = task[b].erase /\ t.reset = task[b].reset
        BY <3>1 DEF BootTask
      <3>3. task'[b] = t
        BY <1>5, <2>2
      <3> HIDE DEF t
      <3> QED
        BY <2>2, <3>2, <3>3, TaskIs
    <2> QED
      BY <2>1, <2>2
  <1>7. task' \in TaskType
    BY <1>5, <1>6 DEF TaskType
  <1>8. TypeInv'
    BY <1>2, <1>3, <1>4, <1>7, FrameAdded DEF TypeInv, TypeOK, PlaceType, TaskType
  <1> QED
    BY <1>2, <1>4, <1>6, <1>8, RelayUntouched

\* The relay holds the agent's place, and the agent comes back to it.
LEMMA HoldIs ==
  ASSUME TypeInv, Hold
  PROVE  /\ TypeInv' /\ ~link /\ up' = FALSE /\ UNCHANGED tracked /\ OwedStays
         /\ toAgent' = <<>> /\ toRelay' = <<>>
         /\ SameRecord(sess, sess') /\ sess'.inst = sess.inst /\ sess'.going = NoInst
         /\ owed' = Answered(owed, sess.going.waiters)
  <1>1. sess \in Session /\ owed \in OwedType
    BY DEF TypeInv, TypeOK, OwedType
  <1>2. /\ ~link /\ up' = FALSE /\ toAgent' = <<>> /\ toRelay' = <<>>
        /\ sess' = InstallDropped(sess) /\ owed' = Answered(owed, sess.going.waiters)
        /\ UNCHANGED <<tracked, agentVars, power, app, theirs, history>>
    BY DEF Hold
  <1>3. /\ sess' \in Session /\ SameRecord(sess, sess')
        /\ sess'.inst = sess.inst /\ sess'.going = NoInst
    BY <1>1, <1>2, InstallDroppedIs DEF SameRecord
  <1>4. owed' \in OwedType
    BY <1>1, <1>2, AnsweredIs
  <1>5. TypeInv'
    BY <1>2, <1>3, <1>4, FrameAdded DEF TypeInv, TypeOK, OwedType, agentVars, history
  <1> QED
    BY <1>2, <1>3, <1>5 DEF OwedStays, agentVars, history

LEMMA ReturnIs ==
  ASSUME TypeInv, Return
  PROVE  /\ TypeInv' /\ ~link /\ link' = TRUE /\ up' = TRUE /\ tracked' = {}
         /\ UNCHANGED <<task, cur, place, power, app, theirs, asker, crossed>>
         /\ toAgent' = <<>> /\ toRelay' = <<>>
         /\ sess'.inst = sess.inst /\ sess'.going = NoInst /\ sess'.exp = sess.exp
         /\ \/ sess'.pend = sess.pend /\ sess'.last = sess.last
            \/ sess.pend.req # None /\ sess'.pend = NoPend /\ sess'.last = sess.pend.prev
         /\ owed' = Answered(owed, sess.going.waiters \cup tracked)
  <1>1. sess \in Session /\ owed \in OwedType
    BY DEF TypeInv, TypeOK, OwedType
  <1>2. /\ ~link /\ link' = TRUE /\ up' = TRUE /\ toAgent' = <<>> /\ toRelay' = <<>>
        /\ sess' = Rebound(sess) /\ tracked' = {}
        /\ owed' = Answered(owed, sess.going.waiters \cup tracked)
        /\ UNCHANGED <<task, cur, place, off, power, app, theirs, history>>
    BY DEF Return, Stranded
  <1>3. /\ sess' \in Session
        /\ sess'.inst = sess.inst /\ sess'.going = NoInst /\ sess'.exp = sess.exp
        /\ \/ sess'.pend = sess.pend /\ sess'.last = sess.last
           \/ sess.pend.req # None /\ sess'.pend = NoPend /\ sess'.last = sess.pend.prev
    BY <1>1, <1>2, ReboundIs
  <1>4. owed' \in OwedType
    BY <1>1, <1>2, AnsweredIs
  <1>5. TypeInv'
    BY <1>2, <1>3, <1>4, FrameAdded DEF TypeInv, TypeOK, OwedType, history
  <1> QED
    BY <1>2, <1>3, <1>5 DEF history

-----------------------------------------------------------------------------
(* The agent's link and its boots.                                          *)

LEMMA LinkKept ==
  ASSUME LinkInv, UNCHANGED <<link, up, task>>, cur' \in {cur, None}
  PROVE  LinkInv'
  <1>1. \A b \in Boots : (Busy(b)' <=> Busy(b)) /\ (Mute(b)' <=> Mute(b)) /\ b # None
    BY RequestsAssumption DEF Busy, Mute
  <1> QED
    BY <1>1 DEF LinkInv

LEMMA LinkTakeBoot ==
  ASSUME TypeInv, LinkInv, TakeBoot
  PROVE  LinkInv'
  <1> DEFINE m == Head(toAgent)
  <1>1. /\ toAgent # <<>> /\ m.t = "boot" /\ toAgent' = Tail(toAgent)
        /\ UNCHANGED <<up, link>> /\ link /\ cur' = m.b
        /\ task' = [task EXCEPT ![m.b] = task'[m.b]]
        /\ task'[m.b] \in BootTask /\ task'[m.b].stage = "listing" /\ ~task'[m.b].mute
    BY TakeBootIs
  <1>2. task \in TaskType
    BY DEF TypeInv, TypeOK, TaskType
  <1> HIDE DEF m
  <1>3. \A b \in Boots : b # m.b => task'[b] = task[b]
    BY <1>1, <1>2 DEF TaskType
  <1> QED
    BY <1>1, <1>3 DEF LinkInv, Busy, Mute

LEMMA LinkBootMoves ==
  ASSUME TypeInv, LinkInv, NEW b \in Boots, BootMoves(b)
  PROVE  LinkInv'
  <1>1. task \in TaskType /\ b # None
    BY RequestsAssumption DEF TypeInv, TypeOK, TaskType
  <1>2. UNCHANGED <<up, link>> /\ cur' \in {cur, None}
    BY DEF BootMoves, GoesOn, Stops, IsReady
  <1>3. \A c \in Boots : c # b => task'[c] = task[c]
    BY <1>1 DEF BootMoves, GoesOn, Stops, IsReady, TaskType
  <1>4. CASE GoesOn(b)
    <2>1. /\ task[b] # NoTask /\ task'[b] # NoTask /\ task'[b].mute = task[b].mute
          /\ task'[b].erase = task[b].erase
          /\ task'[b].stage \in {"stopping", "erasing"} => task[b].erase
      BY <1>4 DEF GoesOn, BootMoves
    <2> QED
      BY <1>2, <1>3, <2>1, RequestsAssumption DEF LinkInv, Busy, Mute
  <1>5. CASE Stops(b) \/ IsReady(b)
    <2>1. task'[b] = NoTask /\ task'[b].stage = "none"
      BY <1>1, <1>5, TaskIs DEF Stops, IsReady, TaskType
    <2> QED
      BY <1>2, <1>3, <2>1, RequestsAssumption DEF LinkInv, Busy, Mute
  <1> QED
    BY <1>4, <1>5 DEF BootMoves

LEMMA LinkLinkLost ==
  ASSUME TypeInv, LinkInv, NEW died \in BOOLEAN, LinkLost(died)
  PROVE  LinkInv'
  <1>1. /\ up' = up /\ link' = FALSE /\ cur' = None
        /\ \A b \in Boots :
             \/ task'[b] = NoTask
             \/ /\ task[b] # NoTask /\ task'[b] # NoTask /\ task'[b].mute
                /\ task'[b].stage = task[b].stage /\ task'[b].erase = task[b].erase
    BY LinkLostIs
  <1>2. None \notin Boots /\ NoTask.stage = "none"
    BY RequestsAssumption, TaskIs
  <1> QED
    BY <1>1, <1>2 DEF LinkInv, Busy, Mute

LEMMA LinkReturn ==
  ASSUME TypeInv, LinkInv, Hold \/ Return
  PROVE  LinkInv'
  <1>1. /\ ~link /\ UNCHANGED <<task, cur>>
        /\ (link' = link /\ ~up') \/ (link' = TRUE /\ up')
    BY HoldIs, ReturnIs DEF OwedStays
  <1>2. \A b \in Boots : (Busy(b)' <=> Busy(b)) /\ (Mute(b)' <=> Mute(b))
    BY <1>1 DEF Busy, Mute
  <1>3. \A b \in Boots : ~Busy(b)
    BY <1>1 DEF LinkInv
  <1> QED
    BY <1>1, <1>2, <1>3 DEF LinkInv

-----------------------------------------------------------------------------
(* Each boot is answered once.                                              *)

\* The frames of the boots stay where they are.
BootsSame ==
  \A b \in Boots :
    /\ Asked(b)' <=> Asked(b)
    /\ Told(b)' <=> Told(b)
    /\ Once(toAgent, BootAsks(b)) => Once(toAgent', BootAsks(b))
    /\ Once(toRelay, BootAnswers(b)) => Once(toRelay', BootAnswers(b))

LEMMA SameBoots ==
  AgentSame /\ RelaySame => BootsSame
  BY DEF AgentSame, RelaySame, BootsSame

\* A boot is owed what it was, or nothing any more.
BootsOwed ==
  \A b \in Boots :
    /\ b \in tracked' => b \in tracked
    /\ \/ owed'[b] = owed[b] /\ (owed[b] = "open" /\ b \in tracked => b \in tracked')
       \/ owed[b] \in {"open", "sent"} /\ owed'[b] = "excused"

LEMMA BootKept ==
  ASSUME BootInv, BootsSame, BootsOwed, UNCHANGED <<task, link>>
  PROVE  BootInv'
  <1> SUFFICES ASSUME NEW b \in Boots
               PROVE  BootRight(b)'
    BY DEF BootInv
  <1>1. BootRight(b)
    BY DEF BootInv
  <1>2. Busy(b)' <=> Busy(b)
    BY DEF Busy
  <1>3. /\ Asked(b)' <=> Asked(b)
        /\ Told(b)' <=> Told(b)
        /\ Once(toAgent, BootAsks(b)) => Once(toAgent', BootAsks(b))
        /\ Once(toRelay, BootAnswers(b)) => Once(toRelay', BootAnswers(b))
    BY DEF BootsSame
  <1> QED
    BY <1>1, <1>2, <1>3 DEF BootRight, BootsOwed

LEMMA BootRefused ==
  ASSUME TypeInv, BootInv, NEW b \in Boots, UNCHANGED tracked,
         owed[b] = "none", OwedOnly(b, "answered")
  PROVE  BootInv'
  <1>1. BootsSame /\ UNCHANGED <<task, link>>
    BY SameBoots DEF OwedOnly, OwedStays
  <1>2. owed \in OwedType /\ owed' = [owed EXCEPT ![b] = "answered"]
    BY DEF TypeInv, TypeOK, OwedType, OwedOnly
  <1> SUFFICES ASSUME NEW c \in Boots
               PROVE  BootRight(c)'
    BY DEF BootInv
  <1>3. BootRight(c)
    BY DEF BootInv
  <1>4. Busy(c)' <=> Busy(c)
    BY <1>1 DEF Busy
  <1>5. owed'[c] = IF c = b THEN "answered" ELSE owed[c]
    BY <1>2 DEF OwedType
  <1>6. /\ Asked(c)' <=> Asked(c)
        /\ Told(c)' <=> Told(c)
        /\ Once(toAgent, BootAsks(c)) => Once(toAgent', BootAsks(c))
        /\ Once(toRelay, BootAnswers(c)) => Once(toRelay', BootAnswers(c))
    BY <1>1 DEF BootsSame
  <1> QED
    BY <1>1, <1>3, <1>4, <1>5, <1>6 DEF BootRight

LEMMA BootSent ==
  ASSUME TypeInv, BootInv, NEW s, NEW b \in Boots, NEW erase \in BOOLEAN, NEW reset \in BOOLEAN,
         Sends(s, b, erase, reset)
  PROVE  BootInv'
  <1> DEFINE W == IF erase \/ reset THEN sess.going.waiters ELSE {}
  <1>1. /\ owed[b] = "none" /\ RelaySame
        /\ tracked' = tracked \cup {b} /\ owed'[b] = "open"
        /\ UNCHANGED <<up, link, task, cur, place, power, app, theirs>>
        /\ toAgent' = Append(toAgent, [t |-> "boot", b |-> b, erase |-> erase, reset |-> reset])
        /\ \A q \in (Boots \cup Installs) \ {b} : owed'[q] = Answered(owed, W)[q]
    <2>1. Sent(s, b, erase, reset)
      BY SentIs
    <2> QED
      BY <2>1 DEF Sent
  <1> SUFFICES ASSUME NEW c \in Boots
               PROVE  BootRight(c)'
    BY DEF BootInv
  <1>2. c \notin W /\ owed \in OwedType
    BY RequestsAssumption, SessionParts DEF TypeInv, TypeOK, OwedType, GoingType
  <1> HIDE DEF W
  <1>3. c # b => owed'[c] = owed[c]
    BY <1>1, <1>2, AnsweredIs
  <1>4. /\ Asked(c)' <=> (Asked(c) \/ c = b)
        /\ Once(toAgent, BootAsks(c)) /\ ~(c = b /\ Asked(c)) => Once(toAgent', BootAsks(c))
    BY <1>1, BootAdded
  <1>5. /\ Told(c)' <=> Told(c)
        /\ Once(toRelay, BootAnswers(c)) => Once(toRelay', BootAnswers(c))
    BY <1>1 DEF RelaySame
  <1>6. BootRight(c) /\ (Busy(c)' <=> Busy(c))
    BY <1>1 DEF BootInv, Busy
  <1> QED
    BY <1>1, <1>3, <1>4, <1>5, <1>6 DEF BootRight

\* The relay reads a boot's answer.
LEMMA BootRead ==
  ASSUME TypeInv, BootInv, NEW b \in Boots, AgentSame, UNCHANGED <<link, task>>,
         tracked' = tracked \ {b}, owed' = Answered(owed, {b}),
         \A c \in Boots :
           /\ Told(c) <=> (Told(c)' \/ c = b)
           /\ Once(toRelay, BootAnswers(c)) => /\ Once(toRelay', BootAnswers(c))
                                               /\ c = b => ~Told(c)'
  PROVE  BootInv'
  <1> SUFFICES ASSUME NEW c \in Boots
               PROVE  BootRight(c)'
    BY DEF BootInv
  <1>1. BootRight(c) /\ owed \in OwedType
    BY DEF BootInv, TypeInv, TypeOK, OwedType
  <1>2. /\ Busy(c)' <=> Busy(c)
        /\ Asked(c)' <=> Asked(c)
        /\ Once(toAgent, BootAsks(c)) => Once(toAgent', BootAsks(c))
    BY DEF Busy, AgentSame
  <1>3. CASE c = b
    <2>1. /\ Told(c) /\ ~Told(c)' /\ Once(toRelay', BootAnswers(c)) /\ c \notin tracked'
      BY <1>1, <1>3 DEF BootRight
    <2>2. /\ ~Asked(c) /\ task[c] = NoTask /\ owed[c] \in {"sent", "open", "excused"}
      BY <1>1, <2>1 DEF BootRight, OwedType
    <2>3. owed'[c] \in {"sent", "answered", "excused"}
      BY <1>1, <1>3, <2>2, AnsweredIs
    <2> QED
      BY <1>1, <1>2, <2>1, <2>2, <2>3 DEF BootRight, Busy
  <1>4. CASE c # b
    <2>1. owed'[c] = owed[c]
      BY <1>1, <1>4, AnsweredIs
    <2>2. (c \in tracked' <=> c \in tracked) /\ (Told(c)' <=> Told(c))
      BY <1>4
    <2> QED
      BY <1>1, <1>2, <2>1, <2>2 DEF BootRight
  <1> QED
    BY <1>3, <1>4

LEMMA BootTake ==
  ASSUME TypeInv, BootInv, TakeBoot
  PROVE  BootInv'
  <1> DEFINE m == Head(toAgent)
  <1>1. /\ toAgent # <<>> /\ m.t = "boot" /\ toAgent' = Tail(toAgent)
        /\ UNCHANGED <<tracked, link, owed>> /\ RelaySame
        /\ task' = [task EXCEPT ![m.b] = task'[m.b]]
        /\ task'[m.b] \in BootTask /\ ~task'[m.b].mute
    BY TakeBootIs
  <1>2. /\ m.b \in Boots
        /\ \A c \in Boots :
              /\ Asked(c) <=> (Asked(c)' \/ c = m.b)
              /\ Once(toAgent, BootAsks(c)) => /\ Once(toAgent', BootAsks(c))
                                               /\ c = m.b => ~Asked(c)'
    BY <1>1, BootTaken
  <1>3. task \in TaskType
    BY DEF TypeInv, TypeOK, TaskType
  <1> HIDE DEF m
  <1> SUFFICES ASSUME NEW c \in Boots
               PROVE  BootRight(c)'
    BY DEF BootInv
  <1>4. /\ BootRight(c)
        /\ Told(c)' <=> Told(c)
        /\ Once(toRelay, BootAnswers(c)) => Once(toRelay', BootAnswers(c))
    BY <1>1 DEF BootInv, RelaySame
  <1>5. CASE c = m.b
    <2>1. Asked(c) /\ ~Asked(c)' /\ Once(toAgent', BootAsks(c)) /\ Busy(c)'
      BY <1>1, <1>2, <1>4, <1>5, TaskIs DEF BootRight, Busy
    <2> QED
      BY <1>1, <1>4, <2>1 DEF BootRight
  <1>6. CASE c # m.b
    <2>1. task'[c] = task[c]
      BY <1>1, <1>3, <1>6 DEF TaskType
    <2> QED
      BY <1>1, <1>2, <1>4, <1>6, <2>1 DEF BootRight, Busy
  <1> QED
    BY <1>5, <1>6

LEMMA BootCarried ==
  ASSUME TypeInv, LinkInv, BootInv, NEW b \in Boots, BootMoves(b)
  PROVE  BootInv'
  <1>1. /\ task \in TaskType /\ UNCHANGED <<tracked, link, toAgent, owed>> /\ AgentSame
    BY AgentUntouched DEF TypeInv, TypeOK, TaskType, BootMoves
  <1>2. task[b] # NoTask /\ \A c \in Boots : c # b => task'[c] = task[c]
    BY <1>1 DEF BootMoves, GoesOn, Stops, IsReady, TaskType
  <1>3. \/ task'[b] # NoTask /\ (Busy(b)' <=> Busy(b)) /\ RelaySame
        \/ task'[b] = NoTask /\ ~Busy(b) /\ RelaySame
        \/ /\ task'[b] = NoTask /\ Busy(b)
           /\ \A c \in Boots :
                /\ Told(c)' <=> (Told(c) \/ c = b)
                /\ Once(toRelay, BootAnswers(c)) /\ ~(c = b /\ Told(c))
                     => Once(toRelay', BootAnswers(c))
    <2>1. CASE GoesOn(b)
      BY <2>1 DEF GoesOn, Busy
    <2>2. CASE Stops(b)
      <3>1. task'[b] = NoTask
        BY <1>1, <2>2 DEF Stops, TaskType
      <3>2. CASE Mute(b)
        BY <2>2, <3>1, <3>2 DEF Stops, Mute, Busy
      <3>3. CASE ~Mute(b)
        <4>1. Busy(b)
          BY <1>2, <3>3 DEF Mute, Busy
        <4>2. link
          BY <4>1 DEF LinkInv
        <4>3. toRelay' = Append(toRelay, [t |-> "boot-error", b |-> b])
          BY <2>2, <3>3, <4>2 DEF Stops
        <4> QED
          BY <3>1, <4>1, <4>3, ErrorAdded
      <3> QED
        BY <3>2, <3>3
    <2>3. CASE IsReady(b)
      <3> DEFINE cold == task[b].cold \/ task[b].erase
      <3>1. task'[b] = NoTask
        BY <1>1, <2>3 DEF IsReady, TaskType
      <3>2. Busy(b)
        BY <1>2, <2>3 DEF LinkInv, IsReady, Mute, Busy
      <3>3. link /\ cold \in BOOLEAN
        BY <3>2 DEF LinkInv
      <3>4. toRelay' = Append(toRelay, [t |-> "ready", b |-> b, cold |-> cold])
        BY <2>3, <3>3 DEF IsReady
      <3> HIDE DEF cold
      <3> QED
        BY <3>1, <3>2, <3>3, <3>4, ReadyAdded
    <2> QED
      BY <2>1, <2>2, <2>3 DEF BootMoves
  <1> SUFFICES ASSUME NEW c \in Boots
               PROVE  BootRight(c)'
    BY DEF BootInv
  <1>4. /\ BootRight(c) /\ owed \in OwedType
        /\ Asked(c)' <=> Asked(c)
        /\ Once(toAgent, BootAsks(c)) => Once(toAgent', BootAsks(c))
    BY <1>1 DEF BootInv, AgentSame, TypeInv, TypeOK, OwedType
  <1>5. CASE c # b
    <2>1. task'[c] = task[c] /\ (Busy(c)' <=> Busy(c))
      BY <1>2, <1>5 DEF Busy
    <2>2. /\ Told(c)' <=> Told(c)
          /\ Once(toRelay, BootAnswers(c)) => Once(toRelay', BootAnswers(c))
      BY <1>3, <1>5 DEF RelaySame
    <2> QED
      BY <1>1, <1>4, <2>1, <2>2 DEF BootRight
  <1>6. CASE c = b
    <2>1. ~Asked(c) /\ ~Told(c) /\ Once(toRelay', BootAnswers(c))
      BY <1>2, <1>3, <1>4, <1>6 DEF BootRight, RelaySame
    <2>2. \/ task'[c] # NoTask /\ (Busy(c)' <=> Busy(c)) /\ (Told(c)' <=> Told(c))
          \/ task'[c] = NoTask /\ ~Busy(c) /\ (Told(c)' <=> Told(c))
          \/ task'[c] = NoTask /\ Busy(c) /\ Told(c)'
      BY <1>3, <1>6 DEF RelaySame
    <2>3. task'[c] = NoTask => ~Busy(c)'
      BY DEF Busy
    <2> QED
      BY <1>1, <1>2, <1>4, <1>6, <2>1, <2>2, <2>3 DEF BootRight
  <1> QED
    BY <1>5, <1>6

LEMMA BootLinkLost ==
  ASSUME TypeInv, BootInv, NEW died \in BOOLEAN, LinkLost(died)
  PROVE  BootInv'
  <1>1. /\ RelaySame /\ UNCHANGED <<tracked, owed>> /\ toAgent' = <<>> /\ link' = FALSE
        /\ \A b \in Boots : \/ task'[b] = NoTask
                            \/ task[b] # NoTask /\ task'[b] # NoTask /\ task'[b].mute
    BY LinkLostIs
  <1> SUFFICES ASSUME NEW b \in Boots
               PROVE  BootRight(b)'
    BY DEF BootInv
  <1>2. BootRight(b)
    BY DEF BootInv
  <1>3. ~Asked(b)' /\ Once(toAgent', BootAsks(b)) /\ ~Busy(b)'
    BY <1>1, Nothing DEF Asked, Busy
  <1>4. /\ Told(b)' <=> Told(b)
        /\ Once(toRelay, BootAnswers(b)) => Once(toRelay', BootAnswers(b))
    BY <1>1 DEF RelaySame
  <1> QED
    BY <1>1, <1>2, <1>3, <1>4 DEF BootRight

\* With the link gone the relay drops the queues; when the agent is back it answers
\* what it still tracked.
LEMMA BootCutOff ==
  ASSUME TypeInv, LinkInv, BootInv, Hold \/ Return
  PROVE  BootInv'
  <1> SUFFICES ASSUME NEW b \in Boots
               PROVE  BootRight(b)'
    BY DEF BootInv
  <1>1. BootRight(b) /\ owed \in OwedType /\ sess \in Session
    BY DEF BootInv, TypeInv, TypeOK, OwedType
  <1>2. b \notin sess.going.waiters
    BY <1>1, SessionParts, RequestsAssumption DEF GoingType
  <1>3. ~link /\ toAgent' = <<>> /\ toRelay' = <<>> /\ task' = task
    BY HoldIs, ReturnIs DEF OwedStays
  <1>4. ~Asked(b)' /\ ~Told(b)' /\ Once(toAgent', BootAsks(b)) /\ Once(toRelay', BootAnswers(b))
    BY <1>3, Nothing DEF Asked, Told
  <1>5. ~Busy(b) /\ ~Busy(b)'
    BY <1>3 DEF LinkInv, Busy
  <1>6. CASE Hold
    <2>1. /\ link' = link /\ UNCHANGED tracked /\ owed' = Answered(owed, sess.going.waiters)
      BY <1>6, HoldIs DEF OwedStays
    <2>2. owed'[b] = owed[b]
      BY <1>1, <1>2, <2>1, AnsweredIs
    <2> QED
      BY <1>1, <1>3, <1>4, <1>5, <2>1, <2>2 DEF BootRight
  <1>7. CASE Return
    <2>1. /\ tracked' = {} /\ owed' = Answered(owed, sess.going.waiters \cup tracked)
      BY <1>7, ReturnIs
    <2>2. b \in tracked => owed'[b] \in {"answered", "excused"}
      BY <1>1, <2>1, AnsweredIs DEF BootRight
    <2>3. b \notin tracked => owed'[b] = owed[b] /\ owed[b] # "open"
      BY <1>1, <1>2, <2>1, AnsweredIs DEF BootRight
    <2> QED
      BY <1>1, <1>3, <1>4, <1>5, <2>1, <2>2, <2>3 DEF BootRight
  <1> QED
    BY <1>6, <1>7

\* What the relay answers to those who waited on an install is no boot's.
LEMMA WaitersAnswered ==
  ASSUME TypeInv, UNCHANGED tracked, owed' \in {owed, Answered(owed, sess.going.waiters), Answered(owed, {})}
  PROVE  BootsOwed
  <1>1. owed \in OwedType /\ sess.going.waiters \subseteq Installs
    BY SessionParts DEF TypeInv, TypeOK, OwedType, GoingType
  <1>2. \A b \in Boots : b \notin sess.going.waiters
    BY <1>1, RequestsAssumption
  <1>3. \A b \in Boots : owed'[b] = owed[b]
    BY <1>1, <1>2, AnsweredIs
  <1> QED
    BY <1>3 DEF BootsOwed

-----------------------------------------------------------------------------
(* Every step is one of these.                                              *)

Refused(b) == owed[b] = "none" /\ UNCHANGED tracked /\ OwedOnly(b, "answered")

Step ==
  \/ Aside
  \/ Drop \/ Leave \/ HoldEnds
  \/ \E b \in Boots : RunsOut(b) \/ Refused(b)
  \/ \E s \in Session, b \in Boots, erase, reset \in BOOLEAN : Sends(s, b, erase, reset)
  \/ \E i \in Installs, build \in Builds, keep \in BOOLEAN : Install(i, build, keep)
  \/ \E b \in Boots : BootError(b) \/ \E cold \in BOOLEAN : Ready(b, cold)
  \/ ShutdownDone
  \/ \E i \in Installs, done \in BOOLEAN : InstallReply(i, done)
  \/ TakeBoot \/ TakeInstall
  \/ \E b \in Boots : BootMoves(b)
  \/ \E i \in Installs : InstallClears(i) \/ \E done \in BOOLEAN : InstallEnds(i, done)
  \/ \E died \in BOOLEAN : LinkLost(died)
  \/ Hold \/ Return

LEMMA AsideSteps ==
  ASSUME TypeInv, PendNamed,
         \/ \E k \in Kinds : Join(k)
         \/ CountedForAnother \/ RecordAges
         \/ AskShutdown \/ IdleShutdown \/ IdleUnsent \/ Evict \/ EvictionGraceEnds
         \/ ShutdownError
         \/ TakeShutdown \/ ShutdownLands \/ ShutdownFails
         \/ DeviceComesUp \/ DeviceGoesDown \/ GoesOffOutside
         \/ UNCHANGED vars
  PROVE  TypeInv' /\ Aside
  <1>1. CASE (\E k \in Kinds : Join(k)) \/ IdleUnsent \/ EvictionGraceEnds \/ RecordAges
    BY <1>1, SessionAside
  <1>2. CASE CountedForAnother
    BY <1>2, CountedAside
  <1>3. CASE AskShutdown \/ IdleShutdown \/ Evict
    BY <1>3, ShutdownAside
  <1>4. CASE ShutdownError
    BY <1>4, ShutdownErrorAside
  <1>5. CASE \/ TakeShutdown \/ ShutdownLands \/ ShutdownFails
             \/ DeviceComesUp \/ DeviceGoesDown \/ GoesOffOutside
    BY <1>5, DeviceAside
  <1>6. CASE UNCHANGED vars
    <2>1. UNCHANGED <<sess, up, tracked, link, task, cur, place, off, toAgent, toRelay, power,
                      app, owed, theirs, asker, crossed, spent>>
      BY <1>6 DEF vars, relayVars, agentVars, history
    <2>2. TypeInv'
      BY <2>1 DEF TypeInv, TypeOK
    <2>3. Alike(sess, sess')
      BY <2>1 DEF Alike, SameRecord
    <2> QED
      BY <2>1, <2>2, <2>3, AgentUntouched, RelayUntouched DEF Aside
  <1> QED
    BY <1>1, <1>2, <1>3, <1>4, <1>5, <1>6

LEMMA SendSteps ==
  ASSUME TypeInv, PendNamed, NEW b \in Boots, NEW erase \in BOOLEAN, NEW reset \in BOOLEAN,
         SendBoot(b, erase, reset) \/ (Lease(b, reset) /\ erase = FALSE)
  PROVE  TypeInv' /\ Step
  <1>1. CASE SendBoot(b, erase, reset) /\ ~up
    <2>1. TypeInv' /\ Refused(b)
      BY <1>1, RefusedIs DEF Refused
    <2> QED
      BY <2>1 DEF Step
  <1>2. CASE (SendBoot(b, erase, reset) /\ up) \/ (Lease(b, reset) /\ erase = FALSE)
    <2>1. PICK s : Sends(s, b, erase, reset)
      BY <1>2, BootSends
    <2>2. s \in Session
      BY <2>1 DEF Sends
    <2>3. TypeInv'
      BY <2>1, SentIs
    <2> QED
      BY <2>1, <2>2, <2>3 DEF Step
  <1> QED
    BY <1>1, <1>2

LEMMA BootSteps ==
  ASSUME TypeInv, LinkInv, NEW b \in Boots,
         \/ BootLists(b) \/ BootErases(b) \/ BootNotErased(b) \/ BootStarts(b)
         \/ BootSettles(b) \/ BootFails(b) \/ BootResets(b) \/ BootReady(b)
  PROVE  TypeInv' /\ BootMoves(b)
  <1>1. CASE BootLists(b)
    BY <1>1, ListsMoves
  <1>2. CASE BootErases(b) \/ BootNotErased(b)
    BY <1>2, ErasesMoves
  <1>3. CASE BootStarts(b)
    BY <1>3, StartsMoves
  <1>4. CASE BootSettles(b) \/ BootFails(b) \/ BootResets(b)
    BY <1>4, SettlesMoves
  <1>5. CASE BootReady(b)
    BY <1>5, ReadyMoves
  <1> QED
    BY <1>1, <1>2, <1>3, <1>4, <1>5

LEMMA Steps ==
  ASSUME TypeInv, LinkInv, PendNamed, [Next]_vars
  PROVE  TypeInv' /\ Step
  <1>1. CASE \/ \E k \in Kinds : Join(k)
             \/ CountedForAnother \/ RecordAges
             \/ AskShutdown \/ IdleShutdown \/ IdleUnsent \/ Evict \/ EvictionGraceEnds
             \/ ShutdownError
             \/ TakeShutdown \/ ShutdownLands \/ ShutdownFails
             \/ DeviceComesUp \/ DeviceGoesDown \/ GoesOffOutside
             \/ UNCHANGED vars
    BY <1>1, AsideSteps DEF Step
  <1>2. CASE Drop \/ Leave
    BY <1>2, GoneIs DEF Step
  <1>3. CASE HoldEnds
    BY <1>3, HoldEndsIs DEF Step
  <1>4. CASE \E b \in Boots, erase, reset \in BOOLEAN : SendBoot(b, erase, reset)
    BY <1>4, SendSteps
  <1>5. CASE \E b \in Boots, reset \in BOOLEAN : Lease(b, reset)
    <2>1. PICK b \in Boots, reset \in BOOLEAN : Lease(b, reset)
      BY <1>5
    <2>2. FALSE \in BOOLEAN
      OBVIOUS
    <2> QED
      BY <2>1, <2>2, SendSteps
  <1>6. CASE \E b \in Boots : RunsOut(b)
    BY <1>6, RunsOutIs DEF Step
  <1>7. CASE \E i \in Installs, build \in Builds, keep \in BOOLEAN : Install(i, build, keep)
    <2>1. TypeInv'
      BY <1>7, InstallIs
    <2> QED
      BY <1>7, <2>1 DEF Step
  <1>8. CASE \E b \in Boots, cold \in BOOLEAN : Ready(b, cold)
    <2>1. TypeInv'
      BY <1>8, ReadyIs
    <2> QED
      BY <1>8, <2>1 DEF Step
  <1>9. CASE \E b \in Boots : BootError(b)
    <2>1. TypeInv'
      BY <1>9, BootErrorIs
    <2> QED
      BY <1>9, <2>1 DEF Step
  <1>10. CASE ShutdownDone
    BY <1>10, ShutdownDoneIs DEF Step
  <1>11. CASE \E i \in Installs, done \in BOOLEAN : InstallReply(i, done)
    <2>1. TypeInv'
      BY <1>11, InstallReplyIs
    <2> QED
      BY <1>11, <2>1 DEF Step
  <1>12. CASE TakeBoot
    BY <1>12, TakeBootIs DEF Step
  <1>13. CASE TakeInstall
    BY <1>13, TakeInstallIs DEF Step
  <1>14. CASE \E b \in Boots :
                \/ BootLists(b) \/ BootErases(b) \/ BootNotErased(b) \/ BootStarts(b)
                \/ BootSettles(b) \/ BootFails(b) \/ BootResets(b) \/ BootReady(b)
    BY <1>14, BootSteps DEF Step
  <1>15. CASE \E i \in Installs : InstallClears(i)
    BY <1>15, InstallClearsIs DEF Step
  <1>16. CASE \E i \in Installs, done \in BOOLEAN : InstallEnds(i, done)
    <2>1. TypeInv'
      BY <1>16, InstallEndsIs
    <2> QED
      BY <1>16, <2>1 DEF Step
  <1>17. CASE \E died \in BOOLEAN : LinkLost(died)
    <2>1. TypeInv'
      BY <1>17, LinkLostIs
    <2> QED
      BY <1>17, <2>1 DEF Step
  <1>18. CASE Hold
    BY <1>18, HoldIs DEF Step
  <1>19. CASE Return
    BY <1>19, ReturnIs DEF Step
  <1> QED
    BY <1>1, <1>2, <1>3, <1>4, <1>5, <1>6, <1>7, <1>8, <1>9, <1>10, <1>11, <1>12, <1>13,
       <1>14, <1>15, <1>16, <1>17, <1>18, <1>19 DEF Next

LEMMA LinkStep ==
  ASSUME TypeInv, LinkInv, Step
  PROVE  LinkInv'
  <1>1. CASE UNCHANGED <<link, up, task>> /\ cur' \in {cur, None}
    BY <1>1, LinkKept
  <1>2. CASE Aside
    BY <1>1, <1>2 DEF Aside
  <1>3. CASE Drop \/ Leave \/ HoldEnds \/ ShutdownDone
    <2>1. UNCHANGED <<link, up, task, cur>>
      BY <1>3, GoneIs, HoldEndsIs, ShutdownDoneIs DEF OwedStays
    <2> QED
      BY <1>1, <2>1
  <1>4. CASE \E b \in Boots : RunsOut(b) \/ Refused(b)
    <2>1. UNCHANGED <<link, up, task, cur>>
      BY <1>4, RunsOutIs DEF OwedOnly, OwedStays, Refused
    <2> QED
      BY <1>1, <2>1
  <1>5. CASE \E s \in Session, b \in Boots, erase, reset \in BOOLEAN : Sends(s, b, erase, reset)
    <2>1. UNCHANGED <<up, agentVars>>
      BY <1>5 DEF Sends
    <2> QED
      BY <1>1, <2>1 DEF agentVars
  <1>6. CASE \E i \in Installs, build \in Builds, keep \in BOOLEAN : Install(i, build, keep)
    <2>1. UNCHANGED <<up, agentVars>>
      BY <1>6 DEF Install
    <2> QED
      BY <1>1, <2>1 DEF agentVars
  <1>7. CASE \/ \E b \in Boots : BootError(b) \/ \E cold \in BOOLEAN : Ready(b, cold)
             \/ \E i \in Installs, done \in BOOLEAN : InstallReply(i, done)
    <2>1. UNCHANGED <<up, agentVars>>
      BY <1>7 DEF BootError, Ready, InstallReply, Received
    <2> QED
      BY <1>1, <2>1 DEF agentVars
  <1>8. CASE TakeBoot
    BY <1>8, LinkTakeBoot
  <1>9. CASE TakeInstall
    <2>1. UNCHANGED <<link, up, task, cur>>
      BY <1>9, TakeInstallIs
    <2> QED
      BY <1>1, <2>1
  <1>10. CASE \E b \in Boots : BootMoves(b)
    BY <1>10, LinkBootMoves
  <1>11. CASE \E i \in Installs : InstallClears(i) \/ \E done \in BOOLEAN : InstallEnds(i, done)
    <2>1. UNCHANGED <<link, up, task, cur>>
      BY <1>11, InstallClearsIs, InstallEndsIs DEF PlaceOnly
    <2> QED
      BY <1>1, <2>1
  <1>12. CASE \E died \in BOOLEAN : LinkLost(died)
    BY <1>12, LinkLinkLost
  <1>13. CASE Hold \/ Return
    BY <1>13, LinkReturn
  <1> QED
    BY <1>2, <1>3, <1>4, <1>5, <1>6, <1>7, <1>8, <1>9, <1>10, <1>11, <1>12, <1>13 DEF Step

LEMMA BootStepKept ==
  ASSUME TypeInv, LinkInv, BootInv, Step
  PROVE  BootInv'
  <1>1. CASE BootsSame /\ BootsOwed /\ UNCHANGED <<task, link>>
    BY <1>1, BootKept
  <1>2. CASE Aside
    <2>1. BootsOwed
      BY <1>2 DEF Aside, BootsOwed
    <2> QED
      BY <1>1, <1>2, <2>1, SameBoots DEF Aside
  <1>3. CASE Drop \/ Leave \/ HoldEnds
    <2>1. /\ AgentSame /\ RelaySame /\ OwedStays
          /\ owed' = Excused(owed) /\ tracked' \in {tracked, {}}
      BY <1>3, GoneIs, HoldEndsIs
    <2>2. owed \in OwedType
      BY DEF TypeInv, TypeOK, OwedType
    <2>3. \A b \in Boots : \/ owed[b] \in {"open", "sent"} /\ owed'[b] = "excused"
                           \/ owed[b] # "open" /\ owed'[b] = owed[b]
      BY <2>1, <2>2, ExcusedIs
    <2>4. BootsOwed
      BY <2>1, <2>3 DEF BootsOwed
    <2> QED
      BY <1>1, <2>1, <2>4, SameBoots DEF OwedStays
  <1>4. CASE \E b \in Boots : RunsOut(b)
    <2>1. PICK b \in Boots : RunsOut(b)
      BY <1>4
    <2>2. /\ tracked' = tracked \ {b}
          /\ OwedOnly(b, IF owed[b] = "open" THEN "excused" ELSE owed[b])
      BY <2>1, RunsOutIs
    <2>3. owed \in OwedType
      BY DEF TypeInv, TypeOK, OwedType
    <2>4. BootsOwed
      BY <2>2, <2>3 DEF BootsOwed, OwedOnly, OwedType
    <2> QED
      BY <1>1, <2>2, <2>4, SameBoots DEF OwedOnly, OwedStays
  <1>5. CASE \E b \in Boots : Refused(b)
    BY <1>5, BootRefused DEF Refused
  <1>6. CASE \E s \in Session, b \in Boots, erase, reset \in BOOLEAN : Sends(s, b, erase, reset)
    BY <1>6, BootSent
  <1>7. CASE \E i \in Installs, build \in Builds, keep \in BOOLEAN : Install(i, build, keep)
    <2>1. PICK i \in Installs, build \in Builds :
            AnswersInstall(i) \/ JoinsInstall(i) \/ SendsInstall(i, build)
      BY <1>7, InstallIs
    <2>2. UNCHANGED <<task, link, tracked>>
      BY <2>1 DEF AnswersInstall, JoinsInstall, SendsInstall, OwedOnly, OwedStays
    <2>3. BootsSame
      BY <2>1, SameBoots, InstallAdded
         DEF AnswersInstall, JoinsInstall, SendsInstall, OwedOnly, BootsSame, RelaySame
    <2>4. BootsOwed
      <3>1. owed \in OwedType /\ sess.going.waiters \subseteq Installs /\ i \notin Boots
        BY SessionParts, RequestsAssumption DEF TypeInv, TypeOK, OwedType, GoingType
      <3>2. \A b \in Boots : b \notin sess.going.waiters
        BY <3>1, RequestsAssumption
      <3>3. \A b \in Boots : owed'[b] = owed[b]
        <4>1. CASE AnswersInstall(i) \/ JoinsInstall(i)
          <5>1. owed' \in {[owed EXCEPT ![i] = "answered"], [owed EXCEPT ![i] = "open"]}
            BY <4>1 DEF AnswersInstall, JoinsInstall, OwedOnly
          <5> QED
            BY <5>1, <3>1 DEF OwedType
        <4>2. CASE SendsInstall(i, build)
          <5>1. \A b \in Boots : owed'[b] = Answered(owed, sess.going.waiters)[b]
            BY <4>2, <3>1 DEF SendsInstall
          <5> QED
            BY <5>1, <3>1, <3>2, AnsweredIs
        <4> QED
          BY <2>1, <4>1, <4>2
      <3> QED
        BY <2>2, <3>3 DEF BootsOwed
    <2> QED
      BY <1>1, <2>2, <2>3, <2>4
  <1>8. CASE \E b \in Boots, cold \in BOOLEAN : Ready(b, cold)
    <2>1. PICK b \in Boots, cold \in BOOLEAN : Ready(b, cold)
      BY <1>8
    <2>2. /\ Reads([t |-> "ready", b |-> b, cold |-> cold])
          /\ tracked' = tracked \ {b} /\ owed' = Answered(owed, {b})
      BY <2>1, ReadyIs
    <2>3. \A c \in Boots :
            /\ Told(c) <=> (Told(c)' \/ c = b)
            /\ Once(toRelay, BootAnswers(c)) => /\ Once(toRelay', BootAnswers(c))
                                                /\ c = b => ~Told(c)'
      BY <2>2, ReadyTaken DEF Reads
    <2> QED
      BY <2>2, <2>3, BootRead DEF Reads
  <1>9. CASE \E b \in Boots : BootError(b)
    <2>1. PICK b \in Boots : BootError(b)
      BY <1>9
    <2>2. /\ Reads([t |-> "boot-error", b |-> b])
          /\ tracked' = tracked \ {b} /\ owed' = Answered(owed, {b})
      BY <2>1, BootErrorIs
    <2>3. \A c \in Boots :
            /\ Told(c) <=> (Told(c)' \/ c = b)
            /\ Once(toRelay, BootAnswers(c)) => /\ Once(toRelay', BootAnswers(c))
                                                /\ c = b => ~Told(c)'
      BY <2>2, ErrorTaken DEF Reads
    <2> QED
      BY <2>2, <2>3, BootRead DEF Reads
  <1>10. CASE ShutdownDone
    <2>1. /\ AgentSame /\ RelaySame /\ OwedStays /\ UNCHANGED tracked
          /\ owed' = Answered(owed, sess.going.waiters)
      BY <1>10, ShutdownDoneIs
    <2> QED
      BY <1>1, <2>1, SameBoots, WaitersAnswered DEF OwedStays
  <1>11. CASE \E i \in Installs, done \in BOOLEAN : InstallReply(i, done)
    <2>1. PICK i \in Installs, done \in BOOLEAN : InstallReply(i, done)
      BY <1>11
    <2>2. /\ Reads([t |-> "installed", i |-> i, done |-> done])
          /\ UNCHANGED tracked
          /\ owed' \in {owed, Answered(owed, sess.going.waiters), Answered(owed, {})}
      BY <2>1, InstallReplyIs
    <2>3. BootsSame
      BY <2>2, InstalledTaken DEF Reads, BootsSame, AgentSame
    <2> QED
      BY <1>1, <2>2, <2>3, WaitersAnswered DEF Reads
  <1>12. CASE TakeBoot
    BY <1>12, BootTake
  <1>13. CASE TakeInstall
    <2>1. /\ RelaySame /\ toAgent # <<>> /\ Head(toAgent).t = "install" /\ toAgent' = Tail(toAgent)
          /\ UNCHANGED <<task, link, tracked, owed>>
      BY <1>13, TakeInstallIs
    <2>2. BootsSame
      BY <2>1, InstallTaken DEF BootsSame, RelaySame
    <2> QED
      BY <1>1, <2>1, <2>2, WaitersAnswered
  <1>14. CASE \E b \in Boots : BootMoves(b)
    BY <1>14, BootCarried
  <1>15. CASE \E i \in Installs : InstallClears(i)
    <2>1. /\ RelaySame /\ AgentSame /\ UNCHANGED <<task, link, tracked, owed>>
      BY <1>15, InstallClearsIs DEF PlaceOnly
    <2> QED
      BY <1>1, <2>1, SameBoots, WaitersAnswered
  <1>16. CASE \E i \in Installs, done \in BOOLEAN : InstallEnds(i, done)
    <2>1. PICK i \in Installs, done \in BOOLEAN : InstallEnds(i, done)
      BY <1>16
    <2>2. /\ AgentSame /\ UNCHANGED <<task, link, tracked, owed>>
          /\ toRelay' = IF link THEN Append(toRelay, [t |-> "installed", i |-> i, done |-> done])
                        ELSE toRelay
      BY <2>1, InstallEndsIs DEF PlaceOnly
    <2>3. BootsSame
      BY <2>2, InstalledAdded, SameBoots, RelayUntouched DEF BootsSame, AgentSame
    <2> QED
      BY <1>1, <2>2, <2>3, WaitersAnswered
  <1>17. CASE \E died \in BOOLEAN : LinkLost(died)
    BY <1>17, BootLinkLost
  <1>18. CASE Hold \/ Return
    BY <1>18, BootCutOff
  <1> QED
    BY <1>2, <1>3, <1>4, <1>5, <1>6, <1>7, <1>8, <1>9, <1>10, <1>11, <1>12, <1>13,
       <1>14, <1>15, <1>16, <1>17, <1>18 DEF Step

-----------------------------------------------------------------------------
(* Who waits on an install is answered once.                                *)

\* The installs stay where they are.
InstallsSame ==
  \A i \in Installs :
    /\ InstallAsked(i)' <=> InstallAsked(i)
    /\ InstallTold(i)' <=> InstallTold(i)
    /\ Placing(i)' <=> Placing(i)
    /\ Once(toAgent, InstallAsks(i)) => Once(toAgent', InstallAsks(i))
    /\ Once(toRelay, InstallAnswers(i)) => Once(toRelay', InstallAnswers(i))

\* The install under way stays under way, or who waited on it is answered.
InstallsOwed ==
  \/ /\ sess'.going = sess.going
     /\ \A i \in Installs : \/ owed'[i] = owed[i]
                            \/ owed[i] \in {"open", "sent"} /\ owed'[i] = "excused"
  \/ /\ sess'.going = NoInst
     /\ \A i \in Installs : \/ owed[i] # "open" /\ owed'[i] = owed[i]
                            \/ owed[i] \in {"open", "sent"} /\ owed'[i] \in {"answered", "excused"}

LEMMA SameInstalls ==
  AgentSame /\ RelaySame /\ UNCHANGED place => InstallsSame
  BY DEF AgentSame, RelaySame, InstallsSame, Placing

LEMMA InstallKept ==
  ASSUME InstallInv, InstallsSame, InstallsOwed, UNCHANGED link
  PROVE  InstallInv'
  <1>1. sess'.going \in {sess.going, NoInst}
    BY DEF InstallsOwed
  <1>2. sess'.going.req = None => sess'.going = NoInst
    BY <1>1 DEF InstallInv
  <1>3. ASSUME NEW i \in Installs
        PROVE  InstallRight(i)'
    <2>1. InstallRight(i)
      BY DEF InstallInv
    <2>2. /\ InstallAsked(i)' <=> InstallAsked(i)
          /\ InstallTold(i)' <=> InstallTold(i)
          /\ Placing(i)' <=> Placing(i)
          /\ Once(toAgent, InstallAsks(i)) => Once(toAgent', InstallAsks(i))
          /\ Once(toRelay, InstallAnswers(i)) => Once(toRelay', InstallAnswers(i))
      BY DEF InstallsSame
    <2>3. i # None /\ NoInst.req = None /\ NoInst.waiters = {}
      BY RequestsAssumption, NoneTypes
    <2>4. CASE /\ sess'.going = sess.going
               /\ \/ owed'[i] = owed[i]
                  \/ owed[i] \in {"open", "sent"} /\ owed'[i] = "excused"
      BY <2>1, <2>2, <2>4 DEF InstallRight
    <2>5. CASE /\ sess'.going = NoInst
               /\ \/ owed[i] # "open" /\ owed'[i] = owed[i]
                  \/ owed[i] \in {"open", "sent"} /\ owed'[i] \in {"answered", "excused"}
      BY <2>1, <2>2, <2>3, <2>5 DEF InstallRight
    <2> QED
      BY <2>4, <2>5 DEF InstallsOwed
  <1> QED
    BY <1>2, <1>3 DEF InstallInv

\* Whoever waited on the install under way is answered as it is given up.
LEMMA GivenUp ==
  ASSUME TypeInv, InstallInv, NEW R, R \cap Installs = {},
         owed' = Answered(owed, sess.going.waiters \cup R)
  PROVE  \A i \in Installs : \/ owed[i] # "open" /\ owed'[i] = owed[i]
                             \/ owed[i] \in {"open", "sent"} /\ owed'[i] \in {"answered", "excused"}
  <1> SUFFICES ASSUME NEW i \in Installs
               PROVE  \/ owed[i] # "open" /\ owed'[i] = owed[i]
                      \/ owed[i] \in {"open", "sent"} /\ owed'[i] \in {"answered", "excused"}
    OBVIOUS
  <1>1. InstallRight(i) /\ owed \in OwedType /\ i \notin R
    BY DEF InstallInv, TypeInv, TypeOK, OwedType
  <1>2. CASE i \in sess.going.waiters
    <2>1. owed[i] \in {"open", "excused"}
      BY <1>1, <1>2 DEF InstallRight
    <2> QED
      BY <1>1, <1>2, <2>1, AnsweredIs
  <1>3. CASE i \notin sess.going.waiters
    <2>1. owed[i] # "open" /\ owed'[i] = owed[i]
      BY <1>1, <1>3, AnsweredIs DEF InstallRight
    <2> QED
      BY <2>1
  <1> QED
    BY <1>2, <1>3

LEMMA WaitersGivenUp ==
  ASSUME TypeInv, InstallInv, sess'.going = NoInst, owed' = Answered(owed, sess.going.waiters)
  PROVE  InstallsOwed
  <1>1. owed' = Answered(owed, sess.going.waiters \cup {}) /\ {} \cap Installs = {}
    OBVIOUS
  <1> QED
    BY <1>1, GivenUp DEF InstallsOwed

\* What a boot is owed is no install's.
LEMMA BootsApart ==
  ASSUME TypeInv, NEW b \in Boots, NEW x, sess'.going = sess.going,
         owed' \in {owed, [owed EXCEPT ![b] = x], Answered(owed, {b})}
  PROVE  InstallsOwed
  <1>1. owed \in OwedType /\ \A i \in Installs : i # b
    BY RequestsAssumption DEF TypeInv, TypeOK, OwedType
  <1>2. \A i \in Installs : owed'[i] = owed[i]
    BY <1>1, AnsweredIs DEF OwedType
  <1> QED
    BY <1>2 DEF InstallsOwed

LEMMA InstallBootSent ==
  ASSUME TypeInv, InstallInv, NEW s \in Session, NEW b \in Boots,
         NEW erase \in BOOLEAN, NEW reset \in BOOLEAN, Sends(s, b, erase, reset)
  PROVE  InstallInv'
  <1> DEFINE W == IF erase \/ reset THEN sess.going.waiters ELSE {}
  <1>1. Sent(s, b, erase, reset) /\ s.going = sess.going
    BY SentIs DEF Sends, Alike
  <1>2. /\ RelaySame /\ UNCHANGED <<link, place>>
        /\ toAgent' = Append(toAgent, [t |-> "boot", b |-> b, erase |-> erase, reset |-> reset])
        /\ \A q \in (Boots \cup Installs) \ {b} : owed'[q] = Answered(owed, W)[q]
        /\ sess' = Forwarded(s, b, erase, reset)
    BY <1>1 DEF Sent
  <1>3. InstallsSame
    BY <1>2, BootAdded DEF InstallsSame, RelaySame, Placing
  <1>4. owed \in OwedType /\ \A i \in Installs : i \in (Boots \cup Installs) \ {b}
    BY RequestsAssumption DEF TypeInv, TypeOK, OwedType
  <1>5. CASE erase \/ reset
    <2>1. sess'.going = NoInst /\ W = sess.going.waiters
      BY <1>2, <1>5, ForwardedIs
    <2>2. \A i \in Installs :
            /\ InstallRight(i)
            /\ owed'[i] = Answered(owed, sess.going.waiters)[i]
      BY <1>2, <1>4, <2>1 DEF InstallInv
    <2>3. \A i \in Installs : \/ owed[i] # "open" /\ owed'[i] = owed[i]
                              \/ owed[i] \in {"open", "sent"} /\ owed'[i] \in {"answered", "excused"}
      BY <1>4, <2>2, AnsweredIs DEF InstallRight
    <2>4. InstallsOwed
      BY <2>1, <2>3 DEF InstallsOwed
    <2> QED
      BY <1>2, <1>3, <2>4, InstallKept
  <1>6. CASE ~(erase \/ reset)
    <2>1. sess'.going = sess.going /\ W = {}
      BY <1>1, <1>2, <1>6, ForwardedIs
    <2> HIDE DEF W
    <2>2. \A i \in Installs : owed'[i] = owed[i]
      BY <1>2, <1>4, <2>1, AnsweredIs
    <2>3. InstallsOwed
      BY <2>1, <2>2 DEF InstallsOwed
    <2> QED
      BY <1>2, <1>3, <2>3, InstallKept
  <1> QED
    BY <1>5, <1>6

LEMMA InstallAskedFor ==
  ASSUME TypeInv, InstallInv, NEW i \in Installs, NEW build \in Builds, NEW keep \in BOOLEAN,
         Install(i, build, keep)
  PROVE  InstallInv'
  <1>1. /\ owed[i] = "none"
        /\ AnswersInstall(i) \/ JoinsInstall(i) \/ SendsInstall(i, build)
    BY InstallIs
  <1>2. /\ owed \in OwedType /\ sess.going \in GoingType /\ i # None
        /\ NoInst.req = None /\ NoInst.waiters = {}
    BY SessionParts, RequestsAssumption, NoneTypes DEF TypeInv, TypeOK, OwedType
  <1>3. sess'.going.req = None => sess'.going = NoInst
    BY <1>1, <1>2 DEF InstallInv, AnswersInstall, JoinsInstall, SendsInstall, OwedOnly, GoingType
  <1> SUFFICES ASSUME NEW j \in Installs
               PROVE  InstallRight(j)'
    BY <1>3 DEF InstallInv
  <1>4. InstallRight(j)
    BY DEF InstallInv
  <1>5. CASE AnswersInstall(i) \/ JoinsInstall(i)
    <2>1. AgentSame /\ RelaySame /\ UNCHANGED <<link, place>>
      BY <1>5 DEF AnswersInstall, JoinsInstall, OwedOnly, OwedStays
    <2>2. /\ InstallAsked(j)' <=> InstallAsked(j)
          /\ InstallTold(j)' <=> InstallTold(j)
          /\ Placing(j)' <=> Placing(j)
          /\ Once(toAgent, InstallAsks(j)) => Once(toAgent', InstallAsks(j))
          /\ Once(toRelay, InstallAnswers(j)) => Once(toRelay', InstallAnswers(j))
      BY <2>1, SameInstalls DEF InstallsSame
    <2>3. sess'.going.req = sess.going.req
      BY <1>2, <1>5 DEF AnswersInstall, JoinsInstall, OwedOnly, GoingType
    <2>4. CASE j # i
      <3>1. owed'[j] = owed[j]
        BY <1>2, <1>5, <2>4 DEF AnswersInstall, JoinsInstall, OwedOnly, OwedType
      <3>2. j \in sess'.going.waiters <=> j \in sess.going.waiters
        BY <1>2, <1>5, <2>4 DEF AnswersInstall, JoinsInstall, OwedOnly, GoingType
      <3> QED
        BY <1>4, <2>1, <2>2, <2>3, <3>1, <3>2 DEF InstallRight
    <2>5. CASE j = i
      <3>1. /\ j \notin sess.going.waiters /\ sess.going.req # j
            /\ ~InstallAsked(j) /\ ~Placing(j) /\ ~InstallTold(j)
        BY <1>1, <1>4, <2>5 DEF InstallRight
      <3>2. \/ owed'[j] = "answered" /\ j \notin sess'.going.waiters
            \/ owed'[j] = "open" /\ j \in sess'.going.waiters
        BY <1>2, <1>5, <2>5, <3>1 DEF AnswersInstall, JoinsInstall, OwedOnly, OwedType, GoingType
      <3> QED
        BY <1>4, <2>1, <2>2, <2>3, <3>1, <3>2 DEF InstallRight
    <2> QED
      BY <2>4, <2>5
  <1>6. CASE SendsInstall(i, build)
    <2>1. /\ UNCHANGED <<link, place>> /\ RelaySame
          /\ sess'.going.req = i /\ sess'.going.waiters = {}
          /\ owed'[i] = "sent"
          /\ j # i => owed'[j] = Answered(owed, sess.going.waiters)[j]
          /\ toAgent' = Append(toAgent, [t |-> "install", i |-> i, build |-> build])
      BY <1>6 DEF SendsInstall
    <2>2. /\ InstallAsked(j)' <=> (InstallAsked(j) \/ j = i)
          /\ Once(toAgent, InstallAsks(j)) /\ ~(j = i /\ InstallAsked(j))
               => Once(toAgent', InstallAsks(j))
      BY <2>1, InstallAdded
    <2>3. /\ InstallTold(j)' <=> InstallTold(j)
          /\ Placing(j)' <=> Placing(j)
          /\ Once(toRelay, InstallAnswers(j)) => Once(toRelay', InstallAnswers(j))
      BY <2>1 DEF RelaySame, Placing
    <2>4. CASE j # i
      <3>1. owed'[j] # "open" /\ owed'[j] # "twice" /\ (owed'[j] = "none" => owed[j] = "none")
        <4>1. CASE j \in sess.going.waiters
          <5>1. owed[j] \in {"open", "excused"}
            BY <1>4, <4>1 DEF InstallRight
          <5> QED
            BY <1>2, <2>1, <2>4, <4>1, <5>1, AnsweredIs
        <4>2. CASE j \notin sess.going.waiters
          <5>1. owed'[j] = owed[j]
            BY <1>2, <2>1, <2>4, <4>2, AnsweredIs
          <5> QED
            BY <1>4, <4>2, <5>1 DEF InstallRight
        <4> QED
          BY <4>1, <4>2
      <3> QED
        BY <1>4, <2>1, <2>2, <2>3, <2>4, <3>1 DEF InstallRight
    <2>5. CASE j = i
      <3>1. ~InstallAsked(j) /\ ~Placing(j) /\ ~InstallTold(j)
        BY <1>1, <1>4, <2>5 DEF InstallRight
      <3> QED
        BY <1>4, <2>1, <2>2, <2>3, <2>5, <3>1 DEF InstallRight
    <2> QED
      BY <2>4, <2>5
  <1> QED
    BY <1>1, <1>5, <1>6

LEMMA InstallRead ==
  ASSUME TypeInv, InstallInv, NEW i \in Installs, NEW done \in BOOLEAN, InstallReply(i, done)
  PROVE  InstallInv'
  <1>1. /\ Reads([t |-> "installed", i |-> i, done |-> done])
        /\ sess.going.req # i => sess' = sess /\ owed' = Answered(owed, {})
        /\ sess.going.req = i => sess'.going = NoInst /\ owed' = Answered(owed, sess.going.waiters)
    BY InstallReplyIs
  <1>2. \A j \in Installs :
          /\ InstallTold(j) <=> (InstallTold(j)' \/ j = i)
          /\ Once(toRelay, InstallAnswers(j)) => /\ Once(toRelay', InstallAnswers(j))
                                                 /\ i = j => ~InstallTold(j)'
    BY <1>1, InstalledTaken DEF Reads
  <1>3. owed \in OwedType /\ NoInst.req = None /\ NoInst.waiters = {}
    BY NoneTypes DEF TypeInv, TypeOK, OwedType
  <1>4. InstallsOwed
    <2>1. CASE sess.going.req = i
      BY <1>1, <2>1, WaitersGivenUp
    <2>2. CASE sess.going.req # i
      BY <1>1, <1>3, <2>2, AnsweredIs DEF InstallsOwed
    <2> QED
      BY <2>1, <2>2
  <1>5. sess'.going.req = None => sess'.going = NoInst
    BY <1>4 DEF InstallsOwed, InstallInv
  <1> SUFFICES ASSUME NEW j \in Installs
               PROVE  InstallRight(j)'
    BY <1>5 DEF InstallInv
  <1>6. /\ InstallRight(j) /\ j # None
        /\ InstallAsked(j)' <=> InstallAsked(j)
        /\ Placing(j)' <=> Placing(j)
        /\ Once(toAgent, InstallAsks(j)) => Once(toAgent', InstallAsks(j))
    BY <1>1, RequestsAssumption DEF InstallInv, Reads, AgentSame, Placing
  <1>7. \/ /\ sess'.going = sess.going
           /\ \/ owed'[j] = owed[j]
              \/ owed[j] \in {"open", "sent"} /\ owed'[j] = "excused"
        \/ /\ sess'.going = NoInst
           /\ \/ owed[j] # "open" /\ owed'[j] = owed[j]
              \/ owed[j] \in {"open", "sent"} /\ owed'[j] \in {"answered", "excused"}
    BY <1>4 DEF InstallsOwed
  <1>8. sess'.going.req = j => j # i
    BY <1>1, <1>3, <1>6
  <1>9. link' = link
    BY <1>1 DEF Reads
  <1>10. /\ InstallTold(j) <=> (InstallTold(j)' \/ j = i)
         /\ Once(toRelay, InstallAnswers(j)) => Once(toRelay', InstallAnswers(j))
    BY <1>2
  <1>11. CASE /\ sess'.going = sess.going
              /\ \/ owed'[j] = owed[j]
                 \/ owed[j] \in {"open", "sent"} /\ owed'[j] = "excused"
    BY <1>6, <1>8, <1>9, <1>10, <1>11 DEF InstallRight
  <1>12. CASE /\ sess'.going = NoInst
              /\ \/ owed[j] # "open" /\ owed'[j] = owed[j]
                 \/ owed[j] \in {"open", "sent"} /\ owed'[j] \in {"answered", "excused"}
    BY <1>3, <1>6, <1>9, <1>10, <1>12 DEF InstallRight
  <1> QED
    BY <1>7, <1>11, <1>12

LEMMA InstallTake ==
  ASSUME TypeInv, InstallInv, TakeInstall
  PROVE  InstallInv'
  <1> DEFINE m == Head(toAgent)
  <1>1. /\ RelaySame /\ UNCHANGED <<sess, link, owed>>
        /\ toAgent # <<>> /\ m.t = "install" /\ toAgent' = Tail(toAgent)
        /\ place' = [place EXCEPT ![m.i] = [stage |-> "fetching", build |-> m.build]]
        /\ place'[m.i].stage = "fetching"
    BY TakeInstallIs
  <1>2. /\ m.i \in Installs
        /\ \A i \in Installs :
              /\ InstallAsked(i) <=> (InstallAsked(i)' \/ i = m.i)
              /\ Once(toAgent, InstallAsks(i)) => /\ Once(toAgent', InstallAsks(i))
                                                  /\ i = m.i => ~InstallAsked(i)'
    BY <1>1, InstallTaken
  <1>3. place \in PlaceType
    BY DEF TypeInv, TypeOK, PlaceType
  <1> HIDE DEF m
  <1>4. \A i \in Installs : i # m.i => place'[i] = place[i]
    BY <1>1, <1>3 DEF PlaceType
  <1> SUFFICES ASSUME NEW i \in Installs
               PROVE  InstallRight(i)'
    BY <1>1 DEF InstallInv
  <1>5. /\ InstallRight(i)
        /\ InstallTold(i)' <=> InstallTold(i)
        /\ Once(toRelay, InstallAnswers(i)) => Once(toRelay', InstallAnswers(i))
    BY <1>1 DEF InstallInv, RelaySame
  <1>6. CASE i = m.i
    <2>1. InstallAsked(i) /\ ~InstallAsked(i)' /\ Placing(i)' /\ Once(toAgent', InstallAsks(i))
      BY <1>1, <1>2, <1>5, <1>6 DEF Placing, InstallRight
    <2> QED
      BY <1>1, <1>5, <2>1 DEF InstallRight
  <1>7. CASE i # m.i
    <2>1. /\ Placing(i)' <=> Placing(i)
          /\ InstallAsked(i)' <=> InstallAsked(i)
          /\ Once(toAgent', InstallAsks(i))
      BY <1>2, <1>4, <1>5, <1>7 DEF Placing, InstallRight
    <2> QED
      BY <1>1, <1>5, <2>1 DEF InstallRight
  <1> QED
    BY <1>6, <1>7

LEMMA InstallCarried ==
  ASSUME TypeInv, InstallInv, NEW i \in Installs,
         InstallClears(i) \/ \E done \in BOOLEAN : InstallEnds(i, done)
  PROVE  InstallInv'
  <1>1. PlaceOnly(i) /\ AgentSame
    BY InstallClearsIs, InstallEndsIs DEF PlaceOnly
  <1>2. /\ UNCHANGED <<sess, link, owed>> /\ Placing(i)
        /\ \A j \in Installs : j # i => (Placing(j)' <=> Placing(j))
    BY <1>1 DEF PlaceOnly, Placing
  <1>3. \/ Placing(i)' /\ RelaySame
        \/ ~Placing(i)' /\ ~link /\ RelaySame
        \/ /\ ~Placing(i)'
           /\ \A j \in Installs :
                /\ InstallTold(j)' <=> (InstallTold(j) \/ j = i)
                /\ Once(toRelay, InstallAnswers(j)) /\ ~(j = i /\ InstallTold(j))
                     => Once(toRelay', InstallAnswers(j))
    <2>1. CASE InstallClears(i)
      BY <2>1, InstallClearsIs DEF Placing
    <2>2. CASE \E done \in BOOLEAN : InstallEnds(i, done)
      <3>1. PICK done \in BOOLEAN :
              /\ place'[i].stage = "none"
              /\ toRelay' = IF link THEN Append(toRelay, [t |-> "installed", i |-> i, done |-> done])
                            ELSE toRelay
        BY <2>2, InstallEndsIs
      <3>2. ~Placing(i)'
        BY <3>1 DEF Placing
      <3>3. CASE link
        BY <3>1, <3>2, <3>3, InstalledAdded
      <3>4. CASE ~link
        BY <3>1, <3>2, <3>4, RelayUntouched
      <3> QED
        BY <3>3, <3>4
    <2> QED
      BY <2>1, <2>2
  <1> SUFFICES ASSUME NEW j \in Installs
               PROVE  InstallRight(j)'
    BY <1>2 DEF InstallInv
  <1>4. /\ InstallRight(j)
        /\ InstallAsked(j)' <=> InstallAsked(j)
        /\ Once(toAgent, InstallAsks(j)) => Once(toAgent', InstallAsks(j))
    BY <1>1 DEF InstallInv, AgentSame
  <1>5. CASE j = i
    <2>1. /\ ~InstallAsked(j) /\ ~InstallTold(j) /\ Placing(j)
      BY <1>2, <1>4, <1>5 DEF InstallRight
    <2>2. /\ Once(toRelay', InstallAnswers(j))
          /\ \/ Placing(j)' /\ ~InstallTold(j)'
             \/ ~Placing(j)' /\ (~link \/ InstallTold(j)')
      BY <1>3, <1>4, <1>5, <2>1 DEF RelaySame, InstallRight
    <2> QED
      BY <1>2, <1>4, <2>1, <2>2 DEF InstallRight
  <1>6. CASE j # i
    <2>1. /\ Placing(j)' <=> Placing(j)
          /\ InstallTold(j)' <=> InstallTold(j)
          /\ Once(toRelay, InstallAnswers(j)) => Once(toRelay', InstallAnswers(j))
      BY <1>2, <1>3, <1>6 DEF RelaySame
    <2> QED
      BY <1>2, <1>4, <2>1 DEF InstallRight
  <1> QED
    BY <1>5, <1>6

LEMMA InstallLinkLost ==
  ASSUME TypeInv, InstallInv, NEW died \in BOOLEAN, LinkLost(died)
  PROVE  InstallInv'
  <1>1. /\ RelaySame /\ UNCHANGED <<sess, owed>> /\ toAgent' = <<>> /\ link' = FALSE
        /\ \A i \in Installs : place'[i] = place[i] \/ place'[i].stage = "none"
    BY LinkLostIs
  <1> SUFFICES ASSUME NEW i \in Installs
               PROVE  InstallRight(i)'
    BY <1>1 DEF InstallInv
  <1>2. InstallRight(i)
    BY DEF InstallInv
  <1>3. ~InstallAsked(i)' /\ Once(toAgent', InstallAsks(i)) /\ (Placing(i)' => Placing(i))
    BY <1>1, Nothing DEF InstallAsked, Placing
  <1>4. /\ InstallTold(i)' <=> InstallTold(i)
        /\ Once(toRelay, InstallAnswers(i)) => Once(toRelay', InstallAnswers(i))
    BY <1>1 DEF RelaySame
  <1> QED
    BY <1>1, <1>2, <1>3, <1>4 DEF InstallRight

LEMMA InstallCutOff ==
  ASSUME TypeInv, InstallInv, Hold \/ Return
  PROVE  InstallInv'
  <1>1. /\ toAgent' = <<>> /\ toRelay' = <<>> /\ place' = place
        /\ sess'.going = NoInst /\ NoInst.req = None /\ NoInst.waiters = {}
    BY HoldIs, ReturnIs, NoneTypes DEF OwedStays
  <1>2. tracked \cap Installs = {} /\ {} \cap Installs = {}
    BY RequestsAssumption DEF TypeInv, TypeOK
  <1>3. \A i \in Installs : \/ owed[i] # "open" /\ owed'[i] = owed[i]
                            \/ owed[i] \in {"open", "sent"} /\ owed'[i] \in {"answered", "excused"}
    <2>1. CASE Hold
      <3>1. owed' = Answered(owed, sess.going.waiters \cup {})
        BY <2>1, HoldIs
      <3> QED
        BY <1>2, <3>1, GivenUp
    <2>2. CASE Return
      <3>1. owed' = Answered(owed, sess.going.waiters \cup tracked)
        BY <2>2, ReturnIs
      <3> QED
        BY <1>2, <3>1, GivenUp
    <2> QED
      BY <2>1, <2>2
  <1> SUFFICES ASSUME NEW i \in Installs
               PROVE  InstallRight(i)'
    BY <1>1 DEF InstallInv
  <1>4. InstallRight(i) /\ i # None
    BY RequestsAssumption DEF InstallInv
  <1>5. /\ ~InstallAsked(i)' /\ ~InstallTold(i)' /\ (Placing(i)' <=> Placing(i))
        /\ Once(toAgent', InstallAsks(i)) /\ Once(toRelay', InstallAnswers(i))
    BY <1>1, Nothing DEF InstallAsked, InstallTold, Placing
  <1>6. \/ owed[i] # "open" /\ owed'[i] = owed[i]
        \/ owed[i] \in {"open", "sent"} /\ owed'[i] \in {"answered", "excused"}
    BY <1>3
  <1> QED
    BY <1>1, <1>4, <1>5, <1>6 DEF InstallRight

LEMMA InstallStepKept ==
  ASSUME TypeInv, InstallInv, Step
  PROVE  InstallInv'
  <1>1. CASE InstallsSame /\ InstallsOwed /\ UNCHANGED link
    BY <1>1, InstallKept
  <1>2. CASE Aside
    <2>1. sess'.going = sess.going /\ AgentSame /\ RelaySame /\ UNCHANGED <<link, place, owed>>
      BY <1>2 DEF Aside, Alike
    <2>2. InstallsOwed
      BY <2>1 DEF InstallsOwed
    <2> QED
      BY <1>1, <2>1, <2>2, SameInstalls
  <1>3. CASE Drop \/ Leave \/ HoldEnds
    <2>1. /\ AgentSame /\ RelaySame /\ OwedStays
          /\ owed' = Excused(owed) /\ sess'.going \in {sess.going, NoInst}
      BY <1>3, GoneIs, HoldEndsIs DEF Alike
    <2>2. owed \in OwedType
      BY DEF TypeInv, TypeOK, OwedType
    <2>3. \A i \in Installs : \/ owed[i] \in {"open", "sent"} /\ owed'[i] = "excused"
                              \/ owed[i] # "open" /\ owed'[i] = owed[i]
      BY <2>1, <2>2, ExcusedIs
    <2>4. InstallsOwed
      BY <2>1, <2>3 DEF InstallsOwed
    <2> QED
      BY <1>1, <2>1, <2>4, SameInstalls DEF OwedStays
  <1>4. CASE \E b \in Boots : RunsOut(b) \/ Refused(b)
    <2>1. PICK b \in Boots : RunsOut(b) \/ Refused(b)
      BY <1>4
    <2>2. OwedOnly(b, IF owed[b] = "open" THEN "excused" ELSE owed[b]) \/ OwedOnly(b, "answered")
      BY <2>1, RunsOutIs DEF Refused
    <2>3. InstallsOwed
      BY <2>2, BootsApart DEF OwedOnly
    <2> QED
      BY <1>1, <2>2, <2>3, SameInstalls DEF OwedOnly, OwedStays
  <1>5. CASE \E s \in Session, b \in Boots, erase, reset \in BOOLEAN : Sends(s, b, erase, reset)
    BY <1>5, InstallBootSent
  <1>6. CASE \E i \in Installs, build \in Builds, keep \in BOOLEAN : Install(i, build, keep)
    BY <1>6, InstallAskedFor
  <1>7. CASE \E b \in Boots, cold \in BOOLEAN : Ready(b, cold)
    <2>1. PICK b \in Boots, cold \in BOOLEAN : Ready(b, cold)
      BY <1>7
    <2>2. /\ Reads([t |-> "ready", b |-> b, cold |-> cold])
          /\ sess'.going = sess.going /\ owed' = Answered(owed, {b})
      BY <2>1, ReadyIs DEF ReadySettles
    <2>3. InstallsSame
      BY <2>2, ReadyTaken DEF Reads, InstallsSame, AgentSame, Placing
    <2>4. InstallsOwed
      BY <2>2, BootsApart
    <2> QED
      BY <1>1, <2>2, <2>3, <2>4 DEF Reads
  <1>8. CASE \E b \in Boots : BootError(b)
    <2>1. PICK b \in Boots : BootError(b)
      BY <1>8
    <2>2. /\ Reads([t |-> "boot-error", b |-> b])
          /\ sess'.going = sess.going /\ owed' = Answered(owed, {b})
      BY <2>1, BootErrorIs
    <2>3. InstallsSame
      BY <2>2, ErrorTaken DEF Reads, InstallsSame, AgentSame, Placing
    <2>4. InstallsOwed
      BY <2>2, BootsApart
    <2> QED
      BY <1>1, <2>2, <2>3, <2>4 DEF Reads
  <1>9. CASE ShutdownDone
    <2>1. /\ AgentSame /\ RelaySame /\ OwedStays
          /\ sess'.going = NoInst /\ owed' = Answered(owed, sess.going.waiters)
      BY <1>9, ShutdownDoneIs
    <2>2. InstallsOwed
      BY <2>1, WaitersGivenUp
    <2> QED
      BY <1>1, <2>1, <2>2, SameInstalls DEF OwedStays
  <1>10. CASE \E i \in Installs, done \in BOOLEAN : InstallReply(i, done)
    BY <1>10, InstallRead
  <1>11. CASE TakeBoot
    <2>1. /\ RelaySame /\ UNCHANGED <<sess, link, place, owed>>
          /\ toAgent # <<>> /\ Head(toAgent).t = "boot" /\ toAgent' = Tail(toAgent)
      BY <1>11, TakeBootIs
    <2>2. InstallsSame
      BY <2>1, BootTaken DEF InstallsSame, RelaySame, Placing
    <2>3. InstallsOwed
      BY <2>1 DEF InstallsOwed
    <2> QED
      BY <1>1, <2>1, <2>2, <2>3
  <1>12. CASE TakeInstall
    BY <1>12, InstallTake
  <1>13. CASE \E b \in Boots : BootMoves(b)
    <2>1. PICK b \in Boots : BootMoves(b)
      BY <1>13
    <2>2. UNCHANGED <<sess, link, place, toAgent, owed>> /\ AgentSame
      BY <2>1, AgentUntouched DEF BootMoves
    <2>3. \/ RelaySame
          \/ toRelay' = Append(toRelay, [t |-> "boot-error", b |-> b])
          \/ \E cold \in BOOLEAN :
               toRelay' = Append(toRelay, [t |-> "ready", b |-> b, cold |-> cold])
      <3>1. (task[b].cold \/ task[b].erase) \in BOOLEAN
        OBVIOUS
      <3> QED
        BY <2>1, <3>1, RelayUntouched DEF BootMoves, GoesOn, Stops, IsReady
    <2>4. InstallsSame
      <3>1. CASE RelaySame
        BY <2>2, <3>1, SameInstalls
      <3>2. CASE toRelay' = Append(toRelay, [t |-> "boot-error", b |-> b])
        BY <2>2, <3>2, ErrorAdded DEF InstallsSame, AgentSame, Placing
      <3>3. CASE \E cold \in BOOLEAN :
                   toRelay' = Append(toRelay, [t |-> "ready", b |-> b, cold |-> cold])
        BY <2>2, <3>3, ReadyAdded DEF InstallsSame, AgentSame, Placing
      <3> QED
        BY <2>3, <3>1, <3>2, <3>3
    <2>5. InstallsOwed
      BY <2>2 DEF InstallsOwed
    <2> QED
      BY <1>1, <2>2, <2>4, <2>5
  <1>14. CASE \E i \in Installs : InstallClears(i) \/ \E done \in BOOLEAN : InstallEnds(i, done)
    BY <1>14, InstallCarried
  <1>15. CASE \E died \in BOOLEAN : LinkLost(died)
    BY <1>15, InstallLinkLost
  <1>16. CASE Hold \/ Return
    BY <1>16, InstallCutOff
  <1> QED
    BY <1>2, <1>3, <1>4, <1>5, <1>6, <1>7, <1>8, <1>9, <1>10, <1>11, <1>12, <1>13,
       <1>14, <1>15, <1>16 DEF Step

-----------------------------------------------------------------------------
(* The build that is recorded.                                              *)

LEMMA InPart ==
  \A q, F, G : F \subseteq G /\ In(q, F) => In(q, G)
  BY DEF In

\* A frame of an install's is one of its answers, or asks for some build.
LEMMA InstallParts ==
  ASSUME TypeInv
  PROVE  /\ \A i \in Installs : In(toRelay, Dones(i)) => InstallTold(i)
         /\ \A g \in Builds : In(toAgent, OtherBuilds(g)) => \E i \in Installs : InstallAsked(i)
  <1>1. \A i \in Installs : Dones(i) \subseteq InstallAnswers(i)
    BY DEF Dones, InstallAnswers
  <1>2. ASSUME NEW g \in Builds, NEW n \in 1..Len(toAgent), toAgent[n] \in OtherBuilds(g)
        PROVE  \E i \in Installs : toAgent[n] \in InstallAsks(i)
    BY <1>2 DEF OtherBuilds, InstallAsks
  <1> QED
    BY <1>1, <1>2, InPart DEF InstallTold, InstallAsked, In

LEMMA WipingKept ==
  ASSUME TypeInv, TypeInv', In(toAgent', WipeAsks) => In(toAgent, WipeAsks),
         \A b \in Boots :
           task'[b] # NoTask /\ (task'[b].erase \/ task'[b].reset)
             => \/ task[b] # NoTask /\ (task[b].erase \/ task[b].reset)
                \/ In(toAgent, WipeAsks)
  PROVE  Wiping' => Wiping
  <1>1. (Wiping <=> \/ \E b \in Boots : task[b] # NoTask /\ (task[b].erase \/ task[b].reset)
                    \/ In(toAgent, WipeAsks))'
    BY WipingIs, PTL
  <1>2. Wiping <=> \/ \E b \in Boots : task[b] # NoTask /\ (task[b].erase \/ task[b].reset)
                   \/ In(toAgent, WipeAsks)
    BY WipingIs
  <1> QED
    BY <1>1, <1>2

LEMMA RecordEmpty ==
  ASSUME sess'.inst = None, sess'.going = NoInst
  PROVE  RecordInv'
  BY NoneTypes DEF RecordInv

\* The records say no more than they did, and there is no more on its way.
LEMMA RecordKept ==
  ASSUME RecordInv,
         "install" \in crossed => "install" \in crossed',
         sess'.inst \in {sess.inst, None},
         \/ sess'.going = NoInst
         \/ sess'.going.req = sess.going.req /\ sess'.going.build = sess.going.build,
         Wiping' => Wiping, app' = app \/ Wiping,
         \A i \in Installs :
           /\ InstallAsked(i)' => InstallAsked(i)
           /\ Placing(i)' => \/ Placing(i) /\ place'[i].build = place[i].build
                             \/ /\ InstallAsked(i)
                                /\ \A g \in Builds : ~In(toAgent, OtherBuilds(g))
                                                       => place'[i].build = g
           /\ In(toRelay', Dones(i)) => In(toRelay, Dones(i)),
         \A g \in Builds : In(toAgent', OtherBuilds(g)) => In(toAgent, OtherBuilds(g))
  PROVE  RecordInv'
  <1> SUFFICES ASSUME "install" \notin crossed, "install" \notin crossed'
               PROVE  RecordInv'
    BY DEF RecordInv
  <1>1. NoInst.req = None
    BY NoneTypes
  <1>2. CASE sess.inst = None /\ sess.going.req = None
    <2>1. sess'.inst = None /\ sess'.going.req = None
      BY <1>1, <1>2
    <2> QED
      BY <2>1 DEF RecordInv
  <1>3. CASE sess.inst # None
    <2>1. /\ ~Wiping /\ app = sess.inst /\ sess.going.req = None
          /\ \A i \in Installs : ~InstallAsked(i) /\ ~Placing(i)
      BY <1>3 DEF RecordInv
    <2>2. /\ ~Wiping' /\ app' = app /\ sess'.going.req = None
          /\ \A i \in Installs : ~InstallAsked(i)' /\ ~Placing(i)'
      BY <1>1, <2>1
    <2> QED
      BY <2>1, <2>2 DEF RecordInv
  <1>4. CASE sess.going.req # None /\ sess.inst = None
    <2>1. /\ ~Wiping /\ sess.going.build \in Builds
          /\ \A i \in Installs : InstallAsked(i) \/ Placing(i) => i = sess.going.req
          /\ ~In(toAgent, OtherBuilds(sess.going.build))
          /\ \A i \in Installs : Placing(i) => place[i].build = sess.going.build
          /\ \A i \in Installs : sess.going.req = i /\ In(toRelay, Dones(i))
                                   => app = sess.going.build
      BY <1>4 DEF RecordInv
    <2>2. ~Wiping' /\ app' = app /\ sess'.inst = None
      BY <2>1, <1>4
    <2>3. CASE sess'.going = NoInst
      BY <1>1, <2>2, <2>3 DEF RecordInv
    <2>4. CASE sess'.going.req = sess.going.req /\ sess'.going.build = sess.going.build
      <3>1. ~In(toAgent', OtherBuilds(sess'.going.build))
        BY <2>1, <2>4
      <3>2. \A i \in Installs : InstallAsked(i)' \/ Placing(i)' => i = sess'.going.req
        BY <2>1, <2>4
      <3>3. \A i \in Installs : Placing(i)' => place'[i].build = sess'.going.build
        BY <2>1, <2>4
      <3>4. \A i \in Installs : sess'.going.req = i /\ In(toRelay', Dones(i))
                                  => app' = sess'.going.build
        BY <2>1, <2>2, <2>4
      <3>5. sess'.going.build \in Builds
        BY <2>1, <2>4
      <3> QED
        BY <2>2, <3>1, <3>2, <3>3, <3>4, <3>5 DEF RecordInv
    <2> QED
      BY <2>3, <2>4
  <1> QED
    BY <1>2, <1>3, <1>4

LEMMA RecordBootSent ==
  ASSUME TypeInv, TypeInv', RecordInv, NEW s \in Session, NEW b \in Boots,
         NEW erase \in BOOLEAN, NEW reset \in BOOLEAN, Sends(s, b, erase, reset)
  PROVE  RecordInv'
  <1>1. Sent(s, b, erase, reset) /\ s.going = sess.going /\ s.inst = sess.inst
    BY SentIs DEF Sends, Alike
  <1>2. /\ RelaySame /\ UNCHANGED <<task, place, app>>
        /\ toAgent' = Append(toAgent, [t |-> "boot", b |-> b, erase |-> erase, reset |-> reset])
        /\ sess' = Forwarded(s, b, erase, reset)
        /\ "install" \in crossed => "install" \in crossed'
    BY <1>1 DEF Sent
  <1>3. CASE erase \/ reset
    <2>1. sess'.going = NoInst /\ sess'.inst = None
      BY <1>2, <1>3, ForwardedIs
    <2> QED
      BY <2>1, RecordEmpty
  <1>4. CASE ~(erase \/ reset)
    <2>1. sess'.going = sess.going /\ sess'.inst = sess.inst
      BY <1>1, <1>2, <1>4, ForwardedIs
    <2>2. /\ In(toAgent', WipeAsks) => In(toAgent, WipeAsks)
          /\ \A i \in Installs : InstallAsked(i)' <=> InstallAsked(i)
          /\ \A g \in Builds : In(toAgent', OtherBuilds(g)) <=> In(toAgent, OtherBuilds(g))
      BY <1>2, <1>4, BootAdded
    <2>3. Wiping' => Wiping
      BY <1>2, <2>2, WipingKept
    <2>4. \A i \in Installs : /\ Placing(i)' => Placing(i) /\ place'[i].build = place[i].build
                              /\ In(toRelay', Dones(i)) => In(toRelay, Dones(i))
      BY <1>2 DEF Placing, RelaySame
    <2> QED
      BY <1>2, <2>1, <2>2, <2>3, <2>4, RecordKept
  <1> QED
    BY <1>3, <1>4

\* Nothing of the agent's changes that the records go by.
LEMMA RecordAside ==
  ASSUME TypeInv, TypeInv', RecordInv, AgentSame, UNCHANGED <<task, place, app>>,
         "install" \in crossed => "install" \in crossed',
         \A i \in Installs : In(toRelay', Dones(i)) => In(toRelay, Dones(i)),
         sess'.inst \in {sess.inst, None},
         \/ sess'.going = NoInst
         \/ sess'.going.req = sess.going.req /\ sess'.going.build = sess.going.build
  PROVE  RecordInv'
  <1>1. Wiping' => Wiping
    BY WipingKept DEF AgentSame
  <1>2. \A i \in Installs : /\ InstallAsked(i)' => InstallAsked(i)
                            /\ Placing(i)' => Placing(i) /\ place'[i].build = place[i].build
    BY DEF AgentSame, Placing
  <1>3. \A g \in Builds : In(toAgent', OtherBuilds(g)) => In(toAgent, OtherBuilds(g))
    BY DEF AgentSame
  <1> QED
    BY <1>1, <1>2, <1>3, RecordKept

LEMMA RecordInstall ==
  ASSUME TypeInv, TypeInv', InstallInv, RecordInv, NEW i \in Installs, NEW build \in Builds,
         NEW keep \in BOOLEAN, Install(i, build, keep)
  PROVE  RecordInv'
  <1>1. /\ owed[i] = "none"
        /\ AnswersInstall(i) \/ JoinsInstall(i) \/ SendsInstall(i, build)
    BY InstallIs
  <1>2. CASE AnswersInstall(i) \/ JoinsInstall(i)
    <2>1. /\ AgentSame /\ RelaySame /\ UNCHANGED <<task, place, app, crossed>>
          /\ sess'.inst = sess.inst
      BY <1>2 DEF AnswersInstall, JoinsInstall, OwedOnly, OwedStays
    <2>2. sess'.going.req = sess.going.req /\ sess'.going.build = sess.going.build
      <3>1. sess.going \in GoingType
        BY SessionParts DEF TypeInv, TypeOK
      <3> QED
        BY <1>2, <3>1 DEF AnswersInstall, JoinsInstall, OwedOnly, GoingType
    <2> QED
      BY <2>1, <2>2, RecordAside DEF RelaySame
  <1>3. CASE SendsInstall(i, build)
    <2>1. /\ UNCHANGED <<task, place, app>> /\ RelaySame
          /\ sess'.inst = None /\ sess'.going.req = i /\ sess'.going.build = build
          /\ toAgent' = Append(toAgent, [t |-> "install", i |-> i, build |-> build])
          /\ "install" \in crossed' <=> "install" \in crossed \/ Unplaced # {} \/ Wiping
      BY <1>3 DEF SendsInstall
    <2> SUFFICES ASSUME "install" \notin crossed'
                 PROVE  RecordInv'
      BY DEF RecordInv
    <2>2. Unplaced = {} /\ ~Wiping
      BY <2>1
    <2>3. \A j \in Installs : ~InstallAsked(j) /\ ~Placing(j)
      BY <2>2, UnplacedIs
    <2>4. /\ \A j \in Installs : InstallAsked(j)' <=> (InstallAsked(j) \/ j = i)
          /\ In(toAgent', WipeAsks) <=> In(toAgent, WipeAsks)
          /\ In(toAgent', OtherBuilds(build)) <=> In(toAgent, OtherBuilds(build))
      BY <2>1, InstallAdded
    <2>5. ~In(toAgent', OtherBuilds(build))
      BY <2>3, <2>4, InstallParts
    <2>6. ~Wiping'
      BY <2>1, <2>2, <2>4, WipingKept
    <2>7. \A j \in Installs : ~Placing(j)'
      BY <2>1, <2>3 DEF Placing
    <2>8. ~In(toRelay', Dones(i))
      <3>1. ~InstallTold(i)
        BY <1>1 DEF InstallInv, InstallRight
      <3> QED
        BY <2>1, <3>1, InstallParts DEF RelaySame
    <2>9. \A j \in Installs : InstallAsked(j)' \/ Placing(j)' => j = i
      BY <2>3, <2>4, <2>7
    <2> QED
      BY <2>1, <2>5, <2>6, <2>7, <2>8, <2>9 DEF RecordInv
  <1> QED
    BY <1>1, <1>2, <1>3

LEMMA RecordRead ==
  ASSUME TypeInv, TypeInv', InstallInv, RecordInv, NEW i \in Installs, NEW done \in BOOLEAN,
         InstallReply(i, done)
  PROVE  RecordInv'
  <1>1. /\ Reads([t |-> "installed", i |-> i, done |-> done])
        /\ sess.going.req # i => sess' = sess
        /\ sess.going.req = i => /\ sess'.going = NoInst
                                 /\ sess'.inst = IF done THEN sess.going.build ELSE None
    BY InstallReplyIs
  <1>2. \A j \in Installs :
          /\ InstallTold(j) <=> (InstallTold(j)' \/ j = i)
          /\ In(toRelay, Dones(j)) <=> (In(toRelay', Dones(j)) \/ (j = i /\ done))
    BY <1>1, InstalledTaken DEF Reads
  <1>3. AgentSame /\ UNCHANGED <<task, place, app, crossed>>
    BY <1>1 DEF Reads
  <1>4. CASE sess.going.req # i
    <2>1. sess' = sess
      BY <1>1, <1>4
    <2> QED
      BY <1>2, <1>3, <2>1, RecordAside
  <1>5. CASE sess.going.req = i /\ ~done
    BY <1>1, <1>5, RecordEmpty
  <1>6. CASE sess.going.req = i /\ done
    <2> SUFFICES ASSUME "install" \notin crossed
                 PROVE  RecordInv'
      BY <1>3 DEF RecordInv
    <2>1. i # None /\ NoInst.req = None
      BY RequestsAssumption, NoneTypes
    <2>2. InstallTold(i) /\ In(toRelay, Dones(i))
      BY <1>2, <1>6
    <2>3. ~InstallAsked(i) /\ ~Placing(i)
      BY <2>2 DEF InstallInv, InstallRight
    <2>4. /\ ~Wiping /\ app = sess.going.build
          /\ \A j \in Installs : InstallAsked(j) \/ Placing(j) => j = i
      BY <1>6, <2>1, <2>2 DEF RecordInv
    <2>5. \A j \in Installs : ~InstallAsked(j) /\ ~Placing(j)
      BY <2>3, <2>4
    <2>6. /\ \A j \in Installs : ~InstallAsked(j)' /\ ~Placing(j)'
          /\ app' = sess'.inst /\ sess'.going.req = None
      BY <1>1, <1>3, <1>6, <2>1, <2>4, <2>5 DEF AgentSame, Placing
    <2>7. ~Wiping'
      BY <1>3, <2>4, WipingKept DEF AgentSame
    <2> QED
      BY <2>6, <2>7 DEF RecordInv
  <1> QED
    BY <1>4, <1>5, <1>6

LEMMA RecordTake ==
  ASSUME TypeInv, TypeInv', RecordInv, TakeBoot \/ TakeInstall
  PROVE  RecordInv'
  <1> DEFINE m == Head(toAgent)
  <1>1. CASE TakeBoot
    <2>1. /\ RelaySame /\ UNCHANGED <<sess, place, app, crossed>>
          /\ toAgent # <<>> /\ m.t = "boot" /\ toAgent' = Tail(toAgent)
          /\ task' = [task EXCEPT ![m.b] = task'[m.b]]
          /\ task'[m.b].erase = m.erase /\ task'[m.b].reset = m.reset
      BY <1>1, TakeBootIs
    <2>2. /\ \A i \in Installs : InstallAsked(i)' <=> InstallAsked(i)
          /\ In(toAgent, WipeAsks) <=> (In(toAgent', WipeAsks) \/ m.erase \/ m.reset)
          /\ \A g \in Builds : In(toAgent', OtherBuilds(g)) <=> In(toAgent, OtherBuilds(g))
      BY <2>1, BootTaken
    <2>3. task \in TaskType
      BY DEF TypeInv, TypeOK, TaskType
    <2> HIDE DEF m
    <2>4. \A b \in Boots : b # m.b => task'[b] = task[b]
      BY <2>1, <2>3 DEF TaskType
    <2>5. Wiping' => Wiping
      <3>1. \A b \in Boots :
              task'[b] # NoTask /\ (task'[b].erase \/ task'[b].reset)
                => \/ task[b] # NoTask /\ (task[b].erase \/ task[b].reset)
                   \/ In(toAgent, WipeAsks)
        BY <2>1, <2>2, <2>4
      <3>2. In(toAgent', WipeAsks) => In(toAgent, WipeAsks)
        BY <2>2
      <3> QED
        BY <3>1, <3>2, WipingKept
    <2>6. \A i \in Installs : /\ Placing(i)' => Placing(i) /\ place'[i].build = place[i].build
                              /\ In(toRelay', Dones(i)) => In(toRelay, Dones(i))
      BY <2>1 DEF Placing, RelaySame
    <2> QED
      BY <2>1, <2>2, <2>5, <2>6, RecordKept
  <1>2. CASE TakeInstall
    <2>1. /\ RelaySame /\ UNCHANGED <<sess, task, app, crossed>>
          /\ toAgent # <<>> /\ m.t = "install" /\ toAgent' = Tail(toAgent)
          /\ place' = [place EXCEPT ![m.i] = [stage |-> "fetching", build |-> m.build]]
          /\ place'[m.i].build = m.build
      BY <1>2, TakeInstallIs
    <2>2. /\ \A i \in Installs : InstallAsked(i) <=> (InstallAsked(i)' \/ i = m.i)
          /\ In(toAgent', WipeAsks) <=> In(toAgent, WipeAsks)
          /\ \A g \in Builds :
               In(toAgent, OtherBuilds(g)) <=> (In(toAgent', OtherBuilds(g)) \/ m.build # g)
      BY <2>1, InstallTaken
    <2>3. place \in PlaceType
      BY DEF TypeInv, TypeOK, PlaceType
    <2> HIDE DEF m
    <2>4. \A i \in Installs : i # m.i => place'[i] = place[i]
      BY <2>1, <2>3 DEF PlaceType
    <2>5. Wiping' => Wiping
      BY <2>1, <2>2, WipingKept
    <2>6. ASSUME NEW i \in Installs
          PROVE  /\ InstallAsked(i)' => InstallAsked(i)
                 /\ Placing(i)' => \/ Placing(i) /\ place'[i].build = place[i].build
                                   \/ /\ InstallAsked(i)
                                      /\ \A g \in Builds : ~In(toAgent, OtherBuilds(g))
                                                             => place'[i].build = g
                 /\ In(toRelay', Dones(i)) => In(toRelay, Dones(i))
      <3>1. CASE i = m.i
        BY <2>1, <2>2, <3>1 DEF RelaySame
      <3>2. CASE i # m.i
        BY <2>1, <2>2, <2>4, <3>2 DEF RelaySame, Placing
      <3> QED
        BY <3>1, <3>2
    <2>7. \A g \in Builds : In(toAgent', OtherBuilds(g)) => In(toAgent, OtherBuilds(g))
      BY <2>2
    <2> QED
      BY <2>1, <2>5, <2>6, <2>7, RecordKept
  <1> QED
    BY <1>1, <1>2

LEMMA RecordMoves ==
  ASSUME TypeInv, TypeInv', RecordInv, NEW b \in Boots, BootMoves(b)
  PROVE  RecordInv'
  <1>1. /\ UNCHANGED <<sess, place, toAgent, crossed>> /\ AgentSame
        /\ task \in TaskType /\ task[b] # NoTask
    BY AgentUntouched DEF BootMoves, GoesOn, Stops, IsReady, TypeInv, TypeOK, TaskType
  <1>2. /\ \A c \in Boots : c # b => task'[c] = task[c]
        /\ task'[b] # NoTask => task'[b].erase = task[b].erase /\ task'[b].reset = task[b].reset
    BY <1>1 DEF BootMoves, GoesOn, Stops, IsReady, TaskType
  <1>3. Wiping' => Wiping
    BY <1>1, <1>2, WipingKept DEF AgentSame
  <1>4. app' = app \/ Wiping
    BY <1>1 DEF BootMoves, Wiping
  <1>5. \A i \in Installs : In(toRelay', Dones(i)) => In(toRelay, Dones(i))
    <2>1. \/ RelaySame
          \/ toRelay' = Append(toRelay, [t |-> "boot-error", b |-> b])
          \/ \E cold \in BOOLEAN :
               toRelay' = Append(toRelay, [t |-> "ready", b |-> b, cold |-> cold])
      <3>1. (task[b].cold \/ task[b].erase) \in BOOLEAN
        OBVIOUS
      <3> QED
        BY <3>1, RelayUntouched DEF BootMoves, GoesOn, Stops, IsReady
    <2> QED
      BY <2>1, ErrorAdded, ReadyAdded DEF RelaySame
  <1>6. \A i \in Installs :
          /\ InstallAsked(i)' => InstallAsked(i)
          /\ Placing(i)' => Placing(i) /\ place'[i].build = place[i].build
    BY <1>1 DEF AgentSame, Placing
  <1> QED
    BY <1>1, <1>3, <1>4, <1>5, <1>6, RecordKept DEF AgentSame

\* The one install that goes on is the one under way, and its build is that one's.
LEMMA RecordCarried ==
  ASSUME TypeInv, TypeInv', InstallInv, RecordInv, NEW i \in Installs,
         InstallClears(i) \/ \E done \in BOOLEAN : InstallEnds(i, done)
  PROVE  RecordInv'
  <1>1. /\ PlaceOnly(i) /\ UNCHANGED <<sess, task, crossed>> /\ AgentSame
    BY InstallClearsIs, InstallEndsIs DEF PlaceOnly
  <1>2. Placing(i) /\ \A j \in Installs : j # i => place'[j] = place[j]
    BY <1>1 DEF PlaceOnly, Placing
  <1> SUFFICES ASSUME "install" \notin crossed
               PROVE  RecordInv'
    BY <1>1 DEF RecordInv
  <1>3. sess.inst = None
    BY <1>2 DEF RecordInv
  <1>4. CASE sess.going.req = None
    BY <1>1, <1>3, <1>4 DEF RecordInv
  <1>5. CASE sess.going.req # None
    <2>1. /\ ~Wiping /\ sess.going.build \in Builds /\ sess.going.req = i
          /\ \A j \in Installs : InstallAsked(j) \/ Placing(j) => j = i
          /\ ~In(toAgent, OtherBuilds(sess.going.build))
          /\ place[i].build = sess.going.build
      BY <1>2, <1>5 DEF RecordInv
    <2>2. ~Wiping'
      BY <1>1, <2>1, WipingKept DEF AgentSame
    <2>3. ~In(toRelay, Dones(i))
      <3>1. ~InstallTold(i)
        BY <1>2 DEF InstallInv, InstallRight
      <3> QED
        BY <3>1, InstallParts
    <2>4. /\ Placing(i)' => place'[i].build = place[i].build
          /\ In(toRelay', Dones(i)) => app' = place[i].build
      <3>1. CASE InstallClears(i)
        BY <2>3, <3>1, InstallClearsIs DEF RelaySame
      <3>2. CASE \E done \in BOOLEAN : InstallEnds(i, done)
        <4>1. PICK done \in BOOLEAN :
                /\ place'[i].stage = "none"
                /\ app' = IF done THEN place[i].build ELSE app
                /\ toRelay' = IF link
                              THEN Append(toRelay, [t |-> "installed", i |-> i, done |-> done])
                              ELSE toRelay
          BY <3>2, InstallEndsIs
        <4>2. ~Placing(i)'
          BY <4>1 DEF Placing
        <4>3. In(toRelay', Dones(i)) => done
          <5>1. CASE link
            BY <2>3, <4>1, <5>1, InstalledAdded
          <5>2. CASE ~link
            BY <2>3, <4>1, <5>2
          <5> QED
            BY <5>1, <5>2
        <4> QED
          BY <4>1, <4>2, <4>3
      <3> QED
        BY <3>1, <3>2
    <2>5. \A j \in Installs : InstallAsked(j)' \/ Placing(j)' => j = i
      BY <1>1, <1>2, <2>1 DEF AgentSame, Placing
    <2>6. ~In(toAgent', OtherBuilds(sess.going.build))
      BY <1>1, <2>1 DEF AgentSame
    <2> QED
      BY <1>1, <1>3, <2>1, <2>2, <2>4, <2>5, <2>6 DEF RecordInv
  <1> QED
    BY <1>4, <1>5

\* The link is lost, or what was on its way is dropped: there is only less.
LEMMA RecordCutOff ==
  ASSUME TypeInv, TypeInv', RecordInv,
         \/ \E died \in BOOLEAN : LinkLost(died)
         \/ Hold \/ Return
  PROVE  RecordInv'
  <1>1. /\ toAgent' = <<>> /\ UNCHANGED <<app, crossed>>
        /\ sess'.inst = sess.inst /\ sess'.going \in {sess.going, NoInst}
        /\ toRelay' = <<>> \/ RelaySame
    <2>1. CASE \E died \in BOOLEAN : LinkLost(died)
      BY <2>1, LinkLostIs
    <2>2. CASE Hold
      BY <2>2, HoldIs DEF OwedStays
    <2>3. CASE Return
      BY <2>3, ReturnIs
    <2> QED
      BY <2>1, <2>2, <2>3
  <1>2. /\ \A b \in Boots :
             \/ task'[b] = NoTask
             \/ /\ task[b] # NoTask
                /\ task'[b].erase = task[b].erase /\ task'[b].reset = task[b].reset
        /\ \A i \in Installs : place'[i] = place[i] \/ place'[i].stage = "none"
    <2>1. CASE \E died \in BOOLEAN : LinkLost(died)
      BY <2>1, LinkLostIs
    <2>2. CASE Hold \/ Return
      <3>1. UNCHANGED <<task, place>>
        BY <2>2, HoldIs, ReturnIs DEF OwedStays
      <3> QED
        BY <3>1
    <2> QED
      BY <2>1, <2>2
  <1>3. ~In(toAgent', WipeAsks) /\ \A g \in Builds : ~In(toAgent', OtherBuilds(g))
    BY <1>1, Nothing
  <1>4. Wiping' => Wiping
    BY <1>2, <1>3, WipingKept
  <1>5. \A i \in Installs :
          /\ InstallAsked(i)' => InstallAsked(i)
          /\ Placing(i)' => Placing(i) /\ place'[i].build = place[i].build
          /\ In(toRelay', Dones(i)) => In(toRelay, Dones(i))
    BY <1>1, <1>2, Nothing DEF InstallAsked, Placing, RelaySame
  <1> QED
    BY <1>1, <1>3, <1>4, <1>5, RecordKept

LEMMA RecordStepKept ==
  ASSUME TypeInv, TypeInv', InstallInv, RecordInv, Step
  PROVE  RecordInv'
  <1>1. CASE Aside
    <2>1. /\ sess'.inst = sess.inst /\ sess'.going = sess.going
          /\ AgentSame /\ RelaySame /\ UNCHANGED <<task, place, app, crossed>>
      BY <1>1 DEF Aside, Alike
    <2> QED
      BY <2>1, RecordAside DEF RelaySame
  <1>2. CASE Drop \/ Leave \/ ShutdownDone \/ HoldEnds
    <2>1. /\ AgentSame /\ RelaySame /\ OwedStays
          /\ sess'.inst \in {sess.inst, None} /\ sess'.going \in {sess.going, NoInst}
      BY <1>2, GoneIs, ShutdownDoneIs, HoldEndsIs DEF Alike
    <2> QED
      BY <2>1, RecordAside DEF RelaySame, OwedStays
  <1>3. CASE \E b \in Boots : RunsOut(b) \/ Refused(b)
    <2>1. sess' = sess /\ AgentSame /\ RelaySame /\ OwedStays
      BY <1>3, RunsOutIs DEF Refused, OwedOnly
    <2> QED
      BY <2>1, RecordAside DEF RelaySame, OwedStays
  <1>4. CASE \E s \in Session, b \in Boots, erase, reset \in BOOLEAN : Sends(s, b, erase, reset)
    BY <1>4, RecordBootSent
  <1>5. CASE \E i \in Installs, build \in Builds, keep \in BOOLEAN : Install(i, build, keep)
    BY <1>5, RecordInstall
  <1>6. CASE \E b \in Boots, cold \in BOOLEAN : Ready(b, cold)
    <2>1. PICK b \in Boots, cold \in BOOLEAN :
            Reads([t |-> "ready", b |-> b, cold |-> cold]) /\ ReadySettles(b, cold)
      BY <1>6, ReadyIs
    <2>2. \A i \in Installs : In(toRelay', Dones(i)) <=> In(toRelay, Dones(i))
      BY <2>1, ReadyTaken DEF Reads
    <2>3. sess'.inst \in {sess.inst, None} /\ sess'.going = sess.going
      BY <2>1 DEF ReadySettles
    <2> QED
      BY <2>1, <2>2, <2>3, RecordAside DEF Reads
  <1>7. CASE \E b \in Boots : BootError(b)
    <2>1. PICK b \in Boots : Reads([t |-> "boot-error", b |-> b])
                             /\ sess'.going = sess.going /\ sess'.inst = sess.inst
      BY <1>7, BootErrorIs
    <2>2. \A i \in Installs : In(toRelay', Dones(i)) <=> In(toRelay, Dones(i))
      BY <2>1, ErrorTaken DEF Reads
    <2> QED
      BY <2>1, <2>2, RecordAside DEF Reads
  <1>8. CASE \E i \in Installs, done \in BOOLEAN : InstallReply(i, done)
    BY <1>8, RecordRead
  <1>9. CASE TakeBoot \/ TakeInstall
    BY <1>9, RecordTake
  <1>10. CASE \E b \in Boots : BootMoves(b)
    BY <1>10, RecordMoves
  <1>11. CASE \E i \in Installs : InstallClears(i) \/ \E done \in BOOLEAN : InstallEnds(i, done)
    BY <1>11, RecordCarried
  <1>12. CASE (\E died \in BOOLEAN : LinkLost(died)) \/ Hold \/ Return
    BY <1>12, RecordCutOff
  <1> QED
    BY <1>1, <1>2, <1>3, <1>4, <1>5, <1>6, <1>7, <1>8, <1>9, <1>10, <1>11, <1>12 DEF Step

-----------------------------------------------------------------------------
(* Who brought the device up.                                               *)

\* One session's record follows from another's without a new boot: it is the same,
\* ripened, put back or cleared.
Eases(s, t) ==
  /\ t.pend = NoPend <=> t.pend.req = None
  /\ NotAutomations(s) => NotAutomations(t)
  /\ \A b \in Boots :
       /\ t.pend.req = b => s.pend.req = b /\ t.last = s.last
       /\ t.exp.req = b => \/ s.exp.req = b /\ t.exp.by = s.exp.by
                           \/ s.pend.req = b /\ t.exp.by = s.last

LEMMA AlikeEases ==
  ASSUME NEW s, NEW t, s.pend = NoPend <=> s.pend.req = None,
         SameRecord(s, t) \/ Ripens(s, t)
  PROVE  Eases(s, t)
  <1>1. NoPend.req = None /\ None \notin Boots
    BY NoneTypes, RequestsAssumption
  <1>2. CASE SameRecord(s, t)
    BY <1>2 DEF SameRecord, Eases, NotAutomations
  <1>3. CASE Ripens(s, t)
    BY <1>1, <1>3 DEF Ripens, Eases, NotAutomations
  <1> QED
    BY <1>2, <1>3

\* A record is put back: the boot was not answered, or had found the device up.
LEMMA UndoneEases ==
  ASSUME NEW s, NEW t, t.exp = s.exp, t.pend = NoPend, t.last = s.pend.prev,
         s.pend # NoPend
  PROVE  Eases(s, t)
  BY NoneTypes, RequestsAssumption DEF Eases, NotAutomations

LEMMA ClearedEases ==
  ASSUME NEW s, NEW t, t.exp = NoExp, s.pend = NoPend <=> s.pend.req = None,
         \/ t.pend = s.pend /\ t.last = IF s.pend = NoPend THEN None ELSE s.last
         \/ t.pend = NoPend /\ t.last = None
  PROVE  Eases(s, t)
  <1>1. /\ NoPend.req = None /\ NoExp.req = None /\ None \notin Boots /\ None # "ai"
    BY NoneTypes, RequestsAssumption DEF Kinds
  <1>2. CASE t.pend = NoPend /\ t.last = None
    BY <1>1, <1>2 DEF Eases, NotAutomations
  <1>3. CASE t.pend = s.pend /\ s.pend # NoPend /\ t.last = s.last
    BY <1>1, <1>3 DEF Eases, NotAutomations
  <1> QED
    BY <1>2, <1>3

LEMMA OwnKept ==
  ASSUME OwnInv, Eases(sess, sess'), UNCHANGED asker,
         "boot" \in crossed => "boot" \in crossed',
         \A b \in Boots : (owed'[b] = "none" => owed[b] = "none") /\ (Live(b)' => Live(b)),
         theirs' => theirs,
         "boot" \notin crossed /\ theirs' =>
           /\ power \in {"on", "stopping"} => power' \in {"on", "stopping"}
           /\ power \in {"on", "stopping"} /\ NoneCold => NoneCold'
  PROVE  OwnInv'
  <1>1. sess'.pend = NoPend <=> sess'.pend.req = None
    BY DEF Eases
  <1>2. \A b \in Boots : owed'[b] = "none" => sess'.pend.req # b /\ sess'.exp.req # b
    BY DEF OwnInv, Eases
  <1>3. ASSUME "boot" \notin crossed'
        PROVE  /\ \A b, c \in Boots : Live(b)' /\ Live(c)' => b = c
               /\ theirs' => /\ power' \in {"on", "stopping"}
                             /\ NotAutomations(sess') /\ NoneCold'
               /\ \A b \in Boots : Live(b)' => /\ sess'.pend.req = b => sess'.last = asker'[b]
                                               /\ sess'.exp.req = b => sess'.exp.by = asker'[b]
    <2>1. /\ \A b, c \in Boots : Live(b) /\ Live(c) => b = c
          /\ theirs => power \in {"on", "stopping"} /\ NotAutomations(sess) /\ NoneCold
          /\ \A b \in Boots : Live(b) => /\ sess.pend.req = b => sess.last = asker[b]
                                         /\ sess.exp.req = b => sess.exp.by = asker[b]
      BY <1>3 DEF OwnInv
    <2>2. \A b, c \in Boots : Live(b)' /\ Live(c)' => b = c
      BY <2>1
    <2>3. theirs' => /\ power' \in {"on", "stopping"}
                     /\ NotAutomations(sess') /\ NoneCold'
      BY <1>3, <2>1 DEF Eases
    <2>4. \A b \in Boots : Live(b)' => /\ sess'.pend.req = b => sess'.last = asker'[b]
                                       /\ sess'.exp.req = b => sess'.exp.by = asker'[b]
      BY <2>1 DEF Eases
    <2> QED
      BY <2>2, <2>3, <2>4
  <1> QED
    BY <1>1, <1>2, <1>3 DEF OwnInv, NotAutomations

\* A ready is a boot's answer.
LEMMA ReadyTold ==
  ASSUME NEW q, In(q, ColdReadies)
  PROVE  \E b \in Boots : In(q, BootAnswers(b))
  <1>1. PICK n \in 1..Len(q) : q[n] \in ColdReadies
    BY DEF In
  <1>2. PICK b \in Boots : q[n] \in BootAnswers(b)
    BY <1>1 DEF ColdReadies, BootAnswers
  <1> QED
    BY <1>2 DEF In

LEMMA OwnBootSent ==
  ASSUME TypeInv, OwnInv, NEW s \in Session, NEW b \in Boots,
         NEW erase \in BOOLEAN, NEW reset \in BOOLEAN, Sends(s, b, erase, reset)
  PROVE  OwnInv'
  <1>1. Sent(s, b, erase, reset) /\ Eases(sess, s)
    BY SentIs, AlikeEases DEF Sends, Alike, OwnInv
  <1>2. /\ owed[b] = "none" /\ RelaySame
        /\ UNCHANGED <<task, power, theirs>>
        /\ toAgent' = Append(toAgent, [t |-> "boot", b |-> b, erase |-> erase, reset |-> reset])
        /\ sess' = Forwarded(s, b, erase, reset)
        /\ asker' = [asker EXCEPT ![b] = s.holder]
        /\ "boot" \in crossed' <=> "boot" \in crossed \/ Unanswered # {}
    BY <1>1 DEF Sent
  <1>3. \A c \in Boots : owed'[c] = "none" => owed[c] = "none" /\ c # b
    <2>1. owed \in OwedType
      BY DEF TypeInv, TypeOK, OwedType
    <2>2. /\ owed'[b] = "open"
          /\ \A c \in Boots \ {b} :
               owed'[c] = Answered(owed, IF erase \/ reset THEN sess.going.waiters ELSE {})[c]
      BY <1>1 DEF Sent
    <2> DEFINE W == IF erase \/ reset THEN sess.going.waiters ELSE {}
    <2>3. \A c \in Boots \ {b} : owed'[c] = Answered(owed, W)[c]
      BY <2>2
    <2> HIDE DEF W
    <2> QED
      BY <2>1, <2>2, <2>3, AnsweredIs DEF OwedType
  <1>4. /\ sess'.exp = s.exp
        /\ \/ /\ sess'.last = s.holder /\ sess'.pend.req = b /\ sess'.pend # NoPend
              /\ sess'.pend.prev = IF s.pend = NoPend THEN s.last ELSE s.pend.prev
           \/ sess'.last = s.last /\ sess'.pend = s.pend
    BY <1>2, ForwardedIs
  <1>5. b # None /\ s.pend.req # b /\ s.exp.req # b
    BY <1>1, <1>2, RequestsAssumption DEF Eases, OwnInv
  <1>6. sess'.pend = NoPend <=> sess'.pend.req = None
    BY <1>1, <1>4, <1>5 DEF Eases
  <1>7. \A c \in Boots : owed'[c] = "none" => sess'.pend.req # c /\ sess'.exp.req # c
    BY <1>1, <1>3, <1>4 DEF Eases, OwnInv
  <1>8. ASSUME "boot" \notin crossed'
        PROVE  /\ \A c, d \in Boots : Live(c)' /\ Live(d)' => c = d
               /\ theirs' => /\ power' \in {"on", "stopping"}
                             /\ NotAutomations(sess') /\ NoneCold'
               /\ \A c \in Boots : Live(c)' => /\ sess'.pend.req = c => sess'.last = asker'[c]
                                               /\ sess'.exp.req = c => sess'.exp.by = asker'[c]
    <2>1. "boot" \notin crossed /\ \A c \in Boots : ~Live(c)
      BY <1>2, <1>8, UnansweredIs
    <2>2. /\ NoneCold
          /\ \A c \in Boots : task[c] = NoTask /\ ~Asked(c) /\ ~Told(c)
      BY <2>1, ReadyTold DEF NoneCold, Live, Told
    <2>3. \A c \in Boots : Live(c)' => c = b
      BY <1>2, <2>2, BootAdded DEF Live, RelaySame
    <2>4. NoneCold'
      BY <1>2, <2>2 DEF NoneCold, RelaySame
    <2>5. theirs' => power' \in {"on", "stopping"} /\ NotAutomations(sess')
      <3>1. theirs => power \in {"on", "stopping"} /\ NotAutomations(s)
        BY <1>1, <2>1 DEF OwnInv, Eases
      <3> QED
        BY <1>2, <1>4, <3>1 DEF NotAutomations
    <2>6. asker'[b] = s.holder
      BY <1>2 DEF TypeInv, TypeOK
    <2>7. /\ sess'.pend.req = b => sess'.last = asker'[b]
          /\ sess'.exp.req # b
      BY <1>4, <1>5, <2>6
    <2> QED
      BY <2>3, <2>4, <2>5, <2>7
  <1> QED
    BY <1>6, <1>7, <1>8 DEF OwnInv, NotAutomations

\* The device came up: by its boot's asker, or, once that is forgotten, by a guess
\* that goes by who holds the session.
LEMMA OwnReady ==
  ASSUME TypeInv, BootInv, OwnInv, NEW b \in Boots, NEW cold \in BOOLEAN, Ready(b, cold)
  PROVE  OwnInv'
  <1>1. /\ TypeInv' /\ Reads([t |-> "ready", b |-> b, cold |-> cold])
        /\ ReadySettles(b, cold) /\ owed' = Answered(owed, {b})
        /\ theirs' = (theirs \/ (/\ cold /\ power = "on"
                                 /\ asker[b] = "person"
                                 /\ sess.holder = "ai" => b \in {sess.pend.req, sess.exp.req}))
    BY ReadyIs
  <1>2. /\ \A c \in Boots :
              /\ Told(c) <=> (Told(c)' \/ c = b)
              /\ Once(toRelay, BootAnswers(c)) => /\ Once(toRelay', BootAnswers(c))
                                                  /\ c = b => ~Told(c)'
        /\ In(toRelay, ColdReadies) <=> (In(toRelay', ColdReadies) \/ cold)
    BY <1>1, ReadyTaken DEF Reads
  <1>3. AgentSame /\ UNCHANGED <<task, power, asker, crossed>>
    BY <1>1 DEF Reads
  <1>4. \A c \in Boots : (owed'[c] = "none" => owed[c] = "none") /\ (Live(c)' => Live(c))
    <2>1. owed \in OwedType
      BY DEF TypeInv, TypeOK, OwedType
    <2>2. \A c \in Boots : owed'[c] = "none" => owed[c] = "none"
      BY <1>1, <2>1, AnsweredIs DEF OwedType
    <2> QED
      BY <1>2, <1>3, <2>2 DEF AgentSame, Live
  <1>5. b # None /\ NoPend.req = None
    BY RequestsAssumption, NoneTypes
  <1>6. CASE ~cold
    <2>1. Eases(sess, sess')
      <3>1. CASE sess.pend.req = b
        BY <1>1, <1>5, <1>6, <3>1, UndoneEases DEF ReadySettles
      <3>2. CASE sess.pend.req # b
        BY <1>1, <1>6, <3>2, AlikeEases DEF ReadySettles, OwnInv
      <3> QED
        BY <3>1, <3>2
    <2>2. NoneCold => NoneCold'
      BY <1>2, <1>3 DEF NoneCold
    <2> QED
      BY <1>1, <1>3, <1>4, <1>6, <2>1, <2>2, OwnKept
  <1>7. CASE cold
    <2>1. /\ sess'.exp = sess.exp
          /\ sess.pend.req = b => sess'.pend = NoPend /\ sess'.last = sess.last
          /\ sess.pend.req # b =>
               /\ sess'.last = IF sess.exp.req = b THEN sess.exp.by
                               ELSE IF sess.holder = "ai" THEN "ai" ELSE "person"
               /\ sess'.pend.req = sess.pend.req
               /\ sess.pend = NoPend => sess'.pend = NoPend
               /\ sess.pend # NoPend => sess'.pend.prev = sess'.last
      BY <1>1, <1>7 DEF ReadySettles
    <2>2. sess.pend = NoPend <=> sess.pend.req = None
      BY DEF OwnInv
    <2>3. sess'.pend = NoPend <=> sess'.pend.req = None
      BY <1>5, <2>1, <2>2
    <2>4. \A c \in Boots : owed'[c] = "none" => sess'.pend.req # c /\ sess'.exp.req # c
      <3>1. None \notin Boots
        BY RequestsAssumption
      <3> QED
        BY <1>4, <1>5, <2>1, <3>1 DEF OwnInv
    <2>5. ASSUME "boot" \notin crossed'
          PROVE  /\ \A c \in Boots : ~Live(c)'
                 /\ theirs' => power' \in {"on", "stopping"} /\ NotAutomations(sess') /\ NoneCold'
      <3>1. Live(b) /\ "boot" \notin crossed /\ In(toRelay, ColdReadies)
        BY <1>2, <1>3, <1>7, <2>5 DEF Live
      <3>2. /\ \A c \in Boots : Live(c) => c = b
            /\ ~theirs
            /\ sess.pend.req = b => sess.last = asker[b]
            /\ sess.exp.req = b => sess.exp.by = asker[b]
        BY <3>1 DEF OwnInv, NoneCold
      <3>3. ~Live(b)'
        <4>1. BootRight(b) /\ Told(b)
          BY <1>2 DEF BootInv
        <4>2. ~Told(b)' /\ ~Asked(b) /\ task[b] = NoTask
          BY <1>2, <4>1 DEF BootRight
        <4> QED
          BY <1>3, <4>2 DEF Live, AgentSame
      <3>4. \A c \in Boots : ~Live(c)'
        BY <1>4, <3>2, <3>3
      <3>5. NoneCold'
        BY <3>4, ReadyTold DEF NoneCold, Live, Told
      <3>6. ASSUME theirs'
            PROVE  NotAutomations(sess') /\ power' = "on"
        <4>1. /\ asker[b] = "person" /\ power = "on"
              /\ sess.holder = "ai" => sess.pend.req = b \/ sess.exp.req = b
          BY <1>1, <3>2, <3>6
        <4>2. sess'.last = "person" /\ (sess.pend.req = b => sess'.pend = NoPend)
          BY <2>1, <3>2, <4>1
        <4>3. sess.pend.req # b /\ sess.pend # NoPend => sess'.pend.prev = "person"
          BY <2>1, <4>2
        <4>4. sess.pend = NoPend => sess'.pend = NoPend
          BY <1>5, <2>1, <2>2
        <4> QED
          BY <1>3, <4>1, <4>2, <4>3, <4>4 DEF NotAutomations
      <3> QED
        BY <1>1, <3>4, <3>5, <3>6
    <2> QED
      BY <2>3, <2>4, <2>5 DEF OwnInv, NotAutomations
  <1> QED
    BY <1>6, <1>7

LEMMA OwnBootError ==
  ASSUME TypeInv, OwnInv, NEW b \in Boots, BootError(b)
  PROVE  OwnInv'
  <1>1. /\ Reads([t |-> "boot-error", b |-> b])
        /\ sess'.exp = sess.exp
        /\ \/ sess' = sess
           \/ sess.pend.req = b /\ sess'.pend = NoPend /\ sess'.last = sess.pend.prev
        /\ owed' = Answered(owed, {b}) /\ theirs' = theirs
    BY BootErrorIs
  <1>2. /\ \A c \in Boots : Told(c) <=> (Told(c)' \/ c = b)
        /\ In(toRelay, ColdReadies) <=> In(toRelay', ColdReadies)
    BY <1>1, ErrorTaken DEF Reads
  <1>3. AgentSame /\ UNCHANGED <<task, power, asker, crossed>>
    BY <1>1 DEF Reads
  <1>4. \A c \in Boots : (owed'[c] = "none" => owed[c] = "none") /\ (Live(c)' => Live(c))
    <2>1. owed \in OwedType
      BY DEF TypeInv, TypeOK, OwedType
    <2>2. \A c \in Boots : owed'[c] = "none" => owed[c] = "none"
      BY <1>1, <2>1, AnsweredIs DEF OwedType
    <2> QED
      BY <1>2, <1>3, <2>2 DEF AgentSame, Live
  <1>5. Eases(sess, sess')
    <2>1. CASE sess' = sess
      BY <2>1, AlikeEases DEF SameRecord, OwnInv
    <2>2. CASE sess.pend.req = b /\ sess'.pend = NoPend /\ sess'.last = sess.pend.prev
      <3>1. sess.pend # NoPend
        BY <2>2, RequestsAssumption, NoneTypes
      <3> QED
        BY <1>1, <2>2, <3>1, UndoneEases
    <2> QED
      BY <1>1, <2>1, <2>2
  <1>6. NoneCold => NoneCold'
    BY <1>2, <1>3 DEF NoneCold
  <1> QED
    BY <1>1, <1>3, <1>4, <1>5, <1>6, OwnKept

LEMMA OwnTakeBoot ==
  ASSUME TypeInv, OwnInv, TakeBoot
  PROVE  OwnInv'
  <1> DEFINE m == Head(toAgent)
  <1>1. /\ RelaySame /\ UNCHANGED <<sess, power, owed, theirs, asker, crossed>>
        /\ toAgent # <<>> /\ m.t = "boot" /\ toAgent' = Tail(toAgent)
        /\ task' = [task EXCEPT ![m.b] = task'[m.b]]
        /\ task'[m.b].stage = "listing"
    BY TakeBootIs
  <1>2. m.b \in Boots /\ \A c \in Boots : Asked(c) <=> (Asked(c)' \/ c = m.b)
    BY <1>1, BootTaken
  <1>3. task \in TaskType
    BY DEF TypeInv, TypeOK, TaskType
  <1> HIDE DEF m
  <1>4. \A c \in Boots : c # m.b => task'[c] = task[c]
    BY <1>1, <1>3 DEF TaskType
  <1>5. \A c \in Boots : Live(c)' => Live(c)
    BY <1>1, <1>2, <1>4 DEF Live, RelaySame
  <1>6. NoneCold => NoneCold'
    <2>1. ~In(toRelay, ColdReadies) => ~In(toRelay', ColdReadies)
      BY <1>1 DEF RelaySame
    <2> QED
      BY <1>1, <1>4, <2>1 DEF NoneCold
  <1>7. Eases(sess, sess')
    BY <1>1, AlikeEases DEF SameRecord, OwnInv
  <1> QED
    BY <1>1, <1>5, <1>6, <1>7, OwnKept

LEMMA OwnMoves ==
  ASSUME TypeInv, OwnInv, NEW b \in Boots, BootMoves(b)
  PROVE  OwnInv'
  <1>1. /\ UNCHANGED <<sess, toAgent, owed, asker, crossed>> /\ AgentSame
        /\ task \in TaskType /\ task[b] # NoTask
    BY AgentUntouched DEF BootMoves, GoesOn, Stops, IsReady, TypeInv, TypeOK, TaskType
  <1>2. \A c \in Boots : c # b => task'[c] = task[c]
    BY <1>1 DEF BootMoves, GoesOn, Stops, IsReady, TaskType
  <1>3. Eases(sess, sess')
    BY <1>1, AlikeEases DEF SameRecord, OwnInv
  <1>4. theirs' => theirs /\ (power \in {"on", "stopping"} => power' \in {"on", "stopping"})
    BY DEF BootMoves, DeviceMoves
  <1> DEFINE cold == task[b].cold \/ task[b].erase
  <1>5. \/ /\ GoesOn(b) /\ RelaySame
        \/ /\ task'[b] = NoTask
           /\ \/ RelaySame
              \/ /\ \A c \in Boots : Told(c)' <=> (Told(c) \/ c = b)
                 /\ In(toRelay', ColdReadies)
                      => In(toRelay, ColdReadies) \/ (task[b].stage = "opening" /\ cold)
    <2>1. CASE GoesOn(b)
      BY <2>1 DEF GoesOn
    <2>2. CASE Stops(b)
      <3>1. task'[b] = NoTask
        BY <1>1, <2>2 DEF Stops, TaskType
      <3>2. RelaySame \/ toRelay' = Append(toRelay, [t |-> "boot-error", b |-> b])
        BY <2>2, RelayUntouched DEF Stops
      <3> QED
        BY <3>1, <3>2, ErrorAdded
    <2>3. CASE IsReady(b)
      <3>1. task'[b] = NoTask
        BY <1>1, <2>3 DEF IsReady, TaskType
      <3>2. RelaySame \/ toRelay' = Append(toRelay, [t |-> "ready", b |-> b, cold |-> cold])
        BY <2>3, RelayUntouched DEF IsReady
      <3>3. cold \in BOOLEAN /\ task[b].stage = "opening"
        BY <2>3 DEF IsReady
      <3> HIDE DEF cold
      <3> QED
        BY <3>1, <3>2, <3>3, ReadyAdded
    <2> QED
      BY <2>1, <2>2, <2>3 DEF BootMoves
  <1> HIDE DEF cold
  <1>6. \A c \in Boots : Live(c)' => Live(c)
    BY <1>1, <1>2, <1>5 DEF Live, AgentSame, RelaySame
  <1>7. ASSUME theirs', power \in {"on", "stopping"}, NoneCold
        PROVE  NoneCold'
    <2>1. \A c \in Boots : c # b /\ task'[c] # NoTask
                             /\ task'[c].stage \notin {"listing", "stopping"}
                             => ~task'[c].cold /\ ~task'[c].erase
      BY <1>2, <1>7 DEF NoneCold
    <2>2. task[b].stage \notin {"listing", "stopping"} => ~task[b].cold /\ ~task[b].erase
      BY <1>1, <1>7 DEF NoneCold
    <2>3. ~In(toRelay', ColdReadies)
      <3>1. ~In(toRelay, ColdReadies)
        BY <1>7 DEF NoneCold
      <3> QED
        BY <1>5, <2>2, <3>1 DEF RelaySame, cold
    <2>4. task'[b] # NoTask /\ task'[b].stage \notin {"listing", "stopping"}
            => ~task'[b].cold /\ ~task'[b].erase
      <3>1. SUFFICES ASSUME task'[b] # NoTask, task'[b].stage \notin {"listing", "stopping"}
                     PROVE  ~task'[b].cold /\ ~task'[b].erase
        OBVIOUS
      <3>2. /\ task'[b].erase = task[b].erase
            /\ IF task[b].stage \in {"listing", "stopping"}
               THEN power = "off" \/ (~task'[b].cold /\ ~task'[b].erase)
               ELSE task'[b].cold = task[b].cold
        BY <1>5, <1>7, <3>1 DEF BootMoves, GoesOn
      <3> QED
        BY <1>7, <2>2, <3>2
    <2> QED
      BY <2>1, <2>3, <2>4 DEF NoneCold
  <1> QED
    BY <1>1, <1>3, <1>4, <1>6, <1>7, OwnKept

LEMMA OwnCutOff ==
  ASSUME TypeInv, OwnInv,
         \/ \E died \in BOOLEAN : LinkLost(died)
         \/ Hold \/ Return
  PROVE  OwnInv'
  <1>1. /\ toAgent' = <<>> /\ UNCHANGED <<power, theirs, asker, crossed>>
        /\ toRelay' = <<>> \/ RelaySame
    <2>1. CASE \E died \in BOOLEAN : LinkLost(died)
      BY <2>1, LinkLostIs
    <2>2. CASE Hold
      BY <2>2, HoldIs DEF OwedStays
    <2>3. CASE Return
      BY <2>3, ReturnIs
    <2> QED
      BY <2>1, <2>2, <2>3
  <1>2. Eases(sess, sess')
    <2>1. CASE \E died \in BOOLEAN : LinkLost(died)
      <3>1. sess' = sess
        BY <2>1, LinkLostIs
      <3> QED
        BY <3>1, AlikeEases DEF SameRecord, OwnInv
    <2>2. CASE Hold
      <3>1. SameRecord(sess, sess')
        BY <2>2, HoldIs
      <3> QED
        BY <3>1, AlikeEases DEF OwnInv
    <2>3. CASE Return
      <3>1. /\ sess'.exp = sess.exp
            /\ \/ sess'.pend = sess.pend /\ sess'.last = sess.last
               \/ sess.pend.req # None /\ sess'.pend = NoPend /\ sess'.last = sess.pend.prev
        BY <2>3, ReturnIs
      <3>2. CASE sess'.pend = sess.pend /\ sess'.last = sess.last
        BY <3>1, <3>2, AlikeEases DEF SameRecord, OwnInv
      <3>3. CASE sess.pend.req # None /\ sess'.pend = NoPend /\ sess'.last = sess.pend.prev
        BY <3>1, <3>3, UndoneEases, NoneTypes
      <3> QED
        BY <3>1, <3>2, <3>3
    <2> QED
      BY <2>1, <2>2, <2>3
  <1>3. \A b \in Boots : owed'[b] = "none" => owed[b] = "none"
    <2>1. owed \in OwedType
      BY DEF TypeInv, TypeOK, OwedType
    <2>2. \/ owed' = owed \/ owed' = Answered(owed, sess.going.waiters)
          \/ owed' = Answered(owed, sess.going.waiters \cup tracked)
      BY LinkLostIs, HoldIs, ReturnIs
    <2> QED
      BY <2>1, <2>2, AnsweredIs DEF OwedType
  <1>4. \A b \in Boots :
          \/ task'[b] = NoTask
          \/ /\ task[b] # NoTask
             /\ task'[b].stage = task[b].stage /\ task'[b].cold = task[b].cold
             /\ task'[b].erase = task[b].erase
    <2>1. CASE \E died \in BOOLEAN : LinkLost(died)
      BY <2>1, LinkLostIs
    <2>2. CASE Hold \/ Return
      <3>1. task' = task
        BY <2>2, HoldIs, ReturnIs DEF OwedStays
      <3> QED
        BY <3>1
    <2> QED
      BY <2>1, <2>2
  <1>5. \A b \in Boots : Live(b)' => Live(b)
    BY <1>1, <1>4, Nothing DEF Live, Asked, Told, RelaySame
  <1>6. NoneCold => NoneCold'
    BY <1>1, <1>4, Nothing DEF NoneCold, RelaySame
  <1> QED
    BY <1>1, <1>2, <1>3, <1>5, <1>6, OwnKept

\* No boot takes part: the boots are where they were.
LEMMA OwnAside ==
  ASSUME TypeInv, OwnInv, Eases(sess, sess'), UNCHANGED <<task, asker>>,
         \A b \in Boots : (Asked(b)' => Asked(b)) /\ (Told(b)' => Told(b)),
         In(toRelay', ColdReadies) => In(toRelay, ColdReadies),
         "boot" \in crossed => "boot" \in crossed',
         \A b \in Boots : owed'[b] = "none" => owed[b] = "none",
         DeviceMoves \/ UNCHANGED <<theirs, power>>
  PROVE  OwnInv'
  <1>1. \A b \in Boots : Live(b)' => Live(b)
    BY DEF Live
  <1>2. NoneCold => NoneCold'
    BY DEF NoneCold
  <1>3. theirs' => theirs /\ (power \in {"on", "stopping"} => power' \in {"on", "stopping"})
    BY DEF DeviceMoves
  <1> QED
    BY <1>1, <1>2, <1>3, OwnKept

LEMMA OwnInstall ==
  ASSUME TypeInv, OwnInv, NEW i \in Installs, NEW build \in Builds, NEW keep \in BOOLEAN,
         Install(i, build, keep)
  PROVE  OwnInv'
  <1>1. AnswersInstall(i) \/ JoinsInstall(i) \/ SendsInstall(i, build)
    BY InstallIs
  <1>2. owed \in OwedType /\ i \notin Boots
    BY RequestsAssumption DEF TypeInv, TypeOK, OwedType
  <1>3. CASE AnswersInstall(i) \/ JoinsInstall(i)
    <2>1. /\ AgentSame /\ RelaySame /\ OwedStays /\ SameRecord(sess, sess')
          /\ owed' \in {[owed EXCEPT ![i] = "answered"], [owed EXCEPT ![i] = "open"]}
      BY <1>3 DEF AnswersInstall, JoinsInstall, OwedOnly, SameRecord
    <2>2. \A b \in Boots : owed'[b] = owed[b]
      BY <1>2, <2>1 DEF OwedType
    <2>3. Eases(sess, sess')
      BY <2>1, AlikeEases DEF OwnInv
    <2> QED
      BY <2>1, <2>2, <2>3, OwnAside DEF AgentSame, RelaySame, OwedStays
  <1>4. CASE SendsInstall(i, build)
    <2>1. /\ RelaySame /\ UNCHANGED <<task, asker, theirs, power>> /\ SameRecord(sess, sess')
          /\ \A q \in (Boots \cup Installs) \ {i} : owed'[q] = Answered(owed, sess.going.waiters)[q]
          /\ toAgent' = Append(toAgent, [t |-> "install", i |-> i, build |-> build])
          /\ "boot" \in crossed' <=> "boot" \in crossed
      BY <1>4 DEF SendsInstall
    <2>2. \A b \in Boots : owed'[b] = "none" => owed[b] = "none"
      <3>1. \A b \in Boots : owed'[b] = Answered(owed, sess.going.waiters)[b]
        BY <1>2, <2>1
      <3> QED
        BY <1>2, <3>1, AnsweredIs DEF OwedType
    <2>3. Eases(sess, sess')
      BY <2>1, AlikeEases DEF OwnInv
    <2>4. \A b \in Boots : Asked(b)' => Asked(b)
      BY <2>1, InstallAdded
    <2> QED
      BY <2>1, <2>2, <2>3, <2>4, OwnAside DEF RelaySame
  <1> QED
    BY <1>1, <1>3, <1>4

LEMMA OwnInstalls ==
  ASSUME TypeInv, OwnInv,
         \/ \E i \in Installs, done \in BOOLEAN : InstallReply(i, done)
         \/ TakeInstall
         \/ \E i \in Installs : InstallClears(i) \/ \E done \in BOOLEAN : InstallEnds(i, done)
  PROVE  OwnInv'
  <1>1. owed \in OwedType
    BY DEF TypeInv, TypeOK, OwedType
  <1>2. CASE \E i \in Installs, done \in BOOLEAN : InstallReply(i, done)
    <2>1. PICK i \in Installs, done \in BOOLEAN :
            /\ Reads([t |-> "installed", i |-> i, done |-> done])
            /\ UNCHANGED theirs /\ SameRecord(sess, sess')
            /\ owed' \in {Answered(owed, {}), Answered(owed, sess.going.waiters)}
      BY <1>2, InstallReplyIs
    <2>2. \A b \in Boots : owed'[b] = "none" => owed[b] = "none"
      BY <1>1, <2>1, AnsweredIs DEF OwedType
    <2>3. Eases(sess, sess')
      BY <2>1, AlikeEases DEF OwnInv
    <2>4. /\ \A b \in Boots : Told(b)' => Told(b)
          /\ In(toRelay', ColdReadies) => In(toRelay, ColdReadies)
      BY <2>1, InstalledTaken DEF Reads
    <2>5. /\ UNCHANGED <<task, asker, power, crossed>>
          /\ \A b \in Boots : Asked(b)' => Asked(b)
      BY <2>1 DEF Reads, AgentSame
    <2> QED
      BY <2>1, <2>2, <2>3, <2>4, <2>5, OwnAside
  <1>3. CASE TakeInstall
    <2>1. /\ RelaySame /\ UNCHANGED <<sess, task, power, owed, theirs, asker, crossed>>
          /\ toAgent # <<>> /\ Head(toAgent).t = "install" /\ toAgent' = Tail(toAgent)
      BY <1>3, TakeInstallIs
    <2>2. \A b \in Boots : Asked(b)' => Asked(b)
      BY <2>1, InstallTaken
    <2>3. Eases(sess, sess')
      BY <2>1, AlikeEases DEF SameRecord, OwnInv
    <2> QED
      BY <2>1, <2>2, <2>3, OwnAside DEF RelaySame
  <1>4. CASE \E i \in Installs : InstallClears(i) \/ \E done \in BOOLEAN : InstallEnds(i, done)
    <2>1. PICK i \in Installs : InstallClears(i) \/ \E done \in BOOLEAN : InstallEnds(i, done)
      BY <1>4
    <2>2. PlaceOnly(i)
      BY <2>1, InstallClearsIs, InstallEndsIs
    <2>3. /\ \A b \in Boots : Told(b)' => Told(b)
          /\ In(toRelay', ColdReadies) => In(toRelay, ColdReadies)
      <3>1. \/ RelaySame
            \/ \E done \in BOOLEAN :
                 toRelay' = Append(toRelay, [t |-> "installed", i |-> i, done |-> done])
        BY <2>1, InstallClearsIs, InstallEndsIs, RelayUntouched
      <3> QED
        BY <3>1, InstalledAdded DEF RelaySame
    <2>4. Eases(sess, sess')
      BY <2>2, AlikeEases DEF PlaceOnly, SameRecord, OwnInv
    <2> QED
      BY <2>2, <2>3, <2>4, OwnAside DEF PlaceOnly, AgentSame
  <1> QED
    BY <1>2, <1>3, <1>4

LEMMA OwnStepKept ==
  ASSUME TypeInv, BootInv, OwnInv, Step
  PROVE  OwnInv'
  <1>1. owed \in OwedType
    BY DEF TypeInv, TypeOK, OwedType
  <1>2. CASE Aside
    <2>1. Eases(sess, sess')
      BY <1>2, AlikeEases DEF Aside, Alike, OwnInv
    <2> QED
      BY <1>2, <2>1, OwnAside DEF Aside, AgentSame, RelaySame
  <1>3. CASE Drop \/ Leave \/ HoldEnds \/ ShutdownDone
    <2>1. /\ AgentSame /\ RelaySame /\ OwedStays
          /\ owed' = Excused(owed) \/ owed' = Answered(owed, sess.going.waiters)
      BY <1>3, GoneIs, HoldEndsIs, ShutdownDoneIs
    <2>2. Eases(sess, sess')
      <3>1. CASE Drop \/ Leave
        BY <3>1, GoneIs, AlikeEases DEF Alike, OwnInv
      <3>2. CASE HoldEnds
        BY <3>2, HoldEndsIs, ClearedEases DEF OwnInv
      <3>3. CASE ShutdownDone
        BY <3>3, ShutdownDoneIs, ClearedEases DEF OwnInv
      <3> QED
        BY <1>3, <3>1, <3>2, <3>3
    <2>3. \A b \in Boots : owed'[b] = "none" => owed[b] = "none"
      BY <1>1, <2>1, AnsweredIs, ExcusedIs DEF OwedType
    <2> QED
      BY <2>1, <2>2, <2>3, OwnAside DEF AgentSame, RelaySame, OwedStays
  <1>4. CASE \E b \in Boots : RunsOut(b) \/ Refused(b)
    <2>1. PICK b \in Boots : RunsOut(b) \/ Refused(b)
      BY <1>4
    <2>2. OwedOnly(b, IF owed[b] = "open" THEN "excused" ELSE owed[b]) \/ OwedOnly(b, "answered")
      BY <2>1, RunsOutIs DEF Refused
    <2>3. sess' = sess /\ AgentSame /\ RelaySame /\ OwedStays
      BY <2>2 DEF OwedOnly
    <2>4. \A c \in Boots : owed'[c] = "none" => owed[c] = "none"
      BY <1>1, <2>2 DEF OwedOnly, OwedType
    <2>5. Eases(sess, sess')
      BY <2>3, AlikeEases DEF SameRecord, OwnInv
    <2> QED
      BY <2>3, <2>4, <2>5, OwnAside DEF AgentSame, RelaySame, OwedStays
  <1>5. CASE \E s \in Session, b \in Boots, erase, reset \in BOOLEAN : Sends(s, b, erase, reset)
    BY <1>5, OwnBootSent
  <1>6. CASE \E i \in Installs, build \in Builds, keep \in BOOLEAN : Install(i, build, keep)
    BY <1>6, OwnInstall
  <1>7. CASE \E b \in Boots, cold \in BOOLEAN : Ready(b, cold)
    BY <1>7, OwnReady
  <1>8. CASE \E b \in Boots : BootError(b)
    BY <1>8, OwnBootError
  <1>9. CASE \/ \E i \in Installs, done \in BOOLEAN : InstallReply(i, done)
             \/ TakeInstall
             \/ \E i \in Installs : InstallClears(i) \/ \E done \in BOOLEAN : InstallEnds(i, done)
    BY <1>9, OwnInstalls
  <1>10. CASE TakeBoot
    BY <1>10, OwnTakeBoot
  <1>11. CASE \E b \in Boots : BootMoves(b)
    BY <1>11, OwnMoves
  <1>12. CASE (\E died \in BOOLEAN : LinkLost(died)) \/ Hold \/ Return
    BY <1>12, OwnCutOff
  <1> QED
    BY <1>2, <1>3, <1>4, <1>5, <1>6, <1>7, <1>8, <1>9, <1>10, <1>11, <1>12 DEF Step

-----------------------------------------------------------------------------
(* The theorems.                                                            *)

LEMMA InitInv ==
  Init => IInv
  <1> SUFFICES ASSUME Init
               PROVE  IInv
    OBVIOUS
  <1>1. TypeInv
    BY InitTyped
  <1>2. /\ up /\ link /\ tracked = {} /\ toAgent = <<>> /\ toRelay = <<>>
        /\ \A b \in Boots : task[b] = NoTask /\ owed[b] = "none"
        /\ \A i \in Installs : place[i].stage = "none" /\ owed[i] = "none"
        /\ ~theirs
    BY DEF Init
  <1>3. sess.pend = NoPend /\ sess.exp = NoExp /\ sess.inst = None /\ sess.going = NoInst
    BY DEF Init, Unheld
  <1>4. /\ NoPend.req = None /\ NoExp.req = None /\ NoInst.req = None /\ NoInst.waiters = {}
        /\ NoTask.stage = "none" /\ None \notin Boots \cup Installs
    BY NoneTypes, TaskIs, RequestsAssumption
  <1>5. /\ \A b \in Boots : ~Asked(b) /\ ~Told(b) /\ ~Busy(b) /\ ~Mute(b) /\ ~Live(b)
                            /\ Once(toAgent, BootAsks(b)) /\ Once(toRelay, BootAnswers(b))
        /\ \A i \in Installs : /\ ~InstallAsked(i) /\ ~InstallTold(i) /\ ~Placing(i)
                               /\ Once(toAgent, InstallAsks(i))
                               /\ Once(toRelay, InstallAnswers(i))
    BY <1>2, Nothing DEF Asked, Told, Busy, Mute, Live, InstallAsked, InstallTold, Placing
  <1>6. LinkInv
    BY <1>2, <1>4, <1>5 DEF LinkInv
  <1>7. BootInv
    BY <1>2, <1>5 DEF BootInv, BootRight
  <1>8. InstallInv
    BY <1>2, <1>3, <1>4, <1>5 DEF InstallInv, InstallRight
  <1>9. RecordInv
    BY <1>3, <1>4 DEF RecordInv
  <1>10. OwnInv
    BY <1>2, <1>3, <1>4, <1>5 DEF OwnInv
  <1> QED
    BY <1>1, <1>6, <1>7, <1>8, <1>9, <1>10 DEF IInv

LEMMA NextInv ==
  IInv /\ [Next]_vars => IInv'
  <1> SUFFICES ASSUME IInv, [Next]_vars
               PROVE  IInv'
    OBVIOUS
  <1>1. TypeInv' /\ Step
    BY Steps DEF IInv, OwnInv, PendNamed
  <1>2. LinkInv'
    BY <1>1, LinkStep DEF IInv
  <1>3. BootInv'
    BY <1>1, BootStepKept DEF IInv
  <1>4. InstallInv'
    BY <1>1, InstallStepKept DEF IInv
  <1>5. RecordInv'
    BY <1>1, RecordStepKept DEF IInv
  <1>6. OwnInv'
    BY <1>1, OwnStepKept DEF IInv
  <1> QED
    BY <1>1, <1>2, <1>3, <1>4, <1>5, <1>6 DEF IInv

\* Where every request, build and boot of the device stands, in every reachable
\* state (forwardBoot, forwardInstall, and the agent's answers).
THEOREM RequestsStand ==
  Spec => []IInv
  <1> QED
    BY InitInv, NextInv, PTL DEF Spec

\* With nothing on its way and the agent idle, nobody is still owed an answer.
LEMMA QuietAnswered ==
  IInv => (Quiet => \A r \in Boots \cup Installs : owed[r] # "open")
  <1> SUFFICES ASSUME IInv, Quiet, NEW r \in Boots \cup Installs, owed[r] = "open"
               PROVE  FALSE
    OBVIOUS
  <1>1. /\ link /\ toAgent = <<>> /\ toRelay = <<>>
        /\ \A b \in Boots : ~Busy(b)
        /\ \A i \in Installs : ~Placing(i)
    BY DEF Quiet, Busy, Placing
  <1>2. /\ \A b \in Boots : ~Asked(b) /\ ~Told(b)
        /\ \A i \in Installs : ~InstallAsked(i) /\ ~InstallTold(i)
    BY <1>1, Nothing DEF Asked, Told, InstallAsked, InstallTold
  <1>3. CASE r \in Boots
    BY <1>1, <1>2, <1>3 DEF IInv, BootInv, BootRight
  <1>4. CASE r \in Installs
    <2>1. r \in sess.going.waiters
      BY <1>4 DEF IInv, InstallInv, InstallRight
    <2>2. sess.going.req # None
      BY <2>1, NoneTypes DEF IInv, InstallInv
    <2>3. sess.going.req \in Installs
      BY <2>2, SessionParts DEF IInv, TypeInv, TypeOK, GoingType
    <2> QED
      BY <1>1, <1>2, <2>3 DEF IInv, InstallInv, InstallRight
  <1> QED
    BY <1>3, <1>4

\* Whoever boots the device, or joins an install already under way, is answered at
\* most once, and is not forgotten: no request is left without an answer when both
\* sides have come to rest, whatever links were lost, holders went and installs
\* took over in between (BootError, Ready, settleInstall, rejectPending).
THEOREM RequestsAnswered ==
  Spec => []RequestsInv
  <1>1. IInv => RequestsInv
    <2>1. IInv => TypeOK /\ \A r \in Boots \cup Installs : owed[r] # "twice"
      BY DEF IInv, TypeInv, BootInv, BootRight, InstallInv, InstallRight
    <2> QED
      BY <2>1, QuietAnswered DEF RequestsInv
  <1> QED
    BY <1>1, RequestsStand, PTL

\* An install is skipped only for the build that is on the device, as long as none
\* was sent beside another or beside a wipe (forgetInstall, settleInstall).
THEOREM InstalledAloneHolds ==
  Spec => []InstalledAlone
  <1>1. IInv => InstalledAlone
    BY DEF IInv, RecordInv, InstalledAlone, RecordIsReal
  <1> QED
    BY <1>1, RequestsStand, PTL

\* While it stays up, a device that a person's boot brought up is neither offered
\* to automation as its own nor shut down to make room for automation, unless two
\* boots of it were under way at once (settleLastBoot, capacityDevices).
THEOREM AutomationsOwnHolds ==
  Spec => []AutomationsOwn
  <1>1. IInv => AutomationsOwn
    <2> SUFFICES ASSUME IInv, theirs, "boot" \notin crossed
                 PROVE  LET s == Ripened(sess)
                        IN  ~Evictable(s) /\ ~(Leasable(s) /\ s.status = "booted")
      BY DEF AutomationsOwn
    <2> DEFINE s == Ripened(sess)
    <2>1. NotAutomations(sess)
      BY DEF IInv, OwnInv
    <2>2. Alike(sess, s)
      BY RipenedAlike DEF IInv, OwnInv, PendNamed
    <2>3. Eases(sess, s)
      BY <2>2, AlikeEases DEF Alike, IInv, OwnInv
    <2> HIDE DEF s
    <2>4. NotAutomations(s)
      BY <2>1, <2>3 DEF Eases
    <2>5. ~Evictable(s) /\ ~(Leasable(s) /\ s.status = "booted")
      BY <2>4 DEF NotAutomations, Evictable, Leasable
    <2> QED
      BY <2>5 DEF s
  <1> QED
    BY <1>1, RequestsStand, PTL
=============================================================================
