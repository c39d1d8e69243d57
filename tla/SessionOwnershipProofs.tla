----------------------- MODULE SessionOwnershipProofs -----------------------
(***************************************************************************)
(* Theorems about SessionOwnership, for every set of sessions, sockets and *)
(* clients and every timeout: type correctness, the index, what a wait     *)
(* needs, who watches, and that the handlers implement DevicePromise.      *)
(*                                                                         *)
(* Every action moves each session's record in one of a few ways (Moves).  *)
(* SoundSession is what all of them preserve, one lemma each, and Kept is  *)
(* what each of them keeps of the promise; the index, the connections and  *)
(* the watches are proved action by action on top of that.                 *)
(***************************************************************************)
EXTENDS SessionOwnership, TLAPS

\* The connection fields of a record: a holder, its key and its kind together.
HeldRight(x) ==
  /\ (x.holder = None) <=> (x.owner = None)
  /\ x.holder # None => x.owner = KeyOf[x.holder] /\ (x.ai <=> x.holder \in Ai)
  /\ x.holder # None => x.countdown = None
  /\ ~x.live => x.holder = None /\ ~Awaits(x)

\* What a wait needs and what a waiting person is told; a wait that a shutdown
\* ended is kept with the same care, since a failure puts it back.
WaitRight(x) ==
  /\ Awaits(x) => x.countdown # None \/ (x.holder # None /\ x.ai /\ x.resume)
  /\ Awaits(x) => x.ended # x.waiting.user
  /\ (x.holder # None /\ ~x.ai) => x.ended # UserOf[x.holder]
  /\ x.undo.wait.user # None => x.undo.ended # x.undo.wait.user

SoundSession(x) == x \in SessionType /\ HeldRight(x) /\ WaitRight(x)

\* A move from x to y by which nobody takes or lets go of the device: it keeps of
\* the promise what DevicePromise!PromiseMoves asks.
Stays(x, y) ==
  /\ y.live = x.live /\ y.holder = x.holder /\ y.owner = x.owner /\ y.ai = x.ai
  /\ y.lastAi = x.lastAi
  /\ y.waiting.user \in {x.waiting.user, None} \/ x.owner = None

USE OwnershipAssumption

-----------------------------------------------------------------------------
(* The moves of one record.                                                 *)

LEMMA SocketTypes ==
  \A w \in Sockets : KeyOf[w] \in Keys /\ UserOf[w] \in Users
  BY DEF Keys, Users

\* A session nobody made yet, and one just made, are sound and nobody's.
LEMMA NoSessionSound ==
  /\ SoundSession(NoSession) /\ ~NoSession.live /\ NoSession.holder = None
  /\ SoundSession(NewSession) /\ NewSession.live /\ NewSession.holder = None
  <1>1. NoWait \in WaitType /\ NoWait.user = None
    BY DEF NoWait, WaitType
  <1>2. NoUndo \in UndoType /\ NoUndo.wait.user = None
    BY <1>1 DEF NoUndo, UndoType
  <1>3. NewSession \in SessionType
    BY <1>1, <1>2 DEF NewSession, SessionType
  <1>4. /\ NewSession.live /\ NewSession.holder = None /\ NewSession.owner = None
        /\ NewSession.waiting.user = None /\ NewSession.undo.wait.user = None
    BY <1>1, <1>2 DEF NewSession
  <1>5. \A x \in SessionType : LET z == [x EXCEPT !.live = FALSE] IN
          /\ z \in SessionType /\ ~z.live
          /\ z.holder = x.holder /\ z.owner = x.owner /\ z.waiting = x.waiting /\ z.undo = x.undo
    BY DEF SessionType
  <1>6. /\ NoSession \in SessionType /\ ~NoSession.live
        /\ NoSession.holder = None /\ NoSession.owner = None
        /\ NoSession.waiting.user = None /\ NoSession.undo.wait.user = None
    BY <1>3, <1>4, <1>5 DEF NoSession
  <1> QED
    BY <1>3, <1>4, <1>6 DEF SoundSession, HeldRight, WaitRight, Awaits

\* join leaves the session sound, whoever it takes it from.
LEMMA JoinedSound ==
  ASSUME NEW x, SoundSession(x), x.live, NEW w \in Sockets
  PROVE  /\ SoundSession(Joined(x, w))
         /\ Joined(x, w).live /\ Joined(x, w).holder = w /\ Joined(x, w).owner = KeyOf[w]
         /\ Joined(x, w).ai = (w \in Ai) /\ Joined(x, w).lastAi = x.lastAi
         /\ w \in Ai => Joined(x, w).waiting = x.waiting
         /\ w \notin Ai => Joined(x, w).waiting.user = None
  <1> DEFINE y == Joined(x, w)
  <1>1. x \in SessionType /\ KeyOf[w] \in Keys /\ UserOf[w] \in Users
    BY SocketTypes DEF SoundSession
  <1>2. EndedByJoin(x, UserOf[w]) \in Users \cup {None} /\ EndedByJoin(x, UserOf[w]) # UserOf[w]
    BY <1>1 DEF EndedByJoin, SessionType, WaitType
  <1>3. NoWait \in WaitType /\ NoWait.user = None
    BY DEF NoWait, WaitType
  <1>4. y \in SessionType
    <2>1. \A r \in BOOLEAN, k \in Keys, a \in BOOLEAN, e \in Users \cup {None}, v \in WaitType :
            [x EXCEPT !.resume = r, !.countdown = None, !.holder = w, !.owner = k, !.ai = a,
                      !.ended = e, !.waiting = v] \in SessionType
      BY <1>1, ZenonT(30) DEF SessionType
    <2> DEFINE r == IF x.countdown # None THEN w \in Ai ELSE x.resume /\ w \in Ai
               a == w \in Ai
               e == IF w \in Ai THEN x.ended ELSE EndedByJoin(x, UserOf[w])
               v == IF w \in Ai THEN x.waiting ELSE NoWait
    <2>2. x.resume \in BOOLEAN /\ x.ended \in Users \cup {None} /\ x.waiting \in WaitType
      BY <1>1 DEF SessionType
    <2>3. r \in BOOLEAN /\ a \in BOOLEAN
      <3>1. a \in BOOLEAN /\ (x.resume /\ w \in Ai) \in BOOLEAN
        OBVIOUS
      <3>2. r = a \/ r = (x.resume /\ w \in Ai)
        BY Zenon
      <3> QED
        BY <3>1, <3>2, Zenon
    <2>4. e \in Users \cup {None} /\ v \in WaitType
      BY <1>2, <1>3, <2>2
    <2>5. y = [x EXCEPT !.resume = r, !.countdown = None, !.holder = w, !.owner = KeyOf[w],
                        !.ai = a, !.ended = e, !.waiting = v]
      BY Zenon DEF Joined
    <2> HIDE DEF y, r, a, e, v
    <2> QED
      BY <1>1, <2>1, <2>3, <2>4, <2>5, Zenon
  <1>5. /\ y.live /\ y.holder = w /\ y.owner = KeyOf[w] /\ y.ai = (w \in Ai)
        /\ y.countdown = None /\ y.lastAi = x.lastAi /\ y.undo = x.undo
    BY <1>1 DEF Joined, SessionType, SoundSession
  <1>6. /\ y.waiting = IF w \in Ai THEN x.waiting ELSE NoWait
        /\ y.ended = IF w \in Ai THEN x.ended ELSE EndedByJoin(x, UserOf[w])
        /\ y.resume = IF x.countdown # None THEN w \in Ai ELSE x.resume /\ w \in Ai
    BY <1>1 DEF Joined, SessionType
  <1> HIDE DEF y
  <1>7. HeldRight(y)
    BY <1>1, <1>5 DEF HeldRight
  <1>8. WaitRight(y)
    <2>1. CASE w \in Ai
      BY <1>5, <1>6, <2>1 DEF SoundSession, HeldRight, WaitRight, Awaits
    <2>2. CASE w \notin Ai
      BY <1>2, <1>3, <1>5, <1>6, <2>2 DEF SoundSession, HeldRight, WaitRight, Awaits
    <2> QED BY <2>1, <2>2
  <1>9. SoundSession(y)
    BY <1>4, <1>7, <1>8 DEF SoundSession
  <1> QED
    BY <1>3, <1>5, <1>6, <1>9 DEF y

\* A holder's leave or close leaves the session sound (clearBrowser).
LEMMA ReleasedSound ==
  ASSUME NEW x, SoundSession(x), x.holder # None, NEW restart \in BOOLEAN,
         restart \/ restart = x.resume, now \in Nat
  PROVE  LET y == Released(x, restart) IN
         /\ SoundSession(y) /\ y.live = x.live /\ y.holder = None /\ y.owner = None
         /\ ~x.ai => ~y.lastAi /\ y.waiting.user \in {UserOf[x.holder], None}
         /\ x.ai => y.waiting.user \in {x.waiting.user, None}
         /\ (x.ai /\ ~x.lastAi /\ Awaits(x)) => ~y.lastAi /\ y.waiting.user = x.waiting.user
  <1> DEFINE y == Released(x, restart)
             deadline == now + IdleTimeout
  <1>1. x \in SessionType /\ x.holder \in Sockets /\ x.owner # None /\ x.countdown = None
    BY DEF SoundSession, HeldRight, SessionType
  <1>2. LastAi(x) = (x.ai /\ (~x.resume \/ x.lastAi)) /\ LastAi(x) \in BOOLEAN
    BY <1>1 DEF LastAi, SessionType
  <1>3. deadline \in Nat /\ deadline # None /\ UserOf[x.holder] \in Users
    BY <1>1, SocketTypes
  <1>4. x.waiting \in WaitType /\ [x.waiting EXCEPT !.deadline = deadline] \in WaitType
        /\ [x.waiting EXCEPT !.deadline = deadline].user = x.waiting.user
    BY <1>1, <1>3 DEF SessionType, WaitType
  <1>5. NoWait \in WaitType /\ NoWait.user = None
    BY DEF NoWait, WaitType
  <1>6. /\ WaitAfter(x, deadline) \in WaitType
        /\ ~x.ai => WaitAfter(x, deadline).user = UserOf[x.holder]
        /\ x.ai => WaitAfter(x, deadline).user = IF Awaits(x) /\ ~LastAi(x) THEN x.waiting.user ELSE None
    <2>1. CASE ~x.ai
      BY <1>1, <1>3, <2>1 DEF WaitAfter, WaitType
    <2>2. CASE x.ai
      BY <1>1, <1>4, <1>5, <2>2 DEF WaitAfter
    <2> QED BY <2>1, <2>2
  <1> HIDE DEF deadline
  <1>7. /\ y.live = x.live /\ y.holder = None /\ y.owner = None /\ y.lastAi = LastAi(x)
        /\ y.countdown = IF restart THEN deadline ELSE None
        /\ y.waiting = IF restart THEN WaitAfter(x, deadline) ELSE x.waiting
        /\ y.ended = x.ended /\ y.undo = x.undo
    BY <1>1 DEF Released, SessionType, deadline
  <1>8. y \in SessionType
    <2>1. ASSUME NEW c \in Nat \cup {None}, NEW v \in WaitType, NEW l \in BOOLEAN
          PROVE  [x EXCEPT !.holder = None, !.owner = None, !.ai = FALSE, !.lastAi = l,
                           !.resume = FALSE, !.countdown = c, !.waiting = v] \in SessionType
      <3>1. x \in SessionType
        BY <1>1
      <3> QED
        BY <3>1 DEF SessionType
    <2> DEFINE c == IF restart THEN deadline ELSE None
               v == IF restart THEN WaitAfter(x, deadline) ELSE x.waiting
               l == LastAi(x)
    <2>2. c \in Nat \cup {None} /\ v \in WaitType /\ l \in BOOLEAN
      BY <1>2, <1>3, <1>4, <1>6
    <2>3. y = [x EXCEPT !.holder = None, !.owner = None, !.ai = FALSE, !.lastAi = l,
                        !.resume = FALSE, !.countdown = c, !.waiting = v]
      BY Zenon DEF Released, deadline
    <2> HIDE DEF y, c, v, l
    <2> QED
      BY <2>1, <2>2, <2>3, Zenon
  <1> HIDE DEF y
  <1>9. /\ ~restart => ~Awaits(x)
        /\ (Awaits(x) /\ ~x.lastAi) => ~LastAi(x)
        /\ ~x.ai => ~Awaits(x) /\ x.ended # UserOf[x.holder]
    BY <1>1, <1>2 DEF SoundSession, HeldRight, WaitRight
  <1>10. HeldRight(y)
    BY <1>1, <1>3, <1>7 DEF HeldRight, Awaits, SoundSession
  <1>11. WaitRight(y)
    <2>1. CASE restart
      BY <1>3, <1>6, <1>7, <1>9, <2>1 DEF WaitRight, Awaits, SoundSession
    <2>2. CASE ~restart
      BY <1>7, <1>9, <2>2 DEF WaitRight, Awaits, SoundSession
    <2> QED BY <2>1, <2>2
  <1>12. SoundSession(y)
    BY <1>8, <1>10, <1>11 DEF SoundSession
  <1>13. /\ ~x.ai => ~y.lastAi /\ y.waiting.user \in {UserOf[x.holder], None}
         /\ x.ai => y.waiting.user \in {x.waiting.user, None}
         /\ (x.ai /\ ~x.lastAi /\ Awaits(x)) => ~y.lastAi /\ y.waiting.user = x.waiting.user
    BY <1>2, <1>6, <1>7, <1>9 DEF Awaits
  <1> QED
    BY <1>7, <1>12, <1>13 DEF y

\* A move that leaves the holder and what the record says of it alone.
SameHolder(x, y) ==
  /\ y.live = x.live /\ y.holder = x.holder /\ y.owner = x.owner /\ y.ai = x.ai
  /\ y.resume = x.resume /\ y.lastAi = x.lastAi /\ y.countdown \in {x.countdown, None}

\* A session whose holder is left alone, and whose wait is still right, stays sound.
LEMMA SameHolderSound ==
  ASSUME NEW x, NEW y, SoundSession(x), y \in SessionType, SameHolder(x, y), WaitRight(y),
         Awaits(y) => x.live, y.waiting.user \in {x.waiting.user, None} \/ x.owner = None
  PROVE  SoundSession(y) /\ Stays(x, y)
  BY DEF SoundSession, HeldRight, SameHolder, Stays

\* Noting what a shutdown may have to restore leaves the session sound (noteShutdown).
LEMMA NoteShutdownSound ==
  ASSUME NEW x, SoundSession(x), NEW u \in Users
  PROVE  SoundSession(NoteShutdown(x, u)) /\ Stays(x, NoteShutdown(x, u))
  <1> DEFINE y == NoteShutdown(x, u)
  <1>1. x \in SessionType /\ x.waiting \in WaitType /\ x.ended \in Users \cup {None}
    BY DEF SoundSession, SessionType
  <1>2. NoWait \in WaitType /\ NoWait.user = None /\ NoUndo \in UndoType /\ NoUndo.wait.user = None
    BY DEF NoWait, NoUndo, WaitType, UndoType
  <1>3. CASE ~Awaits(x)
    <2>1. y = [x EXCEPT !.afterDown = "out", !.undo = NoUndo]
      BY <1>3 DEF NoteShutdown
    <2> HIDE DEF y
    <2>2. /\ y \in SessionType /\ SameHolder(x, y) /\ y.waiting = x.waiting
          /\ y.ended = x.ended /\ y.undo = NoUndo /\ y.countdown = x.countdown
      BY <1>1, <1>2, <2>1 DEF SessionType, SameHolder
    <2>3. WaitRight(y)
      BY <1>2, <1>3, <2>2 DEF WaitRight, SoundSession, Awaits, SameHolder
    <2> QED
      BY <1>3, <2>2, <2>3, SameHolderSound DEF Awaits, y
  <1>4. CASE Awaits(x)
    <2> DEFINE e == IF x.waiting.user = u THEN x.ended ELSE x.waiting.user
               d == [wait |-> x.waiting, ended |-> x.ended]
    <2>1. y = [x EXCEPT !.afterDown = "out", !.undo = d, !.ended = e, !.waiting = NoWait]
      BY <1>4 DEF NoteShutdown
    <2>2. e \in Users \cup {None}
      BY <1>1 DEF WaitType
    <2>3. d \in UndoType /\ d.wait.user = x.waiting.user /\ d.ended = x.ended
      BY <1>1 DEF UndoType
    <2>4. (x.holder # None /\ ~x.ai) => e # UserOf[x.holder]
      BY <1>4 DEF SoundSession, HeldRight, WaitRight
    <2> HIDE DEF y, e, d
    <2>5. /\ y \in SessionType /\ SameHolder(x, y) /\ y.waiting = NoWait
          /\ y.ended = e /\ y.undo = d
      BY <1>1, <1>2, <2>1, <2>2, <2>3 DEF SessionType, SameHolder
    <2>6. WaitRight(y)
      BY <1>2, <1>4, <2>3, <2>4, <2>5 DEF WaitRight, SoundSession, Awaits, SameHolder
    <2> QED
      BY <1>2, <2>5, <2>6, SameHolderSound DEF Awaits, y
  <1> QED
    BY <1>3, <1>4

\* Undoing a failed shutdown leaves the session sound (undoShutdown).
LEMMA UndoShutdownSound ==
  ASSUME NEW x, SoundSession(x), x.live
  PROVE  SoundSession(UndoShutdown(x)) /\ Stays(x, UndoShutdown(x))
  <1> DEFINE y == UndoShutdown(x)
             z == [x EXCEPT !.afterDown = "none", !.undo = NoUndo]
  <1>1. /\ x \in SessionType /\ x.waiting \in WaitType /\ x.ended \in Users \cup {None}
        /\ x.undo \in UndoType /\ x.undo.wait \in WaitType /\ x.undo.ended \in Users \cup {None}
    BY DEF SoundSession, SessionType, UndoType
  <1>2. NoUndo \in UndoType /\ NoUndo.wait.user = None
    BY DEF NoWait, NoUndo, WaitType, UndoType
  <1>3. /\ z \in SessionType /\ SameHolder(x, z) /\ z.waiting = x.waiting
        /\ z.ended = x.ended /\ z.undo = NoUndo /\ z.countdown = x.countdown
    BY <1>1, <1>2 DEF SessionType, SameHolder
  <1> DEFINE back == /\ x.undo.wait.user # None /\ ~Awaits(x)
                     /\ x.afterDown = "out" /\ x.countdown # None
  <1>4. CASE back
    <2>1. y = [z EXCEPT !.waiting = x.undo.wait, !.ended = x.undo.ended]
      BY <1>4 DEF UndoShutdown
    <2>2. x.holder = None /\ x.owner = None /\ x.undo.ended # x.undo.wait.user
      BY <1>4 DEF SoundSession, HeldRight, WaitRight
    <2> HIDE DEF y, z
    <2>3. /\ y \in SessionType /\ SameHolder(z, y) /\ y.waiting = x.undo.wait
          /\ y.ended = x.undo.ended /\ y.undo = NoUndo /\ y.countdown = x.countdown
      BY <1>1, <1>3, <2>1 DEF SessionType, SameHolder
    <2>4. SameHolder(x, y) /\ WaitRight(y)
      BY <1>2, <1>3, <1>4, <2>2, <2>3 DEF WaitRight, SoundSession, Awaits, SameHolder
    <2> QED
      BY <2>2, <2>3, <2>4, SameHolderSound DEF y
  <1>5. CASE ~back
    <2>1. y = z
      BY <1>5 DEF UndoShutdown
    <2> HIDE DEF y, z
    <2>2. WaitRight(z)
      BY <1>2, <1>3 DEF WaitRight, SoundSession, Awaits, SameHolder
    <2> QED
      BY <1>3, <2>1, <2>2, SameHolderSound DEF y
  <1> QED
    BY <1>4, <1>5

\* The idle countdown's end and a finished shutdown.
LEMMA EndedSound ==
  ASSUME NEW x, SoundSession(x)
  PROVE  LET y == [x EXCEPT !.countdown = None, !.waiting = NoWait]
         IN  SoundSession(y) /\ Stays(x, y)
  <1> DEFINE y == [x EXCEPT !.countdown = None, !.waiting = NoWait]
  <1>1. x \in SessionType
    BY DEF SoundSession
  <1>2. NoWait \in WaitType /\ NoWait.user = None
    BY DEF NoWait, WaitType
  <1>3. /\ y \in SessionType /\ SameHolder(x, y) /\ y.waiting = NoWait
        /\ y.ended = x.ended /\ y.undo = x.undo
    BY <1>1, <1>2 DEF SessionType, SameHolder
  <1> HIDE DEF y
  <1>4. WaitRight(y)
    BY <1>2, <1>3 DEF WaitRight, SoundSession, Awaits, SameHolder
  <1> QED
    BY <1>2, <1>3, <1>4, SameHolderSound DEF y, Awaits

\* A record marked with what the agent was last asked, or with a device that is gone.
LEMMA MarkedSound ==
  ASSUME NEW x, SoundSession(x), NEW a \in {"none", "out", "booted"}, NEW g \in BOOLEAN
  PROVE  /\ SoundSession([x EXCEPT !.afterDown = a]) /\ Stays(x, [x EXCEPT !.afterDown = a])
         /\ SoundSession([x EXCEPT !.gone = g]) /\ Stays(x, [x EXCEPT !.gone = g])
  <1>1. x \in SessionType
    BY DEF SoundSession
  <1>2. \A y : (/\ y \in SessionType /\ SameHolder(x, y) /\ y.waiting = x.waiting
               /\ y.ended = x.ended /\ y.undo = x.undo /\ y.countdown = x.countdown)
              => SoundSession(y) /\ Stays(x, y)
    <2> SUFFICES ASSUME NEW y, y \in SessionType, SameHolder(x, y), y.waiting = x.waiting,
                        y.ended = x.ended, y.undo = x.undo, y.countdown = x.countdown
                 PROVE  SoundSession(y) /\ Stays(x, y)
      OBVIOUS
    <2>1. WaitRight(y)
      BY DEF WaitRight, SoundSession, Awaits, SameHolder
    <2>2. Awaits(y) => x.live
      BY DEF SoundSession, HeldRight, Awaits
    <2> QED
      BY <2>1, <2>2, SameHolderSound
  <1>3. LET y == [x EXCEPT !.afterDown = a] IN
        /\ y \in SessionType /\ SameHolder(x, y) /\ y.waiting = x.waiting
        /\ y.ended = x.ended /\ y.undo = x.undo /\ y.countdown = x.countdown
    BY <1>1 DEF SessionType, SameHolder
  <1>4. LET y == [x EXCEPT !.gone = g] IN
        /\ y \in SessionType /\ SameHolder(x, y) /\ y.waiting = x.waiting
        /\ y.ended = x.ended /\ y.undo = x.undo /\ y.countdown = x.countdown
    BY <1>1 DEF SessionType, SameHolder
  <1> QED
    BY <1>2, <1>3, <1>4
-----------------------------------------------------------------------------
(* What a step does to a session's record.                                  *)

Ended(x) == [x EXCEPT !.countdown = None, !.waiting = NoWait]
AfterDowns == {"none", "out", "booted"}

JoinMove(s) ==
  /\ ses[s].live
  /\ \E w \in Sockets : ~HeldByAnother(s, w) /\ ses'[s] = Joined(ses[s], w)

ReleaseMove(s) ==
  /\ ses[s].holder # None
  /\ \E r \in BOOLEAN : (r \/ r = ses[s].resume) /\ ses'[s] = Released(ses[s], r)

ShutdownMove(s) ==
  \/ \E u \in Users : ses'[s] = NoteShutdown(ses[s], u)
  \/ ses[s].live /\ ses'[s] = UndoShutdown(ses[s])

MarkMove(s) ==
  \/ \E a \in AfterDowns :
       \/ ses'[s] = [ses[s] EXCEPT !.afterDown = a]
       \/ ses'[s] = [Ended(ses[s]) EXCEPT !.afterDown = a]
       \/ ses'[s] = Ended([ses[s] EXCEPT !.afterDown = a])
  \/ ses'[s] = Ended(ses[s])
  \/ \E g \in BOOLEAN : ses'[s] = [ses[s] EXCEPT !.gone = g]

LifeMove(s) ==
  \/ ses'[s] = NoSession
  \/ ~ses[s].live /\ ses'[s] = NewSession

Moves(s) ==
  ses'[s] = ses[s] \/ JoinMove(s) \/ ReleaseMove(s) \/ ShutdownMove(s) \/ MarkMove(s) \/ LifeMove(s)

\* Noting or undoing a shutdown keeps the session sound, and nobody takes or lets go of the device.
LEMMA ShutdownMoveSound ==
  ASSUME NEW s \in Sessions, SoundSession(ses[s]), ShutdownMove(s)
  PROVE  SoundSession(ses'[s]) /\ Stays(ses[s], ses'[s])
  BY NoteShutdownSound, UndoShutdownSound DEF ShutdownMove

\* Marking a session (shut down, booted, gone, a countdown ended) keeps it sound, and nobody takes or lets go of it.
LEMMA MarkMoveSound ==
  ASSUME NEW s \in Sessions, SoundSession(ses[s]), MarkMove(s)
  PROVE  SoundSession(ses'[s]) /\ Stays(ses[s], ses'[s])
  <1> DEFINE x == ses[s]
             y == ses'[s]
  <1>1. \A z : SoundSession(z) => SoundSession(Ended(z)) /\ Stays(z, Ended(z))
    BY EndedSound DEF Ended
  <1>2. \A z, a, g : (SoundSession(z) /\ a \in AfterDowns /\ g \in BOOLEAN) =>
          /\ SoundSession([z EXCEPT !.afterDown = a]) /\ Stays(z, [z EXCEPT !.afterDown = a])
          /\ SoundSession([z EXCEPT !.gone = g]) /\ Stays(z, [z EXCEPT !.gone = g])
    <2> TAKE z, a, g
    <2> HAVE SoundSession(z) /\ a \in AfterDowns /\ g \in BOOLEAN
    <2> QED
      BY MarkedSound DEF AfterDowns
  <1> SUFFICES SoundSession(y) /\ Stays(x, y)
    OBVIOUS
  <1> HIDE DEF x, y
  <1>0. SoundSession(x) /\ TRUE \in BOOLEAN /\ "out" \in AfterDowns
    BY DEF x, AfterDowns
  <1>3. \A u, v, w : Stays(u, v) /\ Stays(v, w) => Stays(u, w)
    BY DEF Stays
  <1>4. CASE \E a \in AfterDowns : y = [x EXCEPT !.afterDown = a]
    <2>0. PICK a \in AfterDowns : y = [x EXCEPT !.afterDown = a]
      BY <1>4
    <2> QED
      BY <1>0, <1>2, <2>0, Zenon
  <1>5. CASE \E a \in AfterDowns : y = [Ended(x) EXCEPT !.afterDown = a]
    <2>0. PICK a \in AfterDowns : y = [Ended(x) EXCEPT !.afterDown = a]
      BY <1>5
    <2>1. SoundSession(Ended(x)) /\ Stays(x, Ended(x))
      BY <1>0, <1>1
    <2>2. SoundSession(y) /\ Stays(Ended(x), y)
      BY <1>0, <1>2, <2>0, <2>1, Zenon
    <2> QED
      BY <1>3, <2>1, <2>2
  <1>6. CASE \E a \in AfterDowns : y = Ended([x EXCEPT !.afterDown = a])
    <2>0. PICK a \in AfterDowns : y = Ended([x EXCEPT !.afterDown = a])
      BY <1>6
    <2> DEFINE z == [x EXCEPT !.afterDown = a]
    <2>1. SoundSession(z) /\ Stays(x, z)
      BY <1>0, <1>2, Zenon
    <2> HIDE DEF z
    <2>2. SoundSession(y) /\ Stays(z, y)
      BY <1>1, <2>0, <2>1 DEF z
    <2> QED
      BY <1>3, <2>1, <2>2
  <1>7. CASE y = Ended(x)
    BY <1>0, <1>1, <1>7
  <1>8. CASE \E g \in BOOLEAN : y = [x EXCEPT !.gone = g]
    <2>0. PICK g \in BOOLEAN : y = [x EXCEPT !.gone = g]
      BY <1>8
    <2> QED
      BY <1>0, <1>2, <2>0, Zenon
  <1> QED
    BY <1>4, <1>5, <1>6, <1>7, <1>8 DEF MarkMove, x, y

\* Every move of a session's record keeps it sound.
LEMMA MovesSound ==
  ASSUME NEW s \in Sessions, SoundSession(ses[s]), Moves(s), now \in Nat
  PROVE  SoundSession(ses'[s])
  <1>1. CASE JoinMove(s)
    BY <1>1, JoinedSound DEF JoinMove
  <1>2. CASE ReleaseMove(s)
    BY <1>2, ReleasedSound DEF ReleaseMove
  <1>3. CASE LifeMove(s)
    BY <1>3, NoSessionSound DEF LifeMove
  <1> QED
    BY <1>1, <1>2, <1>3, ShutdownMoveSound, MarkMoveSound DEF Moves

(* Every move is one that the promise allows.                               *)
LEMMA MovesKeepPromise ==
  ASSUME NEW s \in Sessions, SoundSession(ses[s]), Moves(s), now \in Nat,
         ses \in [Sessions -> SessionType], ses' \in [Sessions -> SessionType]
  PROVE  Promise!DeviceNext(s)
  <1> DEFINE x == ses[s]
             y == ses'[s]
  <1>1. x \in SessionType /\ y \in SessionType
    OBVIOUS
  <1>2. CASE Stays(x, y)
    <2>1. CASE x.live
      BY <1>1, <1>2, <2>1 DEF Promise!DeviceNext, Promise!PromiseMoves, Stays
    <2>2. CASE ~x.live
      BY <1>1, <1>2, <2>2, MovesSound
         DEF Promise!DeviceNext, Promise!NoDevice, Stays, SoundSession, HeldRight, Awaits
    <2> QED BY <2>1, <2>2
  <1>3. CASE JoinMove(s)
    <2>1. PICK w \in Sockets : ~HeldByAnother(s, w) /\ y = Joined(x, w)
      BY <1>3 DEF JoinMove
    <2>2. /\ x.live /\ y.live /\ y.owner = KeyOf[w] /\ y.lastAi = x.lastAi
          /\ w \in Ai => y.waiting = x.waiting
          /\ w \notin Ai => y.waiting.user = None
      BY <1>3, <2>1, JoinedSound DEF JoinMove
    <2>3. x.owner \in {None, KeyOf[w]} \/ ~(x.holder # None /\ conn[x.holder] = "open")
      BY <2>1 DEF HeldByAnother
    <2>4. KeyOf[w] \in {KeyOf[v] : v \in Ai} <=> w \in Ai
      OBVIOUS
    <2>5. KeyOf[w] \in Keys
      BY SocketTypes
    <2>6. Promise!Takes(s, KeyOf[w])
      BY <1>1, <2>2, <2>3, <2>4 DEF Promise!Takes
    <2> QED
      BY <2>2, <2>5, <2>6 DEF Promise!DeviceNext
  <1>4. CASE ReleaseMove(s)
    <2>1. x.holder \in Sockets /\ x.owner = KeyOf[x.holder] /\ (x.ai <=> x.holder \in Ai) /\ x.live
      BY <1>1, <1>4 DEF ReleaseMove, SoundSession, HeldRight, SessionType
    <2>2. /\ y.live /\ y.owner = None
          /\ ~x.ai => ~y.lastAi /\ y.waiting.user \in {UserOf[x.holder], None}
          /\ x.ai => y.waiting.user \in {x.waiting.user, None}
          /\ (x.ai /\ ~x.lastAi /\ Awaits(x)) => ~y.lastAi /\ y.waiting.user = x.waiting.user
      BY <1>4, <2>1, ReleasedSound DEF ReleaseMove
    <2>3. x.owner \in {KeyOf[v] : v \in Ai} <=> x.ai
      BY <2>1
    <2>4. x.owner \in Keys /\ KeyUser[x.owner] = UserOf[x.holder]
      BY <2>1, SocketTypes DEF KeyUser
    <2>0. PICK k \in Keys : k = x.owner
      BY <2>4
    <2>5. CASE x.ai
      <3>1. Promise!AiLetsGo(s, k)
        BY <1>1, <2>0, <2>2, <2>3, <2>4, <2>5 DEF Promise!AiLetsGo, Awaits
      <3> QED
        BY <2>1, <2>2, <3>1 DEF Promise!DeviceNext
    <2>6. CASE ~x.ai
      <3>1. Promise!PersonLetsGo(s, k)
        BY <1>1, <2>0, <2>2, <2>3, <2>4, <2>6 DEF Promise!PersonLetsGo, Awaits
      <3> QED
        BY <2>1, <2>2, <3>1 DEF Promise!DeviceNext
    <2> QED BY <2>5, <2>6
  <1>5. CASE LifeMove(s)
    <2>1. y.owner = None /\ (~y.live => ~Awaits(y))
      BY <1>5, NoSessionSound DEF LifeMove, SoundSession, HeldRight
    <2>2. y.live => ~x.live /\ ~Awaits(y)
      BY <1>5, NoSessionSound DEF LifeMove, NewSession, NoWait, Awaits
    <2> QED
      BY <1>1, <2>1, <2>2 DEF Promise!DeviceNext, Promise!NoDevice, Awaits
  <1>6. CASE y = x
    <2>1. Stays(x, y)
      BY <1>6 DEF Stays
    <2> QED BY <1>2, <2>1
  <1> QED
    BY <1>2, <1>3, <1>4, <1>5, <1>6, ShutdownMoveSound, MarkMoveSound DEF Moves

-----------------------------------------------------------------------------
(* The inductive invariant.                                                 *)

HolderOn == \A s \in Sessions : ses[s].holder # None => conn[ses[s].holder] # "off"

\* A watcher is connected, was admitted under another client than its own, and
\* under the AI client that holds the session, if one does.
WatchRight ==
  \A s \in Sessions, w \in Sockets : Watching(w, s) =>
    /\ ses[s].live /\ conn[w] # "off" /\ watch[s][w] # KeyOf[w]
    /\ ses[s].holder # None => ses[s].ai /\ watch[s][w] = ses[s].owner

OwnInv ==
  /\ TypeOK /\ IndexAgrees /\ HolderOn /\ WatchRight
  /\ \A s \in Sessions : SoundSession(ses[s])

\* The types of all variables but ses, whose records SoundSession types.
RestTyped ==
  /\ conn \in [Sockets -> {"off", "open", "silent", "closing"}]
  /\ held \in [Sockets -> SUBSET Sessions]
  /\ watch \in [Sessions -> [Sockets -> Keys \cup {None}]]
  /\ agent \in [Sessions -> BOOLEAN]
  /\ asked \in [Sessions -> Nat]
  /\ now \in Nat

\* What is shown of every action.
Linked == IndexAgrees' /\ HolderOn' /\ WatchRight'
Recorded == ses' = [s \in Sessions |-> ses'[s]] /\ \A s \in Sessions : Moves(s)

\* What the invariant says of the type of each variable.
LEMMA Typed ==
  ASSUME OwnInv
  PROVE  /\ RestTyped /\ ses \in [Sessions -> SessionType]
         /\ ses = [s \in Sessions |-> ses[s]]
         /\ \A s \in Sessions, w \in Sockets : watch[s][w] \in Keys \cup {None}
         /\ \A s \in Sessions : ses[s].holder \in Sockets \cup {None} /\ ses[s] \in SessionType
  BY DEF OwnInv, TypeOK, RestTyped, SessionType

\* With no watches, no socket watches a session.
LEMMA NoWatcher == \A w \in Sockets : NoWatchers[w] = None
  BY DEF NoWatchers

(* Steps that leave holders, watchers and connections alone.                *)
LEMMA QuietStep ==
  ASSUME OwnInv, UNCHANGED <<held, watch>>,
         \A w \in Sockets : conn'[w] = "off" => conn[w] = "off",
         \A s \in Sessions : ses'[s] = ses[s] \/ ShutdownMove(s) \/ MarkMove(s)
  PROVE  Linked /\ \A s \in Sessions : Moves(s)
  <1>1. \A s \in Sessions : Moves(s)
    BY DEF Moves
  <1>2. \A s \in Sessions : /\ ses'[s].live = ses[s].live /\ ses'[s].holder = ses[s].holder
                            /\ ses'[s].owner = ses[s].owner /\ ses'[s].ai = ses[s].ai
    BY ShutdownMoveSound, MarkMoveSound DEF OwnInv, Stays
  <1>3. IndexAgrees'
    BY <1>2 DEF OwnInv, IndexAgrees
  <1>4. HolderOn'
    BY <1>2, Typed DEF OwnInv, HolderOn
  <1>5. WatchRight'
    BY <1>2 DEF OwnInv, WatchRight, Watching
  <1> QED
    BY <1>1, <1>3, <1>4, <1>5 DEF Linked

(* removeSession, of any set of sessions.                                   *)
LEMMA RemoveStep ==
  ASSUME OwnInv, NEW S \in SUBSET Sessions, Remove(S),
         \A w \in Sockets : conn'[w] = "off" => conn[w] = "off"
  PROVE  /\ Linked /\ Recorded
         /\ held' \in [Sockets -> SUBSET Sessions]
         /\ watch' \in [Sessions -> [Sockets -> Keys \cup {None}]]
         /\ asked' \in [Sessions -> Nat]
  <1>1. \A s \in Sessions : ses'[s] = IF s \in S THEN NoSession ELSE ses[s]
    BY DEF Remove
  <1>2. Recorded
    BY <1>1 DEF Remove, Recorded, Moves, LifeMove
  <1>3. \A s \in Sessions, w \in Sockets : s \in held'[w] <=> (s \in held[w] /\ s \notin S)
    BY DEF Remove, Unindexed, OwnInv, IndexAgrees
  <1>4. \A s \in Sessions : watch'[s] = IF s \in S THEN NoWatchers ELSE watch[s]
    BY DEF Remove
  <1>5. IndexAgrees'
    BY <1>1, <1>3, NoSessionSound DEF OwnInv, IndexAgrees
  <1>6. HolderOn'
    BY <1>1, NoSessionSound, Typed DEF OwnInv, HolderOn
  <1>7. WatchRight'
    BY <1>1, <1>4, NoWatcher DEF OwnInv, WatchRight, Watching
  <1>8. held' \in [Sockets -> SUBSET Sessions]
    BY Typed DEF Remove, Unindexed, RestTyped
  <1>9. watch' \in [Sessions -> [Sockets -> Keys \cup {None}]]
    BY Typed DEF Remove, NoWatchers, RestTyped
  <1>10. asked' \in [Sessions -> Nat]
    <2>1. 0 \in Nat
      OBVIOUS
    <2> QED
      BY <2>1, Typed DEF Remove, RestTyped
  <1> QED
    BY <1>2, <1>5, <1>6, <1>7, <1>8, <1>9, <1>10 DEF Linked

-----------------------------------------------------------------------------
(* The actions of a connection.                                             *)

LEMMA ConnectionSteps ==
  ASSUME OwnInv, NEW w \in Sockets, Connect(w) \/ FallSilent(w) \/ StartClosing(w)
  PROVE  RestTyped' /\ Linked /\ Recorded
  <1>1. /\ UNCHANGED <<ses, held, watch, agent, asked, now>>
        /\ conn' \in [Sockets -> {"off", "open", "silent", "closing"}]
        /\ \A v \in Sockets : conn'[v] = "off" => conn[v] = "off"
    <2>1. conn \in [Sockets -> {"off", "open", "silent", "closing"}]
      BY Typed DEF RestTyped
    <2>2. CASE Connect(w)
      BY <2>1, <2>2 DEF Connect
    <2>3. CASE FallSilent(w)
      BY <2>1, <2>3 DEF FallSilent
    <2>4. CASE StartClosing(w)
      BY <2>1, <2>4 DEF StartClosing
    <2> QED BY <2>2, <2>3, <2>4
  <1>2. RestTyped'
    BY <1>1, Typed DEF RestTyped
  <1> QED
    BY <1>1, <1>2, QuietStep, Typed DEF Recorded

\* A heartbeat, which closes sockets that went quiet and sweeps vanished devices, keeps the invariant.
LEMMA HeartbeatStep ==
  ASSUME OwnInv, NEW booting \in SUBSET Sessions, Heartbeat(booting)
  PROVE  RestTyped' /\ Linked /\ Recorded
  <1> DEFINE S == {s \in Sessions \ booting : ses[s].live /\ ses[s].gone /\ Vacant(s)}
  <1>1. S \in SUBSET Sessions /\ Remove(S)
    BY DEF Heartbeat
  <1>2. /\ conn' \in [Sockets -> {"off", "open", "silent", "closing"}]
        /\ \A v \in Sockets : conn'[v] = "off" => conn[v] = "off"
    BY Typed DEF Heartbeat, RestTyped
  <1> HIDE DEF S
  <1>3. /\ Linked /\ Recorded
        /\ held' \in [Sockets -> SUBSET Sessions]
        /\ watch' \in [Sessions -> [Sockets -> Keys \cup {None}]]
        /\ asked' \in [Sessions -> Nat]
    BY <1>1, <1>2, RemoveStep
  <1> QED
    BY <1>2, <1>3, Typed DEF Heartbeat, RestTyped

(* Every session the socket held is released, and nothing else.             *)
LEMMA CloseStep ==
  ASSUME OwnInv, NEW w \in Sockets, Close(w)
  PROVE  RestTyped' /\ Linked /\ Recorded
  <1>1. \A s \in Sessions : ses'[s] = IF ses[s].holder = w THEN Released(ses[s], TRUE) ELSE ses[s]
    BY DEF Close, OwnInv, IndexAgrees
  <1>2. Recorded
    <2>1. ASSUME NEW s \in Sessions, ses[s].holder = w
          PROVE  ReleaseMove(s)
      <3>1. w # None
        OBVIOUS
      <3>2. ses'[s] = Released(ses[s], TRUE)
        BY <1>1, <2>1
      <3> QED
        BY <2>1, <3>1, <3>2 DEF ReleaseMove
    <2> QED
      BY <1>1, <2>1 DEF Close, Recorded, Moves
  <1>3. /\ \A v \in Sockets : v # w => conn'[v] = conn[v]
        /\ \A s \in Sessions, v \in Sockets : watch'[s][v] = IF v = w THEN None ELSE watch[s][v]
        /\ \A s \in Sessions, v \in Sockets : s \in held'[v] <=> (s \in held[v] /\ v # w)
    BY Typed DEF Close, Unindexed, OwnInv, IndexAgrees, RestTyped
  <1>4. \A s \in Sessions :
          /\ ses[s].holder = w => ses'[s].holder = None /\ ses'[s].live = ses[s].live
          /\ ses[s].holder # w => ses'[s] = ses[s]
    <2> TAKE s \in Sessions
    <2>1. CASE ses[s].holder = w
      <3>1. /\ SoundSession(ses[s]) /\ ses[s].holder # None /\ TRUE \in BOOLEAN /\ now \in Nat
            /\ ses'[s] = Released(ses[s], TRUE)
        BY <1>1, <2>1, Typed DEF OwnInv, RestTyped
      <3> QED
        <4>1. Released(ses[s], TRUE).holder = None /\ Released(ses[s], TRUE).live = ses[s].live
          BY <3>1, ReleasedSound
        <4> QED
          BY <2>1, <3>1, <4>1
    <2>2. CASE ses[s].holder # w
      BY <1>1, <2>2
    <2> QED BY <2>1, <2>2
  <1>5. IndexAgrees'
    BY <1>3, <1>4 DEF OwnInv, IndexAgrees
  <1>6. HolderOn'
    BY <1>3, <1>4, Typed DEF OwnInv, HolderOn
  <1>7. WatchRight'
    BY <1>3, <1>4 DEF OwnInv, WatchRight, Watching
  <1>8. RestTyped'
    <2>1. held' \in [Sockets -> SUBSET Sessions]
      BY Typed DEF Close, Unindexed, RestTyped
    <2>2. watch' \in [Sessions -> [Sockets -> Keys \cup {None}]]
      BY Typed DEF Close, RestTyped
    <2>3. conn' \in [Sockets -> {"off", "open", "silent", "closing"}]
      BY Typed DEF Close, RestTyped
    <2> QED
      BY <2>1, <2>2, <2>3, Typed DEF Close, RestTyped
  <1> QED
    BY <1>2, <1>5, <1>6, <1>7, <1>8 DEF Linked

-----------------------------------------------------------------------------
(* What clients ask for.                                                    *)

(* The order of the index's two updates is what keeps the joining socket in *)
(* it when the client joins again (#507).                                   *)
LEMMA SessionStartStep ==
  ASSUME OwnInv, NEW w \in Sockets, NEW s \in Sessions, SessionStart(w, s)
  PROVE  RestTyped' /\ Linked /\ Recorded
  <1> DEFINE y == Joined(ses[s], w)
  <1>1. /\ \A t \in Sessions : ses'[t] = IF t = s THEN y ELSE ses[t]
        /\ ses' = [t \in Sessions |-> ses'[t]]
    BY Typed DEF SessionStart
  <1>2. y.live /\ y.holder = w /\ y.owner = KeyOf[w] /\ y.ai = (w \in Ai)
    BY JoinedSound DEF SessionStart, OwnInv
  <1>3. Recorded
    <2>1. JoinMove(s)
      BY <1>1 DEF SessionStart, JoinMove
    <2> QED
      BY <1>1, <2>1 DEF Recorded, Moves
  <1> HIDE DEF y
  <1>4. /\ UNCHANGED <<conn, agent, asked, now>> /\ conn[w] # "off"
        /\ ~Watching(w, s)
    BY DEF SessionStart, Speaks
  <1>5. \A t \in Sessions, v \in Sockets :
          t \in held'[v] <=> IF t = s THEN v = w ELSE t \in held[v]
    BY Typed DEF SessionStart, Indexed, Unindexed, OwnInv, IndexAgrees, RestTyped
  <1>6. \A t \in Sessions, v \in Sockets :
          /\ t # s => watch'[t][v] = watch[t][v]
          /\ t = s => watch'[t][v] = IF watch[s][v] = KeyOf[w] /\ w \in Ai THEN watch[s][v] ELSE None
    BY Typed DEF SessionStart, KeptWatchers, RestTyped
  <1>7. IndexAgrees'
    BY <1>1, <1>2, <1>5 DEF OwnInv, IndexAgrees
  <1>8. HolderOn'
    BY <1>1, <1>2, <1>4 DEF OwnInv, HolderOn
  <1>9. WatchRight'
    <2> SUFFICES ASSUME NEW t \in Sessions, NEW v \in Sockets, watch'[t][v] # None
                 PROVE  /\ ses'[t].live /\ conn'[v] # "off" /\ watch'[t][v] # KeyOf[v]
                        /\ ses'[t].holder # None => ses'[t].ai /\ watch'[t][v] = ses'[t].owner
      BY DEF WatchRight, Watching
    <2>1. CASE t # s
      BY <1>1, <1>4, <1>6, <2>1 DEF OwnInv, WatchRight, Watching
    <2>2. CASE t = s
      <3>1. watch[s][v] = KeyOf[w] /\ w \in Ai /\ watch'[s][v] = watch[s][v] /\ Watching(v, s)
        BY <1>6, <2>2 DEF Watching
      <3>2. conn[v] # "off" /\ watch[s][v] # KeyOf[v]
        BY <3>1 DEF OwnInv, WatchRight
      <3> QED
        BY <1>1, <1>2, <1>4, <2>2, <3>1, <3>2
    <2> QED BY <2>1, <2>2
  <1>10. RestTyped'
    <2>1. held' \in [Sockets -> SUBSET Sessions]
      BY Typed DEF SessionStart, Indexed, Unindexed, RestTyped
    <2>2. watch' \in [Sessions -> [Sockets -> Keys \cup {None}]]
      BY Typed DEF SessionStart, KeptWatchers, RestTyped
    <2> QED
      BY <1>4, <2>1, <2>2, Typed DEF RestTyped
  <1> QED
    BY <1>3, <1>7, <1>8, <1>9, <1>10 DEF Linked

\* A session:leave keeps the invariant.
LEMMA SessionLeaveStep ==
  ASSUME OwnInv, NEW w \in Sockets, NEW s \in Sessions, SessionLeave(w, s)
  PROVE  RestTyped' /\ Linked /\ Recorded
  <1> DEFINE x == ses[s]
             y == Released(x, x.resume)
  <1>1. /\ \A t \in Sessions : ses'[t] = IF t = s THEN y ELSE ses[t]
        /\ ses' = [t \in Sessions |-> ses'[t]]
    BY Typed DEF SessionLeave
  <1>2. x.live /\ x.holder # None /\ SoundSession(x) /\ x.resume \in BOOLEAN /\ now \in Nat
    BY Typed, SocketTypes DEF SessionLeave, Owns, OwnInv, SoundSession, HeldRight, SessionType, RestTyped
  <1>3. y.holder = None
    BY <1>2, ReleasedSound
  <1>4. Recorded
    <2>1. ReleaseMove(s)
      BY <1>1, <1>2 DEF ReleaseMove
    <2> QED
      BY <1>1, <2>1 DEF Recorded, Moves
  <1> HIDE DEF y
  <1>5. UNCHANGED <<conn, agent, asked, now>>
    BY DEF SessionLeave
  <1>6. \A t \in Sessions, v \in Sockets : t \in held'[v] <=> (t # s /\ t \in held[v])
    BY DEF SessionLeave, Unindexed, OwnInv, IndexAgrees
  <1>7. \A t \in Sessions, v \in Sockets : watch'[t][v] = IF t = s THEN None ELSE watch[t][v]
    BY Typed DEF SessionLeave, NoWatchers, RestTyped
  <1>8. IndexAgrees'
    BY <1>1, <1>3, <1>6 DEF OwnInv, IndexAgrees
  <1>9. HolderOn'
    BY <1>1, <1>3, <1>5 DEF OwnInv, HolderOn
  <1>10. WatchRight'
    BY <1>1, <1>5, <1>7 DEF OwnInv, WatchRight, Watching
  <1>11. RestTyped'
    <2>1. held' \in [Sockets -> SUBSET Sessions]
      BY Typed DEF SessionLeave, Unindexed, RestTyped
    <2>2. watch' \in [Sessions -> [Sockets -> Keys \cup {None}]]
      BY Typed DEF SessionLeave, NoWatchers, RestTyped
    <2> QED
      BY <1>5, <2>1, <2>2, Typed DEF RestTyped
  <1> QED
    BY <1>4, <1>8, <1>9, <1>10, <1>11 DEF Linked

\* A session:end keeps the invariant.
LEMMA SessionEndStep ==
  ASSUME OwnInv, NEW w \in Sockets, NEW s \in Sessions, SessionEnd(w, s)
  PROVE  RestTyped' /\ Linked /\ Recorded
  <1>1. {s} \in SUBSET Sessions /\ Remove({s}) /\ UNCHANGED <<conn, agent, now>>
    BY DEF SessionEnd
  <1>2. /\ Linked /\ Recorded
        /\ held' \in [Sockets -> SUBSET Sessions]
        /\ watch' \in [Sessions -> [Sockets -> Keys \cup {None}]]
        /\ asked' \in [Sessions -> Nat]
    BY <1>1, RemoveStep
  <1> QED
    BY <1>1, <1>2, Typed DEF RestTyped

\* Starting and stopping a watch keep the invariant.
LEMMA WatchSteps ==
  ASSUME OwnInv, NEW w \in Sockets, NEW s \in Sessions, WatchStart(w, s) \/ WatchStop(w, s)
  PROVE  RestTyped' /\ Linked /\ Recorded
  <1>1. UNCHANGED <<conn, ses, held, agent, asked, now>>
    BY DEF WatchStart, WatchStop
  <1>2. PICK k \in Keys \cup {None} :
          /\ watch' = [watch EXCEPT ![s][w] = k]
          /\ k # None => /\ ses[s].live /\ conn[w] # "off" /\ k # KeyOf[w]
                         /\ ses[s].ai /\ k = ses[s].owner
    <2>1. CASE WatchStart(w, s)
      <3>1. ses[s].owner \in Keys \cup {None} /\ ses[s].owner # KeyOf[w]
        BY <2>1, Typed DEF WatchStart, Owns, SessionType
      <3>2. /\ watch' = [watch EXCEPT ![s][w] = ses[s].owner]
            /\ ses[s].live /\ conn[w] # "off" /\ ses[s].ai
        BY <2>1 DEF WatchStart, Speaks
      <3> QED
        BY <3>1, <3>2
    <2>2. CASE WatchStop(w, s)
      BY <2>2 DEF WatchStop
    <2> QED BY <2>1, <2>2
  <1>3. /\ watch' \in [Sessions -> [Sockets -> Keys \cup {None}]]
        /\ \A t \in Sessions, v \in Sockets :
             watch'[t][v] = IF t = s /\ v = w THEN k ELSE watch[t][v]
    BY <1>2, Typed DEF RestTyped
  <1>4. WatchRight'
    BY <1>1, <1>2, <1>3 DEF OwnInv, WatchRight, Watching
  <1>5. IndexAgrees' /\ HolderOn'
    BY <1>1 DEF OwnInv, IndexAgrees, HolderOn
  <1>6. RestTyped'
    BY <1>1, <1>3, Typed DEF RestTyped
  <1>7. Recorded
    BY <1>1, Typed DEF Recorded, Moves
  <1> QED
    BY <1>4, <1>5, <1>6, <1>7 DEF Linked

-----------------------------------------------------------------------------
(* Shutdowns, boots, timers and the agent: steps that mark one record.      *)

LEMMA AskedTyped ==
  ASSUME RestTyped, NEW s \in Sessions
  PROVE  /\ [asked EXCEPT ![s] = @ + 1] \in [Sessions -> Nat]
         /\ [asked EXCEPT ![s] = 0] \in [Sessions -> Nat]
         /\ asked[s] > 0 => [asked EXCEPT ![s] = @ - 1] \in [Sessions -> Nat]
  <1>1. asked \in [Sessions -> Nat] /\ asked[s] \in Nat
    BY DEF RestTyped
  <1>2. asked[s] + 1 \in Nat /\ 0 \in Nat /\ (asked[s] > 0 => asked[s] - 1 \in Nat)
    BY <1>1
  <1> QED
    BY <1>1, <1>2

\* A shutdown a client asks for keeps the invariant.
LEMMA ShutdownStep ==
  ASSUME OwnInv, NEW w \in Sockets, NEW s \in Sessions, Shutdown(w, s)
  PROVE  RestTyped' /\ Linked /\ Recorded
  <1>1. /\ \A t \in Sessions : t # s => ses'[t] = ses[t]
        /\ ses'[s] = NoteShutdown(ses[s], UserOf[w])
        /\ ses' = [t \in Sessions |-> ses'[t]] /\ UserOf[w] \in Users
    BY Typed, SocketTypes DEF Shutdown
  <1>2. ShutdownMove(s)
    BY <1>1 DEF ShutdownMove
  <1>3. UNCHANGED <<conn, held, watch, agent, now>>
    BY DEF Shutdown
  <1>4. Linked /\ Recorded
    BY <1>1, <1>2, <1>3, QuietStep DEF Recorded
  <1> QED
    BY <1>3, <1>4, Typed, AskedTyped DEF Shutdown, Ask, RestTyped

\* The agent's answers to shutdowns keep the invariant.
LEMMA AnswerSteps ==
  ASSUME OwnInv, NEW s \in Sessions,
         ShutdownDone(s) \/ ShutdownError(s)
  PROVE  RestTyped' /\ Linked /\ Recorded
  <1>1. UNCHANGED <<conn, held, watch, agent, now>> /\ Answered(s)
    BY DEF ShutdownDone, ShutdownError
  <1>2. asked' \in [Sessions -> Nat]
    BY <1>1, Typed, AskedTyped DEF Answered
  <1>3. CASE ShutdownDone(s)
    <2>1. /\ \A t \in Sessions : t # s => ses'[t] = ses[t]
          /\ ses'[s] = SettleShutdown(ses[s]) /\ ses' = [t \in Sessions |-> ses'[t]]
      BY <1>3, Typed DEF ShutdownDone
    <2>2. MarkMove(s)
      BY <2>1 DEF SettleShutdown, MarkMove, AfterDowns, Ended
    <2>3. Linked /\ Recorded
      BY <1>1, <2>1, <2>2, QuietStep DEF Recorded
    <2> QED
      BY <1>1, <1>2, <2>3, Typed DEF RestTyped
  <1>4. CASE ShutdownError(s)
    <2>1. /\ \A t \in Sessions : t # s => ses'[t] = ses[t]
          /\ ses'[s] = UndoShutdown(ses[s]) /\ ses' = [t \in Sessions |-> ses'[t]]
          /\ ses[s].live
      BY <1>4, Typed DEF ShutdownError
    <2>2. ShutdownMove(s)
      BY <2>1 DEF ShutdownMove
    <2>3. Linked /\ Recorded
      BY <1>1, <2>1, <2>2, QuietStep DEF Recorded
    <2> QED
      BY <1>1, <1>2, <2>3, Typed DEF RestTyped
  <1> QED
    BY <1>3, <1>4

\* Boots, fired countdowns, evictions for capacity, and the agent's going and coming keep the invariant.
LEMMA MarkSteps ==
  ASSUME OwnInv, NEW s \in Sessions,
         \/ \E w \in Sockets : Boot(w, s)
         \/ IdleFires(s) \/ EvictForCapacity(s) \/ AgentAway(s) \/ DeviceListed(s)
         \/ \E b \in BOOLEAN : AgentBack(s, b)
  PROVE  RestTyped' /\ Linked /\ Recorded
  <1>1. /\ UNCHANGED <<conn, held, watch, now>>
        /\ ses' = [t \in Sessions |-> ses'[t]]
        /\ \A t \in Sessions : t # s => ses'[t] = ses[t]
        /\ agent' \in [Sessions -> BOOLEAN]
    <2>1. agent \in [Sessions -> BOOLEAN] /\ ses \in [Sessions -> SessionType]
      BY Typed DEF RestTyped
    <2> QED
      BY <2>1, Typed, ZenonT(30) DEF Boot, IdleFires, EvictForCapacity, AgentAway, DeviceListed, AgentBack
  <1>2. asked' \in [Sessions -> Nat]
    <2>1. asked \in [Sessions -> Nat]
      BY Typed DEF RestTyped
    <2>2. RestTyped
      BY Typed
    <2>3. CASE \E w \in Sockets : Boot(w, s)
      BY <2>1, <2>3 DEF Boot
    <2>4. CASE IdleFires(s) \/ EvictForCapacity(s)
      <3>1. Ask(s) \/ UNCHANGED asked
        BY <2>4 DEF IdleFires, EvictForCapacity
      <3>2. CASE Ask(s)
        BY <2>2, <3>2, AskedTyped DEF Ask
      <3>3. CASE UNCHANGED asked
        BY <2>1, <3>3
      <3> QED BY <3>1, <3>2, <3>3
    <2>5. CASE AgentAway(s) \/ DeviceListed(s)
      BY <2>1, <2>5 DEF AgentAway, DeviceListed
    <2>6. CASE \E b \in BOOLEAN : AgentBack(s, b)
      BY <2>1, <2>2, <2>6, AskedTyped DEF AgentBack
    <2> QED BY <2>3, <2>4, <2>5, <2>6
  <1>3. ses'[s] = ses[s] \/ MarkMove(s)
    <2>1. CASE \E w \in Sockets : Boot(w, s)
      <3>1. ses'[s] = BootSent(ses[s])
        BY <2>1, Typed DEF Boot
      <3>2. PICK a \in AfterDowns : ses'[s] = [ses[s] EXCEPT !.afterDown = a]
        BY <3>1, Typed DEF BootSent, AfterDowns, SessionType
      <3> QED
        BY <3>2 DEF MarkMove
    <2>2. CASE IdleFires(s)
      <3>1. ses'[s] = Ended(ses[s]) \/ ses'[s] = [Ended(ses[s]) EXCEPT !.afterDown = "out"]
        BY <2>2, Typed DEF IdleFires, ShutdownSent, Ended
      <3> QED
        BY <3>1 DEF MarkMove, AfterDowns
    <2>3. CASE EvictForCapacity(s)
      <3>1. ses'[s] = [ses[s] EXCEPT !.afterDown = "out"]
        BY <2>3, Typed DEF EvictForCapacity, ShutdownSent
      <3> QED
        BY <3>1 DEF MarkMove, AfterDowns
    <2>4. CASE AgentAway(s)
      BY <2>4 DEF AgentAway
    <2>5. CASE DeviceListed(s) \/ \E b \in BOOLEAN : AgentBack(s, b)
      <3>1. ses'[s] = [ses[s] EXCEPT !.gone = FALSE]
        BY <2>5, Typed DEF DeviceListed, AgentBack
      <3> QED
        BY <3>1 DEF MarkMove
    <2> QED BY <2>1, <2>2, <2>3, <2>4, <2>5
  <1>4. Linked /\ Recorded
    BY <1>1, <1>3, QuietStep DEF Recorded
  <1> QED
    BY <1>1, <1>2, <1>4, Typed DEF RestTyped

\* An agent that does not return, and a device that leaves its Mac, keep the invariant.
LEMMA LostSteps ==
  ASSUME OwnInv, NEW s \in Sessions, AgentLost(s) \/ \E b \in BOOLEAN : DeviceGone(s, b)
  PROVE  RestTyped' /\ Linked /\ Recorded
  <1>1. conn' = conn /\ now' = now /\ agent' \in [Sessions -> BOOLEAN]
    BY Typed, ZenonT(30) DEF AgentLost, DeviceGone, RestTyped
  <1>2. CASE Remove({s})
    <2>1. /\ Linked /\ Recorded
          /\ held' \in [Sockets -> SUBSET Sessions]
          /\ watch' \in [Sessions -> [Sockets -> Keys \cup {None}]]
          /\ asked' \in [Sessions -> Nat]
      BY <1>1, <1>2, RemoveStep
    <2> QED
      BY <1>1, <2>1, Typed DEF RestTyped
  <1>3. CASE ses' = [ses EXCEPT ![s].gone = TRUE] /\ UNCHANGED <<held, watch, asked>>
    <2>1. /\ \A t \in Sessions : t # s => ses'[t] = ses[t]
          /\ ses'[s] = [ses[s] EXCEPT !.gone = TRUE] /\ ses' = [t \in Sessions |-> ses'[t]]
      BY <1>3, Typed
    <2>2. MarkMove(s)
      BY <2>1 DEF MarkMove
    <2>3. Linked /\ Recorded
      BY <1>1, <1>3, <2>1, <2>2, QuietStep DEF Recorded
    <2> QED
      BY <1>1, <1>3, <2>3, Typed DEF RestTyped
  <1> QED
    BY <1>2, <1>3 DEF AgentLost, DeviceGone

\* A new session keeps the invariant.
LEMMA CreateStep ==
  ASSUME OwnInv, NEW s \in Sessions, Create(s)
  PROVE  RestTyped' /\ Linked /\ Recorded
  <1>1. /\ \A t \in Sessions : ses'[t] = IF t = s THEN NewSession ELSE ses[t]
        /\ ses' = [t \in Sessions |-> ses'[t]] /\ ~ses[s].live
        /\ UNCHANGED <<conn, held, watch, agent, asked, now>>
    BY Typed DEF Create
  <1>2. ses[s].holder = None /\ \A w \in Sockets : ~Watching(w, s)
    BY <1>1 DEF OwnInv, SoundSession, HeldRight, WatchRight
  <1>3. Recorded
    BY <1>1 DEF Recorded, Moves, LifeMove
  <1>4. IndexAgrees'
    BY <1>1, <1>2, NoSessionSound DEF OwnInv, IndexAgrees
  <1>5. HolderOn'
    BY <1>1, NoSessionSound DEF OwnInv, HolderOn
  <1>6. WatchRight'
    BY <1>1, <1>2 DEF OwnInv, WatchRight, Watching
  <1> QED
    BY <1>1, <1>3, <1>4, <1>5, <1>6, Typed DEF Linked, RestTyped

\* The passing of time keeps the invariant.
LEMMA AdvanceStep ==
  ASSUME OwnInv, Advance \/ UNCHANGED vars
  PROVE  RestTyped' /\ Linked /\ Recorded
  <1>1. UNCHANGED <<conn, ses, held, watch, agent, asked>> /\ now' \in Nat
    BY Typed DEF Advance, vars, RestTyped
  <1>2. Linked /\ Recorded
    BY <1>1, QuietStep, Typed DEF Recorded
  <1> QED
    BY <1>1, <1>2, Typed DEF RestTyped

-----------------------------------------------------------------------------
(* The invariant and the theorems.                                          *)

LEMMA NextStep ==
  ASSUME OwnInv, [Next]_vars
  PROVE  RestTyped' /\ Linked /\ Recorded
  <1>1. CASE \E w \in Sockets : Connect(w) \/ FallSilent(w) \/ StartClosing(w) \/ Close(w)
    BY <1>1, ConnectionSteps, CloseStep
  <1>2. CASE \E w \in Sockets, s \in Sessions :
               SessionStart(w, s) \/ SessionLeave(w, s) \/ SessionEnd(w, s)
    BY <1>2, SessionStartStep, SessionLeaveStep, SessionEndStep
  <1>3. CASE \E w \in Sockets, s \in Sessions : WatchStart(w, s) \/ WatchStop(w, s)
    BY <1>3, WatchSteps
  <1>4. CASE \E w \in Sockets, s \in Sessions : Shutdown(w, s)
    BY <1>4, ShutdownStep
  <1>5. CASE \E s \in Sessions :
               \/ \E w \in Sockets : Boot(w, s)
               \/ IdleFires(s) \/ EvictForCapacity(s) \/ AgentAway(s) \/ DeviceListed(s)
               \/ \E b \in BOOLEAN : AgentBack(s, b)
    BY <1>5, MarkSteps
  <1>6. CASE \E s \in Sessions : ShutdownDone(s) \/ ShutdownError(s)
    BY <1>6, AnswerSteps
  <1>7. CASE \E s \in Sessions : AgentLost(s) \/ \E b \in BOOLEAN : DeviceGone(s, b)
    BY <1>7, LostSteps
  <1>8. CASE \E s \in Sessions : Create(s)
    BY <1>8, CreateStep
  <1>9. CASE \E booting \in SUBSET Sessions : Heartbeat(booting)
    BY <1>9, HeartbeatStep
  <1>10. CASE Advance \/ UNCHANGED vars
    BY <1>10, AdvanceStep
  <1> QED
    BY <1>1, <1>2, <1>3, <1>4, <1>5, <1>6, <1>7, <1>8, <1>9, <1>10 DEF Next

\* The initial state satisfies the invariant.
LEMMA InitInv == Init => OwnInv
  <1> SUFFICES ASSUME Init PROVE OwnInv
    OBVIOUS
  <1>1. \A s \in Sessions : ses[s] = NewSession
    BY DEF Init
  <1>2. NewSession \in SessionType
    BY NoSessionSound DEF SoundSession
  <1>3. 0 \in Nat /\ NoWatchers \in [Sockets -> Keys \cup {None}]
    BY DEF NoWatchers
  <1>4. TypeOK
    BY <1>2, <1>3 DEF Init, TypeOK
  <1>5. IndexAgrees
    BY <1>1, NoSessionSound DEF Init, IndexAgrees
  <1>6. HolderOn
    BY <1>1, NoSessionSound DEF HolderOn
  <1>7. WatchRight
    BY NoWatcher DEF Init, WatchRight, Watching
  <1> QED
    BY <1>1, <1>4, <1>5, <1>6, <1>7, NoSessionSound DEF OwnInv

\* Every step of the handlers keeps the invariant.
LEMMA StepInv == OwnInv /\ [Next]_vars => OwnInv'
  <1> SUFFICES ASSUME OwnInv, [Next]_vars PROVE OwnInv'
    OBVIOUS
  <1>1. RestTyped' /\ Linked /\ Recorded
    BY NextStep
  <1>2. \A s \in Sessions : SoundSession(ses'[s])
    BY <1>1, MovesSound, Typed DEF OwnInv, Recorded, RestTyped
  <1>3. ses' \in [Sessions -> SessionType]
    BY <1>1, <1>2 DEF Recorded, SoundSession
  <1>4. TypeOK'
    BY <1>1, <1>3 DEF TypeOK, RestTyped
  <1> QED
    BY <1>1, <1>2, <1>4 DEF OwnInv, Linked

\* In every reachable state the types, the index, the connections, the watches
\* and every session's record are right: the invariant the theorems rest on.
THEOREM Invariance == Spec => []OwnInv
  BY InitInv, StepInv, PTL DEF Spec

\* Every variable of the session manager and its handlers keeps its type.
THEOREM TypeCorrect == Spec => []TypeOK
  <1>1. OwnInv => TypeOK
    BY DEF OwnInv
  <1> QED
    BY Invariance, <1>1, PTL

\* The index that the close handler reads names exactly the sessions a socket holds.
THEOREM IndexIsRight == Spec => []IndexAgrees
  <1>1. OwnInv => IndexAgrees
    BY DEF OwnInv
  <1> QED
    BY Invariance, <1>1, PTL

\* No session is held by a socket whose close has been processed.
THEOREM HolderIsConnected == Spec => []HolderConnected
  <1>1. OwnInv => HolderConnected
    BY DEF OwnInv, HolderOn, HolderConnected, SoundSession, HeldRight
  <1> QED
    BY Invariance, <1>1, PTL

\* Holder, owner, connection and index say the same of every session.
THEOREM HoldersAreRight == Spec => []HoldersAgree
  BY IndexIsRight, HolderIsConnected, PTL DEF HoldersAgree

\* A device somebody holds never counts down to its shutdown.
THEOREM HeldIsKeptUp == Spec => []HeldDoesNotCount
  <1>1. OwnInv => HeldDoesNotCount
    BY DEF OwnInv, HeldDoesNotCount, SoundSession, HeldRight
  <1> QED
    BY Invariance, <1>1, PTL

\* A device waits for a person only while a countdown runs, or while an AI client
\* that borrowed one has the device and will start it again.
THEOREM WaitHasCountdown == Spec => []WaitIsCounted
  <1>1. OwnInv => WaitIsCounted
    BY DEF OwnInv, WaitIsCounted, SoundSession, WaitRight
  <1> QED
    BY Invariance, <1>1, PTL

\* A countdown runs where it may, and where a person was promised one.
THEOREM CountdownsAreRight == Spec => []CountdownIsRight
  BY HeldIsKeptUp, WaitHasCountdown, PTL DEF CountdownIsRight

\* Nobody is told both that a device waits for them and that the wait is over.
THEOREM ToldOneThing == Spec => []NotToldBoth
  <1>1. OwnInv => NotToldBoth
    BY DEF OwnInv, NotToldBoth, SoundSession, WaitRight
  <1> QED
    BY Invariance, <1>1, PTL

\* Whoever watches a held session was admitted under the AI client that holds it.
THEOREM WatchIsTheHolders == Spec => []WatchFollowsHolder
  <1>1. OwnInv => WatchFollowsHolder
    BY DEF OwnInv, WatchRight, WatchFollowsHolder
  <1> QED
    BY Invariance, <1>1, PTL

\* A watching connection never owns what it watches.
THEOREM WatcherIsNoOwner == Spec => []WatcherHasNoControl
  <1>1. OwnInv => WatcherHasNoControl
    BY SocketTypes DEF OwnInv, WatchRight, WatcherHasNoControl, Owns, SoundSession, HeldRight
  <1> QED
    BY Invariance, <1>1, PTL

\* A watch is of the client that holds the device now, and gives no hold on it.
THEOREM WatchesAreRight == Spec => []WatchesFollow
  BY WatchIsTheHolders, WatcherIsNoOwner, PTL DEF WatchesFollow

\* The relay's handlers implement DevicePromise: whatever sockets, timers,
\* shutdowns and agents do, nobody who answers loses a device to another client,
\* and a person's promise outlives the AI client that borrowed the device.
THEOREM PromiseIsKept == Spec => KeepsPromise
  <1>1. Init => Promise!Init
    <2> SUFFICES ASSUME Init PROVE Promise!Init
      OBVIOUS
    <2>1. \A s \in Sessions : /\ ses[s].live = TRUE /\ ses[s].owner = None /\ ses[s].holder = None
                              /\ ses[s].waiting.user = None /\ ses[s].lastAi = FALSE
      BY DEF Init, NewSession, NoWait
    <2>2. /\ [s \in Sessions |-> ses[s].owner] = [s \in Sessions |-> None]
          /\ [s \in Sessions |-> ses[s].waiting.user] = [s \in Sessions |-> None]
      BY <2>1
    <2>5. [s \in Sessions |-> ses[s].live] = [s \in Sessions |-> TRUE]
      BY <2>1, Zenon
    <2>3. [s \in Sessions |-> ses[s].holder # None /\ conn[ses[s].holder] = "open"]
            = [s \in Sessions |-> FALSE]
      <3>1. \A s \in Sessions : (ses[s].holder # None /\ conn[ses[s].holder] = "open") = FALSE
        BY <2>1
      <3> QED
        BY <3>1, Zenon
    <2>4. [s \in Sessions |-> ~ses[s].lastAi] = [s \in Sessions |-> TRUE]
      <3>1. \A s \in Sessions : (~ses[s].lastAi) = TRUE
        BY <2>1
      <3> QED
        BY <3>1, Zenon
    <2> QED
      BY <2>2, <2>3, <2>4, <2>5 DEF Promise!Init
  <1>2. OwnInv /\ [Next]_vars => [Promise!Next]_Promise!vars
    <2> SUFFICES ASSUME OwnInv, [Next]_vars PROVE Promise!Next
      OBVIOUS
    <2>1. Recorded /\ OwnInv'
      BY NextStep, StepInv
    <2>2. \A s \in Sessions : Promise!DeviceNext(s)
      BY <2>1, MovesKeepPromise, Typed DEF OwnInv, Recorded, TypeOK, RestTyped
    <2> QED
      BY <2>2 DEF Promise!Next
  <1> QED
    BY <1>1, <1>2, Invariance, PTL DEF Spec, KeepsPromise, Promise!Spec
=============================================================================
