---------------------------- MODULE FrameRelay ----------------------------
(***************************************************************************)
(* One device's H.264 stream on its way to the people who see it: the       *)
(* agent's encoder and its keyframe-aware sender, the agent's stream socket, *)
(* the relay, one more such sender for the holder and one for every watcher, *)
(* each in front of a socket that fills and drains as its viewer reads       *)
(* (agent-core/src/utils/stream.ts, RelayServer.ts 1336-1404).  A dropped    *)
(* frame is repaired by a keyframe: a periodic one, or one the relay asks    *)
(* for, at most once a throttle window.                                      *)
(*                                                                           *)
(* A frame is what it refers to: a keyframe nothing, any other the frame     *)
(* encoded just before it.  The encoder and the decoder are not this code's: *)
(* an encoder answers a request with a keyframe, a decoder shows nothing     *)
(* until its first one.                                                      *)
(***************************************************************************)
EXTENDS Naturals, Sequences

CONSTANTS Viewers,      \* browser sockets
          None,
          MaxUp,        \* frames the agent's stream socket takes before it counts as full
          Cap,          \* the same for a viewer's socket
          KeepAlive     \* does the encoder repeat a still screen (iOS) or not (Android emulator)?

ASSUME StreamAssumption ==
  /\ MaxUp \in Nat \ {0} /\ Cap \in Nat \ {0} /\ KeepAlive \in BOOLEAN
  /\ None \notin Viewers

VARIABLES
  enc,       \* the agent: its sender's `dropping`, whether the last frame went out, a keyframe owed, its throttle
  up,        \* frames in the agent's stream socket, each with whether the one before it went out
  asked,     \* a stream:request-idr on its way to the agent
  spent,     \* the session's requester fired less than a throttle window ago
  holder,    \* the socket that holds the session, or None
  streams,   \* does the holder take frames (`stream: false` says no)?
  watching,  \* the watchers
  hdrop,     \* `dropping` of the session's sender, which outlives its holder's socket
  wdrop,     \* `dropping` of each watcher's sender
  buf,       \* frames in each viewer's socket
  pic        \* what each viewer's decoder has

vars == <<enc, up, asked, spent, holder, streams, watching, hdrop, wdrop, buf, pic>>

\* "wait": no keyframe yet; "live": every frame so far; "behind": it missed the
\* last frames; "torn": it was given a frame whose reference it missed.
Pictures == {"wait", "live", "behind", "torn"}
Frames == [key : BOOLEAN, follows : BOOLEAN]

Sees(v) == v \in watching \/ (v = holder /\ streams)

Init ==
  /\ enc = [drop |-> FALSE, sent |-> FALSE, owed |-> FALSE, spent |-> FALSE]
  /\ up = <<>>
  /\ asked = FALSE /\ spent = FALSE
  /\ holder = None /\ streams = TRUE /\ watching = {}
  /\ hdrop = FALSE /\ wdrop = [v \in Viewers |-> FALSE]
  /\ buf = [v \in Viewers |-> 0] /\ pic = [v \in Viewers |-> "wait"]

----------------------------------------------------------------------------
\* Mutant: any frame that fits ends the dropping, as for pictures that stand alone.
SendsAny(dropping, full, key) == ~full

\* Mutant: the keyframe is asked for by a frame that finds no room, and not again.
WantsWhenFull(dropping, full, key) == ~dropping /\ full

\* createKeyframeAwareSender().send: is this frame forwarded?  It is dropping
\* afterwards exactly if it is not; and it asks for a keyframe when it was
\* dropping already, still is, and has room.
Sends(dropping, full, key) == ~full /\ (dropping => key)
Wants(dropping, full, key) == dropping /\ ~full /\ ~key

\* The agent's pump encodes a frame and hands it to its sender; while that drops,
\* it asks its own encoder for a keyframe, throttled like the relay's.  An
\* encoder's first frame is a keyframe.
Encode(key) ==
  LET full == Len(up) >= MaxUp
      goes == Sends(enc.drop, full, key)
      want == Wants(enc.drop, full, key) /\ ~enc.spent
  IN  /\ key \/ enc.sent \/ enc.drop
      /\ enc' = [drop |-> ~goes, sent |-> goes, owed |-> ~key /\ (enc.owed \/ want),
                 spent |-> enc.spent \/ want]
      /\ up' = IF goes THEN Append(up, [key |-> key, follows |-> enc.sent]) ELSE up
      /\ UNCHANGED <<asked, spent, holder, streams, watching, hdrop, wdrop, buf, pic>>

\* The screen moved.  / It did not, and the encoder repeats it.  Either frame may be
\* a keyframe nobody asked for.  / A keyframe is owed: the encoder emits one from
\* what it has, still screen or not.
EncodeChange == ~enc.owed /\ \E key \in BOOLEAN : Encode(key)
EncodeStill == KeepAlive /\ ~enc.owed /\ \E key \in BOOLEAN : Encode(key)
EncodeOwed == enc.owed /\ Encode(TRUE)

\* A keyframe nobody asked for: the encoder's own period, where it has one.
Periodic == ~enc.owed /\ Encode(TRUE)

\* stream:request-idr reaches the agent.
AnswerRequest ==
  /\ asked
  /\ asked' = FALSE
  /\ enc' = [enc EXCEPT !.owed = TRUE]
  /\ UNCHANGED <<up, spent, holder, streams, watching, hdrop, wdrop, buf, pic>>

AgentWindowEnds ==
  /\ enc.spent
  /\ enc' = [enc EXCEPT !.spent = FALSE]
  /\ UNCHANGED <<up, asked, spent, holder, streams, watching, hdrop, wdrop, buf, pic>>

----------------------------------------------------------------------------
Full(v) == buf[v] >= Cap
Dropping(v) == IF v = holder THEN hdrop ELSE wdrop[v]

\* Does viewer v get this frame?
Gets(v, f) == Sees(v) /\ Sends(Dropping(v), Full(v), f.key)

\* What a decoder makes of it.
Shown(p, f) == IF f.key THEN "live" ELSE IF p = "behind" THEN "torn" ELSE p
Missed(p) == IF p = "live" THEN "behind" ELSE p

\* idrRequester: the session's one requester.  Inside its window a request is lost.
Request(wanted) ==
  /\ asked' = (asked \/ (wanted /\ ~spent))
  /\ spent' = (spent \/ wanted)

\* A frame arrives at the relay and goes to the holder and to every watcher, each
\* through its own sender.  Only the holder's drops ask for a keyframe.
RelayFrame ==
  /\ up # <<>>
  /\ LET f == Head(up) IN
     /\ buf' = [v \in Viewers |-> IF Gets(v, f) THEN buf[v] + 1 ELSE buf[v]]
     /\ pic' = [v \in Viewers |-> IF Gets(v, f) THEN Shown(pic[v], f)
                                  ELSE IF Sees(v) THEN Missed(pic[v]) ELSE pic[v]]
     /\ hdrop' = IF holder # None /\ streams THEN ~Gets(holder, f) ELSE hdrop
     /\ wdrop' = [v \in Viewers |-> IF v \in watching THEN ~Gets(v, f) ELSE wdrop[v]]
     /\ Request(holder # None /\ streams /\ Wants(hdrop, Full(holder), f.key))
  /\ up' = Tail(up)
  /\ UNCHANGED <<enc, holder, streams, watching>>

\* The viewer reads.
Drain(v) ==
  /\ buf[v] > 0
  /\ buf' = [buf EXCEPT ![v] = @ - 1]
  /\ UNCHANGED <<enc, up, asked, spent, holder, streams, watching, hdrop, wdrop, pic>>

WindowEnds ==
  /\ spent
  /\ spent' = FALSE
  /\ UNCHANGED <<enc, up, asked, holder, streams, watching, hdrop, wdrop, buf, pic>>

----------------------------------------------------------------------------
\* Mutant: a client that watches may join without its watch ending.
JoinWatching(v, takesFrames) ==
  /\ holder \in {None, v}
  /\ holder' = v /\ streams' = takesFrames
  /\ Request(takesFrames)
  /\ UNCHANGED <<enc, up, hdrop, wdrop, watching, buf, pic>>

\* The watchers a join or a leave sends away lose their senders.
Forgets(gone) == wdrop' = [v \in Viewers |-> wdrop[v] /\ v \notin gone]

\* session:start by whom the ownership rules let in: nobody holds the session, or
\* v does already.  A join by another client sends the watchers away.
Join(v, takesFrames) ==
  /\ holder \in {None, v} /\ v \notin watching
  /\ holder' = v /\ streams' = takesFrames
  /\ watching' \in {watching, {}}
  /\ Forgets(watching \ watching')
  /\ pic' = [u \in Viewers |-> IF u \in watching \ watching' \/ (u = v /\ ~(Sees(v) /\ takesFrames))
                               THEN "wait" ELSE pic[u]]
  /\ Request(takesFrames)
  /\ UNCHANGED <<enc, up, hdrop, buf>>

\* session:leave: forgetSessionState drops the session's sender and its requester,
\* and the watches end.
Leave(v) ==
  /\ holder = v
  /\ holder' = None /\ streams' = TRUE /\ watching' = {}
  /\ hdrop' = FALSE /\ spent' = FALSE
  /\ Forgets(watching)
  /\ pic' = [u \in Viewers |-> "wait"]
  /\ UNCHANGED <<enc, up, asked, buf>>

\* The socket closes.  A holder's sender and requester stay for the next holder.
Close(v) ==
  /\ v \in watching \cup {holder}
  /\ holder' = IF holder = v THEN None ELSE holder
  /\ streams' = (streams \/ holder = v)
  /\ watching' = watching \ {v}
  /\ Forgets({v})
  /\ buf' = [buf EXCEPT ![v] = 0]
  /\ pic' = [pic EXCEPT ![v] = "wait"]
  /\ UNCHANGED <<enc, up, asked, spent, hdrop>>

WatchStart(v) ==
  /\ holder \notin {None, v} /\ v \notin watching
  /\ watching' = watching \cup {v}
  /\ pic' = [pic EXCEPT ![v] = "wait"]
  /\ Request(TRUE)
  /\ UNCHANGED <<enc, up, holder, streams, hdrop, wdrop, buf>>

WatchStop(v) ==
  /\ v \in watching
  /\ watching' = watching \ {v}
  /\ Forgets({v})
  /\ pic' = [pic EXCEPT ![v] = "wait"]
  /\ UNCHANGED <<enc, up, asked, spent, holder, streams, hdrop, buf>>

Agent == EncodeChange \/ EncodeStill \/ EncodeOwed \/ AnswerRequest \/ AgentWindowEnds

Viewer(v) == \/ Drain(v) \/ Leave(v) \/ Close(v) \/ WatchStart(v) \/ WatchStop(v)
             \/ \E t \in BOOLEAN : Join(v, t)

Next == Agent \/ RelayFrame \/ WindowEnds \/ \E v \in Viewers : Viewer(v)

Spec == Init /\ [][Next]_vars

\* A still screen is repeated if the encoder does that at all, an owed keyframe is
\* produced, sockets carry what is in them, viewers read, windows end.  Nothing
\* says that a screen moves, or that a keyframe comes unasked.
FairSpec == /\ Spec
            /\ WF_vars(EncodeStill) /\ WF_vars(EncodeOwed) /\ WF_vars(AnswerRequest)
            /\ WF_vars(AgentWindowEnds) /\ WF_vars(RelayFrame) /\ WF_vars(WindowEnds)
            /\ \A v \in Viewers : WF_vars(Drain(v))

----------------------------------------------------------------------------
TypeOK ==
  /\ enc \in [drop : BOOLEAN, sent : BOOLEAN, owed : BOOLEAN, spent : BOOLEAN]
  /\ up \in Seq(Frames)
  /\ asked \in BOOLEAN /\ spent \in BOOLEAN /\ streams \in BOOLEAN /\ hdrop \in BOOLEAN
  /\ holder \in Viewers \cup {None} /\ watching \subseteq Viewers
  /\ wdrop \in [Viewers -> BOOLEAN] /\ buf \in [Viewers -> Nat] /\ pic \in [Viewers -> Pictures]

\* No viewer's decoder is ever handed a frame that refers to one it was not given,
\* over both hops, through full sockets, joins, leaves and watchers: "the decoder
\* never receives a P-frame that references a dropped frame".
NoBrokenReference ==
  /\ \A i \in 1..Len(up) : up[i].key \/ up[i].follows
  /\ \A v \in Viewers : pic[v] # "torn"

\* A sender that let its viewer miss a frame knows that it did, until a keyframe.
GapIsKnown == \A v \in Viewers : Sees(v) /\ pic[v] = "behind" => Dropping(v)

\* What the steps preserve: the holder is no watcher, so each viewer has one
\* sender, which knows of a gap; and the agent's last frame was sent or dropped.
StreamInv ==
  /\ TypeOK /\ NoBrokenReference /\ GapIsKnown
  /\ holder \notin watching
  /\ ~(enc.sent /\ enc.drop)

\* "the moment to request an on-demand IDR to resync faster": by what the senders
\* ask for alone, with no keyframe unasked, the agent's sender ends every dropping
\* of its own and a holder whose sender drops has its picture back or takes no more
\* frames.  A request lost to the throttle is made again by the next frame.
DroppingEnds ==
  /\ enc.drop ~> ~enc.drop
  /\ \A v \in Viewers : (v = holder /\ streams /\ hdrop) ~> (v # holder \/ ~streams \/ pic[v] = "live")

\* Watchers' drops ask for nothing, and a viewer whose joining request was lost to
\* the throttle does not ask again: if keyframes go on coming unasked, they too have
\* a picture or stop looking, however many of those keyframes are dropped.
PeriodicRepairs ==
  []<><<Periodic>>_vars =>
    \A v \in Viewers : (Sees(v) /\ pic[v] # "live") ~> (~Sees(v) \/ pic[v] = "live")

\* No viewer stays without a picture.
StalledViewerResumes == DroppingEnds /\ PeriodicRepairs
============================================================================
