------------------------- MODULE FrameRelayProofs -------------------------
(***************************************************************************)
(* No decoder is handed a frame whose reference it missed, for every number *)
(* of viewers and every size of the sockets.                                *)
(***************************************************************************)
EXTENDS FrameRelay, TLAPS

USE StreamAssumption

\* Before anything is sent.
LEMMA StreamInit == Init => StreamInv
<1> SUFFICES ASSUME Init PROVE StreamInv
  OBVIOUS
<1>1. up \in Seq(Frames) /\ Len(up) = 0
  BY DEF Init
<1>2. enc \in [drop : BOOLEAN, sent : BOOLEAN, owed : BOOLEAN, spent : BOOLEAN]
  BY DEF Init
<1>3. pic \in [Viewers -> Pictures] /\ \A v \in Viewers : pic[v] = "wait"
  BY DEF Init, Pictures
<1>4. TypeOK
  BY <1>1, <1>2, <1>3 DEF Init, TypeOK
<1>5. NoBrokenReference /\ GapIsKnown
  BY <1>1, <1>3 DEF NoBrokenReference, GapIsKnown
<1> QED BY <1>4, <1>5 DEF Init, StreamInv

\* A frame the agent's sender lets through follows the one before it or needs none.
LEMMA EncodeKeeps ==
  ASSUME StreamInv, NEW key \in BOOLEAN, Encode(key)
  PROVE  StreamInv'
<1> DEFINE goes == Sends(enc.drop, Len(up) >= MaxUp, key)
           f == [key |-> key, follows |-> enc.sent]
<1>1. goes \in BOOLEAN /\ (goes => f.key \/ f.follows) /\ f \in Frames
  BY DEF Encode, Sends, StreamInv, TypeOK, Frames
<1>2. up' \in Seq(Frames) /\ \A i \in 1..Len(up') : up'[i].key \/ up'[i].follows
  <2>1. CASE goes
    BY <1>1, <2>1 DEF Encode, StreamInv, TypeOK, NoBrokenReference
  <2>2. CASE ~goes
    BY <2>2 DEF Encode, StreamInv, TypeOK, NoBrokenReference
  <2> QED BY <2>1, <2>2
<1>3. enc' \in [drop : BOOLEAN, sent : BOOLEAN, owed : BOOLEAN, spent : BOOLEAN]
  <2>1. Wants(enc.drop, Len(up) >= MaxUp, key) \in BOOLEAN
    BY DEF Wants, StreamInv, TypeOK
  <2> DEFINE want == Wants(enc.drop, Len(up) >= MaxUp, key) /\ ~enc.spent
             owed == ~key /\ (enc.owed \/ want)
  <2>2. enc' = [drop |-> ~goes, sent |-> goes, owed |-> owed, spent |-> enc.spent \/ want]
    BY DEF Encode
  <2>3. (~goes) \in BOOLEAN /\ goes \in BOOLEAN
    BY <1>1
  <2>4. owed \in BOOLEAN /\ (enc.spent \/ want) \in BOOLEAN
    BY <2>1 DEF StreamInv, TypeOK
  <2> HIDE DEF goes, want, owed
  <2> QED BY <2>2, <2>3, <2>4
<1>4. ~(enc'.sent /\ enc'.drop)
  BY <1>1 DEF Encode
<1>5. UNCHANGED <<asked, spent, holder, streams, watching, hdrop, wdrop, buf, pic>>
  BY DEF Encode
<1> QED BY <1>2, <1>3, <1>4, <1>5 DEF StreamInv, TypeOK, NoBrokenReference, GapIsKnown, Sees, Dropping

\* One frame at the relay: whoever misses it is marked, whoever gets it had the
\* one before it, or it is a keyframe.
LEMMA RelayFrameKeeps == StreamInv /\ RelayFrame => StreamInv'
<1> SUFFICES ASSUME StreamInv, RelayFrame PROVE StreamInv'
  OBVIOUS
<1> DEFINE f == Head(up)
<1>1. f \in Frames /\ f.key \in BOOLEAN /\ up' \in Seq(Frames)
      /\ \A i \in 1..Len(up') : up'[i].key \/ up'[i].follows
  <2>1. up \in Seq(Frames) /\ up # <<>> /\ up' = Tail(up)
    BY DEF RelayFrame, StreamInv, TypeOK
  <2>2. \A i \in 1..Len(up) : up[i].key \/ up[i].follows
    BY DEF StreamInv, NoBrokenReference
  <2>3. f \in Frames /\ up' \in Seq(Frames)
    BY <2>1
  <2>4. f.key \in BOOLEAN
    BY <2>3 DEF Frames
  <2>5. \A i \in 1..Len(up') : i + 1 \in 1..Len(up) /\ up'[i] = up[i + 1]
    BY <2>1
  <2>6. \A i \in 1..Len(up') : up'[i].key \/ up'[i].follows
    BY <2>2, <2>5
  <2> QED BY <2>3, <2>4, <2>6
<1>2. UNCHANGED <<enc, holder, streams, watching>>
  BY DEF RelayFrame
<1>3. \A v \in Viewers : Gets(v, f) \in BOOLEAN
  BY DEF Gets, Sends, Sees, StreamInv, TypeOK
<1>4. /\ hdrop' \in BOOLEAN /\ wdrop' \in [Viewers -> BOOLEAN]
      /\ asked' \in BOOLEAN /\ spent' \in BOOLEAN /\ buf' \in [Viewers -> Nat]
  <2>1. hdrop' \in BOOLEAN
    BY <1>3 DEF RelayFrame, StreamInv, TypeOK
  <2>2. wdrop' \in [Viewers -> BOOLEAN]
    BY <1>3 DEF RelayFrame, StreamInv, TypeOK
  <2>3. asked' \in BOOLEAN /\ spent' \in BOOLEAN
    BY DEF RelayFrame, Request, Wants, StreamInv, TypeOK
  <2>4. buf' \in [Viewers -> Nat]
    BY DEF RelayFrame, StreamInv, TypeOK
  <2> QED BY <2>1, <2>2, <2>3, <2>4
<1>5. ASSUME NEW v \in Viewers
      PROVE  /\ pic'[v] \in Pictures \ {"torn"}
             /\ Sees(v)' /\ pic'[v] = "behind" => Dropping(v)'
  <2>1. pic[v] \in Pictures \ {"torn"} /\ (Sees(v) /\ pic[v] = "behind" => Dropping(v))
    BY DEF StreamInv, TypeOK, NoBrokenReference, GapIsKnown
  <2>2. pic'[v] = IF Gets(v, f) THEN Shown(pic[v], f) ELSE IF Sees(v) THEN Missed(pic[v]) ELSE pic[v]
    BY DEF RelayFrame, StreamInv, TypeOK
  <2>3. Sees(v)' = Sees(v)
    BY <1>2 DEF Sees
  <2>4. CASE Gets(v, f)
    <3>1. f.key \/ pic[v] # "behind"
      BY <2>1, <2>4 DEF Gets, Sends
    <3> QED BY <2>1, <2>2, <2>4, <3>1 DEF Shown, Pictures
  <2>5. CASE ~Gets(v, f) /\ Sees(v)
    <3>1. Dropping(v)'
      <4>1. CASE v = holder
        BY <4>1, <2>5, <1>2 DEF RelayFrame, Dropping, Sees, StreamInv
      <4>2. CASE v # holder
        BY <4>2, <2>5, <1>2 DEF RelayFrame, Dropping, Sees, StreamInv, TypeOK
      <4> QED BY <4>1, <4>2
    <3> QED BY <2>1, <2>2, <2>5, <3>1 DEF Missed, Pictures
  <2>6. CASE ~Gets(v, f) /\ ~Sees(v)
    BY <2>1, <2>2, <2>3, <2>6
  <2> QED BY <2>4, <2>5, <2>6
<1>6. pic' \in [Viewers -> Pictures]
  BY <1>5 DEF RelayFrame
<1> QED BY <1>1, <1>2, <1>4, <1>5, <1>6 DEF StreamInv, TypeOK, NoBrokenReference, GapIsKnown

\* Coming and going: whoever begins to see the stream begins without a picture.
LEMMA ViewerKeeps == ASSUME NEW v \in Viewers, StreamInv, Viewer(v) PROVE StreamInv'
<1> USE DEF StreamInv, TypeOK, NoBrokenReference, GapIsKnown, Sees, Dropping, Pictures
<1>1. CASE Drain(v)
  BY <1>1 DEF Drain
<1>2. CASE Leave(v)
  BY <1>2 DEF Leave, Forgets
<1>3. CASE Close(v)
  BY <1>3 DEF Close, Forgets
<1>4. CASE WatchStart(v)
  BY <1>4 DEF WatchStart, Request
<1>5. CASE WatchStop(v)
  BY <1>5 DEF WatchStop, Forgets
<1>6. ASSUME NEW t \in BOOLEAN, Join(v, t) PROVE StreamInv'
  BY <1>6 DEF Join, Forgets, Request
<1> QED BY <1>1, <1>2, <1>3, <1>4, <1>5, <1>6 DEF Viewer

\* Every step keeps the invariant.
LEMMA StreamStep == StreamInv /\ [Next]_vars => StreamInv'
<1> SUFFICES ASSUME StreamInv, [Next]_vars PROVE StreamInv'
  OBVIOUS
<1>1. CASE UNCHANGED vars
  BY <1>1 DEF vars, StreamInv, TypeOK, NoBrokenReference, GapIsKnown, Sees, Dropping
<1>2. CASE EncodeChange \/ EncodeStill
  <2>1. PICK key \in BOOLEAN : Encode(key)
    BY <1>2 DEF EncodeChange, EncodeStill
  <2> QED BY <2>1, EncodeKeeps
<1>3. CASE EncodeOwed
  BY <1>3, EncodeKeeps DEF EncodeOwed
<1>4. CASE AnswerRequest
  BY <1>4 DEF AnswerRequest, StreamInv, TypeOK, NoBrokenReference, GapIsKnown, Sees, Dropping
<1>5. CASE AgentWindowEnds
  BY <1>5 DEF AgentWindowEnds, StreamInv, TypeOK, NoBrokenReference, GapIsKnown, Sees, Dropping
<1>6. CASE RelayFrame
  BY <1>6, RelayFrameKeeps
<1>7. CASE WindowEnds
  BY <1>7 DEF WindowEnds, StreamInv, TypeOK, NoBrokenReference, GapIsKnown, Sees, Dropping
<1>8. ASSUME NEW v \in Viewers, Viewer(v) PROVE StreamInv'
  BY <1>8, ViewerKeeps
<1> QED BY <1>1, <1>2, <1>3, <1>4, <1>5, <1>6, <1>7, <1>8 DEF Next, Agent

\* The senders' inductive invariant: a gap is known to whoever must repair it.
THEOREM StreamInvariance == Spec => []StreamInv
<1>1. Init => StreamInv BY StreamInit
<1>2. StreamInv /\ [Next]_vars => StreamInv' BY StreamStep
<1> QED BY <1>1, <1>2, PTL DEF Spec

\* "the decoder never receives a P-frame that references a dropped frame".
THEOREM ReferencesHold == Spec => []NoBrokenReference
<1>1. StreamInv => NoBrokenReference BY DEF StreamInv
<1> QED BY <1>1, StreamInvariance, PTL

\* Each viewer's sender drops exactly while its viewer is behind or may be.
THEOREM SenderKnows == Spec => []GapIsKnown
<1>1. StreamInv => GapIsKnown BY DEF StreamInv
<1> QED BY <1>1, StreamInvariance, PTL
============================================================================
