----------------------------- MODULE CollabProofs -----------------------------
(***************************************************************************)
(* Proofs about the two parts of collaboration that ride on the pump:      *)
(* EphemeralChannel, in which no late frame is shown, and NoteBaseline, in *)
(* which nothing unsaved is merged away and members that stay connected    *)
(* come to see the same text.                                              *)
(***************************************************************************)
EXTENDS EphemeralChannel, NoteBaseline, FiniteSetTheorems, SequenceTheorems, TLAPS

Shows == States \cup {Absent}
Clocks == 0..MaxClock
Frames == [client : Writers, clock : Clocks, state : Shows]
StateFrames == [kind : {"state"}, client : Writers, peer : PeerIdents, clock : Clocks, state : Shows]
PeersFrames == [kind : {"peers"}, list : SUBSET PeerIdents]
RoomFrames == StateFrames \cup PeersFrames
ShownEntries == [state : States, clock : Clocks, peer : PeerIdents, age : Nat]

(* What travels is made of frames. *)
FramesTyped ==
  /\ local \in [Writers -> Shows]
  /\ clock \in [Writers -> Clocks]
  /\ peers \in 0..MaxPeers
  /\ room \subseteq PeerIdents
  /\ held \in [Writers -> Seq(Frames)]
  /\ uplink \in [PeerIdents -> Seq(Frames)]
  /\ inbox \in [Readers -> Seq(RoomFrames)]

(* The clock a reader compares with is the greatest it was ever sent.      *)
ReadersTyped ==
  /\ roster \in [Readers -> SUBSET PeerIdents]
  /\ entry \in [Readers -> [Writers -> ShownEntries \cup {Absent}]]
  /\ seen \in [Readers -> [Writers -> Clocks]]
  /\ heard = seen

EphemeralInv == FramesTyped /\ ReadersTyped /\ LateStaysOut

LEMMA EphemeralStarts == EphemeralInit => EphemeralInv
<1> SUFFICES ASSUME EphemeralInit PROVE EphemeralInv
  OBVIOUS
<1>1. FramesTyped
  BY EphemeralAssumption DEF EphemeralInit, FramesTyped, Shows, PeerIdents, Clocks
<1>2. ReadersTyped /\ LateStaysOut
  BY EphemeralAssumption DEF EphemeralInit, ReadersTyped, LateStaysOut, Shown, Clocks
<1> QED BY <1>1, <1>2 DEF EphemeralInv

-------------------------------------------------------------------------------
(* Queues. *)

LEMMA NewestTyped ==
  ASSUME NEW S, NEW q \in Seq(S), NEW f \in S PROVE Newest(Append(q, f)) \in Seq(S)
<1>1. Append(q, f) \in Seq(S) /\ Len(Append(q, f)) \in Nat
  OBVIOUS
<1>2. Len(Append(q, f)) > RingSize => Append(q, f) # <<>>
  BY <1>1, EphemeralAssumption
<1> QED BY <1>1, <1>2 DEF Newest

LEMMA QueuedTyped ==
  ASSUME inbox \in [Readers -> Seq(RoomFrames)], NEW f \in RoomFrames
  PROVE  Queued(f) \in [Readers -> Seq(RoomFrames)]
<1>1. \A r \in Readers : Newest(Append(inbox[r], f)) \in Seq(RoomFrames)
  BY NewestTyped
<1> QED BY <1>1 DEF Queued

LEMMA PeersTyped == \A list \in SUBSET PeerIdents : Peers(list) \in RoomFrames
  BY DEF Peers, RoomFrames, PeersFrames

LEMMA FrameTyped ==
  ASSUME clock \in [Writers -> Clocks], NEW w \in Writers, NEW state \in Shows,
         clock[w] < MaxClock
  PROVE  Frame(w, state) \in Frames
  BY EphemeralAssumption DEF Frame, Frames, Clocks

-------------------------------------------------------------------------------
(* Writers. *)

LEMMA EmitTyped ==
  ASSUME FramesTyped, NEW w \in Writers, NEW state \in Shows, Emit(w, state)
  PROVE  clock' \in [Writers -> Clocks] /\ held' \in [Writers -> Seq(Frames)]
         /\ uplink' \in [PeerIdents -> Seq(Frames)] /\ UNCHANGED <<peers, room, inbox>>
<1>1. Frame(w, state) \in Frames
  BY FrameTyped DEF FramesTyped, Emit
<1>2. clock' \in [Writers -> Clocks]
  <2>1. clock[w] + 1 \in Clocks
    BY EphemeralAssumption DEF Emit, FramesTyped, Clocks
  <2> QED BY <2>1 DEF Emit, FramesTyped
<1>3. UNCHANGED <<peers, room, inbox>>
  BY DEF Emit, readerVars
<1> DEFINE f == Frame(w, state)
<1>4. CASE uplink' = [uplink EXCEPT ![conn[w]] = Append(@, f)] /\ UNCHANGED held
  <2>1. \A p \in PeerIdents : uplink'[p] \in {uplink[p], Append(uplink[p], f)}
    BY <1>4 DEF FramesTyped
  <2>2. \A p \in PeerIdents : uplink'[p] \in Seq(Frames)
    <3> SUFFICES ASSUME NEW p \in PeerIdents PROVE uplink'[p] \in Seq(Frames)
      OBVIOUS
    <3>1. uplink[p] \in Seq(Frames)
      BY DEF FramesTyped
    <3>2. Append(uplink[p], f) \in Seq(Frames)
      BY <1>1, <3>1
    <3> QED BY <2>1, <3>1, <3>2
  <2>3. uplink' \in [PeerIdents -> Seq(Frames)]
    BY <1>4, <2>2 DEF FramesTyped
  <2> QED BY <1>2, <1>3, <1>4, <2>3 DEF FramesTyped
<1>5. CASE UNCHANGED <<uplink, held>>
  BY <1>2, <1>3, <1>5 DEF FramesTyped
<1>6. CASE held' = [held EXCEPT ![w] = Append(@, f)] /\ UNCHANGED uplink
  <2>1. Append(held[w], f) \in Seq(Frames)
    BY <1>1 DEF FramesTyped
  <2> QED BY <1>2, <1>3, <1>6, <2>1 DEF FramesTyped
<1> QED BY <1>4, <1>5, <1>6 DEF Emit, Dispatched

LEMMA WriterSteps ==
  ASSUME FramesTyped, NEW w \in Writers,
         (\E s \in States : SetLocalState(w, s)) \/ Cool(w) \/ Flush(w) \/ Keepalive(w) \/ LeaveView(w)
  PROVE  FramesTyped' /\ UNCHANGED <<roster, entry, seen, heard>>
<1>1. ASSUME NEW s \in States, SetLocalState(w, s)
      PROVE  FramesTyped' /\ UNCHANGED <<roster, entry, seen, heard>>
  <2>1. CASE recent[w]
    BY <1>1, <2>1 DEF SetLocalState, FramesTyped, Shows, netVars, linkVars, readerVars
  <2>2. CASE ~recent[w]
    <3>1. Emit(w, s) /\ s \in Shows
      BY <1>1, <2>2 DEF SetLocalState, Shows
    <3>2. local' \in [Writers -> Shows]
      BY <1>1 DEF SetLocalState, FramesTyped, Shows
    <3>3. UNCHANGED <<roster, entry, seen, heard>>
      BY <3>1 DEF Emit, readerVars
    <3> QED BY <3>1, <3>2, <3>3, EmitTyped DEF FramesTyped
  <2> QED BY <2>1, <2>2
<1>2. CASE Cool(w)
  BY <1>2 DEF Cool, FramesTyped, netVars, linkVars, readerVars
<1>3. CASE Flush(w) \/ Keepalive(w)
  <2>1. Emit(w, local[w]) /\ UNCHANGED local
    BY <1>3 DEF Flush, Keepalive
  <2>2. local[w] \in Shows
    BY DEF FramesTyped
  <2>3. UNCHANGED <<roster, entry, seen, heard>>
    BY <2>1 DEF Emit, readerVars
  <2> QED BY <2>1, <2>2, <2>3, EmitTyped DEF FramesTyped
<1>4. CASE LeaveView(w)
  <2>1. Emit(w, Absent) /\ Absent \in Shows
    BY <1>4 DEF LeaveView, Shows
  <2>2. local' \in [Writers -> Shows]
    BY <1>4 DEF LeaveView, FramesTyped, Shows
  <2>3. UNCHANGED <<roster, entry, seen, heard>>
    BY <2>1 DEF Emit, readerVars
  <2> QED BY <2>1, <2>2, <2>3, EmitTyped DEF FramesTyped
<1> QED BY <1>1, <1>2, <1>3, <1>4

-------------------------------------------------------------------------------
(* Connections and the server. *)

LEMMA ConnectSteps ==
  ASSUME FramesTyped, NEW w \in Writers, Dial(w) \/ Redial(w) \/ Connect(w) \/ Disconnect(w)
  PROVE  FramesTyped' /\ UNCHANGED <<roster, entry, seen, heard>>
<1>1. CASE Dial(w) \/ Redial(w) \/ Disconnect(w)
  BY <1>1 DEF Dial, Redial, Disconnect, FramesTyped, writerVars, linkVars, readerVars
<1>2. CASE Connect(w)
  <2>1. peers' \in PeerIdents /\ peers' \in 0..MaxPeers
    BY <1>2, EphemeralAssumption DEF Connect, FramesTyped, PeerIdents
  <2>2. room' \subseteq PeerIdents
    BY <1>2, <2>1 DEF Connect, FramesTyped
  <2>3. inbox' \in [Readers -> Seq(RoomFrames)]
    BY <1>2, <2>2, PeersTyped, QueuedTyped DEF Connect, FramesTyped
  <2>4. held' \in [Writers -> Seq(Frames)]
    BY <1>2 DEF Connect, FramesTyped
  <2>5. held[w] \in Seq(Frames) /\ local[w] \in Shows
    BY DEF FramesTyped
  <2>6. Append(held[w], Frame(w, local[w])) \in Seq(Frames)
    <3>1. clock[w] < MaxClock
      BY <1>2 DEF Connect, Spare
    <3> QED BY <2>5, <3>1, FrameTyped DEF FramesTyped
  <2>7. local' = local /\ clock' \in [Writers -> Clocks]
    <3>1. CASE local[w] = Absent
      BY <1>2, <3>1 DEF Connect, FramesTyped, writerVars
    <3>2. CASE local[w] # Absent
      <4>1. local' = local /\ clock' = [clock EXCEPT ![w] = @ + 1]
        BY <1>2, <3>2 DEF Connect
      <4>2. clock \in [Writers -> Clocks] /\ clock[w] + 1 \in Clocks
        BY <1>2, EphemeralAssumption DEF FramesTyped, Connect, Spare, Clocks
      <4> QED BY <4>1, <4>2
    <3> QED BY <3>1, <3>2
  <2>8. uplink' \in [PeerIdents -> Seq(Frames)]
    BY <1>2, <2>1, <2>5, <2>6 DEF Connect, FramesTyped
  <2>9. UNCHANGED <<roster, entry, seen, heard>>
    BY <1>2 DEF Connect
  <2> QED BY <2>1, <2>2, <2>3, <2>4, <2>7, <2>8, <2>9 DEF FramesTyped
<1> QED BY <1>1, <1>2

LEMMA ServerSteps ==
  ASSUME FramesTyped, NEW p \in PeerIdents, Forward(p) \/ LeaveRoom(p)
  PROVE  FramesTyped' /\ UNCHANGED <<roster, entry, seen, heard>>
<1>1. CASE Forward(p)
  <2>1. uplink[p] \in Seq(Frames) /\ uplink[p] # <<>>
    BY <1>1 DEF Forward, FramesTyped
  <2>2. Head(uplink[p]) \in Frames /\ Tail(uplink[p]) \in Seq(Frames)
    BY <2>1
  <2>3. Stamped(p, Head(uplink[p])) \in RoomFrames
    BY <2>2 DEF Stamped, RoomFrames, StateFrames, Frames
  <2>4. inbox' \in [Readers -> Seq(RoomFrames)]
    BY <1>1, <2>3, QueuedTyped DEF Forward, FramesTyped
  <2> QED BY <1>1, <2>2, <2>4 DEF Forward, FramesTyped, writerVars, linkVars
<1>2. CASE LeaveRoom(p)
  <2>1. room' \subseteq PeerIdents
    BY <1>2 DEF LeaveRoom, FramesTyped
  <2>2. inbox' \in [Readers -> Seq(RoomFrames)]
    BY <1>2, <2>1, PeersTyped, QueuedTyped DEF LeaveRoom, FramesTyped
  <2>3. uplink' \in [PeerIdents -> Seq(Frames)]
    BY <1>2 DEF LeaveRoom, FramesTyped
  <2>4. UNCHANGED <<local, clock, peers, held, roster, entry, seen, heard>>
    BY <1>2 DEF LeaveRoom, writerVars, linkVars
  <2> QED BY <2>1, <2>2, <2>3, <2>4 DEF FramesTyped
<1> QED BY <1>1, <1>2

-------------------------------------------------------------------------------
(* Readers. *)

(* apply_remote() shows a frame only when no later one was seen. *)
LEMMA ApplyKeeps ==
  ASSUME ReadersTyped, LateStaysOut, NEW r \in Readers, NEW f \in StateFrames, Apply(r, f)
  PROVE  ReadersTyped' /\ LateStaysOut'
<1> DEFINE w == f.client
           new == [state |-> f.state, clock |-> f.clock, peer |-> f.peer, age |-> 0]
<1>1. /\ f.client \in Writers /\ f.clock \in Nat /\ f.clock \in Clocks /\ \A c \in Clocks : c \in Nat
      /\ f.peer \in PeerIdents /\ f.state \in Shows
  BY EphemeralAssumption DEF StateFrames, Clocks
<1>2. f.state # Absent => new \in ShownEntries
  BY <1>1 DEF ShownEntries, Shows
<1>3. CASE f.clock < seen[r][w]
  <2>1. heard' = heard
    <3>1. heard \in [Readers -> [Writers -> Clocks]] /\ ~(f.clock > heard[r][w])
      BY <1>1, <1>3 DEF ReadersTyped
    <3>2. heard' = [heard EXCEPT ![r][w] = heard[r][w]]
      BY <3>1 DEF Apply
    <3> QED BY <3>1, <3>2
  <2> QED BY <1>3, <2>1 DEF Apply, ReadersTyped, LateStaysOut, Shown
<1>4. CASE ~(f.clock < seen[r][w])
  <2>1. seen' = [seen EXCEPT ![r][w] = f.clock] /\ roster' = roster
    BY <1>4 DEF Apply
  <2>2. entry' = [entry EXCEPT ![r][w] = IF f.state = Absent THEN Absent ELSE new]
    BY <1>4 DEF Apply
  <2>3. heard' = [heard EXCEPT ![r][w] = f.clock]
    <3>1. heard \in [Readers -> [Writers -> Clocks]]
      BY DEF ReadersTyped
    <3>2. heard[r][w] = f.clock \/ f.clock > heard[r][w]
      <4>1. heard[r][w] \in Nat /\ heard[r][w] = seen[r][w]
        BY <1>1, <3>1 DEF ReadersTyped
      <4> QED BY <1>1, <1>4, <4>1
    <3>3. heard' = [heard EXCEPT ![r][w] = IF f.clock > @ THEN f.clock ELSE @]
      BY DEF Apply
    <3> QED BY <3>2, <3>3
  <2>4. entry' \in [Readers -> [Writers -> ShownEntries \cup {Absent}]]
    BY <1>1, <1>2, <2>2 DEF ReadersTyped
  <2>5. ReadersTyped'
    BY <1>1, <2>1, <2>3, <2>4 DEF ReadersTyped
  <2>6. LateStaysOut'
    BY <1>1, <2>1, <2>2, <2>3 DEF ReadersTyped, LateStaysOut, Shown
  <2> QED BY <2>5, <2>6
<1> QED BY <1>3, <1>4

LEMMA ApplyPeersKeeps ==
  ASSUME ReadersTyped, LateStaysOut, NEW r \in Readers, NEW f \in PeersFrames, ApplyPeers(r, f)
  PROVE  ReadersTyped' /\ LateStaysOut'
<1>1. f.list \in SUBSET PeerIdents
  BY DEF PeersFrames
<1>2. \A q \in Readers, w \in Writers : entry'[q][w] \in {Absent, entry[q][w]}
  BY DEF ApplyPeers, ReadersTyped
<1>3. entry' \in [Readers -> [Writers -> ShownEntries \cup {Absent}]]
  BY DEF ApplyPeers, ReadersTyped
<1> QED BY <1>1, <1>2, <1>3 DEF ApplyPeers, ReadersTyped, LateStaysOut, Shown

LEMMA ReaderSteps ==
  ASSUME EphemeralInv, NEW r \in Readers, Read(r) \/ ReaderDown(r) \/ ReaderUp(r)
  PROVE  EphemeralInv'
<1>1. CASE Read(r)
  <2>1. Head(inbox[r]) \in RoomFrames /\ Tail(inbox[r]) \in Seq(RoomFrames)
    BY <1>1 DEF Read, EphemeralInv, FramesTyped
  <2>2. FramesTyped'
    BY <1>1, <2>1 DEF Read, EphemeralInv, FramesTyped, writerVars, netVars, linkVars
  <2>3. CASE Head(inbox[r]).kind = "peers"
    <3>1. Head(inbox[r]) \in PeersFrames
      BY <2>1, <2>3 DEF RoomFrames, StateFrames
    <3> QED BY <1>1, <2>2, <2>3, <3>1, ApplyPeersKeeps DEF Read, EphemeralInv
  <2>4. CASE Head(inbox[r]).kind # "peers"
    <3>1. Head(inbox[r]) \in StateFrames
      BY <2>1, <2>4 DEF RoomFrames, PeersFrames
    <3> QED BY <1>1, <2>2, <2>4, <3>1, ApplyKeeps DEF Read, EphemeralInv
  <2> QED BY <2>3, <2>4
<1>2. CASE ReaderDown(r)
  <2>1. FramesTyped'
    BY <1>2 DEF ReaderDown, EphemeralInv, FramesTyped, writerVars, netVars, linkVars
  <2>2. ReadersTyped' /\ LateStaysOut'
    BY <1>2 DEF ReaderDown, EphemeralInv, ReadersTyped, LateStaysOut, Shown
  <2> QED BY <2>1, <2>2 DEF EphemeralInv
<1>3. CASE ReaderUp(r)
  <2>1. <<Peers(room)>> \in Seq(RoomFrames)
    BY PeersTyped DEF EphemeralInv, FramesTyped
  <2>2. FramesTyped'
    BY <1>3, <2>1 DEF ReaderUp, EphemeralInv, FramesTyped, writerVars, netVars, linkVars
  <2> QED BY <1>3, <2>2 DEF ReaderUp, EphemeralInv, ReadersTyped, LateStaysOut, Shown
<1> QED BY <1>1, <1>2, <1>3

LEMMA TimeSteps ==
  ASSUME EphemeralInv, (\E r \in Readers, w \in Writers : Expire(r, w)) \/ Tick
  PROVE  EphemeralInv'
<1>1. ASSUME NEW r \in Readers, NEW w \in Writers, Expire(r, w) PROVE EphemeralInv'
  <2>1. FramesTyped'
    BY <1>1 DEF Expire, EphemeralInv, FramesTyped, writerVars, netVars, linkVars
  <2>2. ReadersTyped' /\ LateStaysOut'
    BY <1>1 DEF Expire, EphemeralInv, ReadersTyped, LateStaysOut, Shown
  <2> QED BY <2>1, <2>2 DEF EphemeralInv
<1>2. CASE Tick
  <2>1. FramesTyped'
    BY <1>2 DEF Tick, EphemeralInv, FramesTyped, netVars, linkVars
  <2>2. \A r \in Readers, w \in Writers : Shown(r, w) => entry[r][w] \in ShownEntries
    BY DEF EphemeralInv, ReadersTyped, Shown
  <2>3. \A r \in Readers, w \in Writers :
           Shown(r, w) => /\ entry'[r][w] \in ShownEntries
                          /\ entry'[r][w].clock = entry[r][w].clock
    <3> SUFFICES ASSUME NEW r \in Readers, NEW w \in Writers, Shown(r, w)
                 PROVE  /\ entry'[r][w] \in ShownEntries
                        /\ entry'[r][w].clock = entry[r][w].clock
      OBVIOUS
    <3>1. entry'[r][w] = [entry[r][w] EXCEPT !.age = @ + 1]
      BY <1>2 DEF Tick
    <3> QED BY <2>2, <3>1 DEF ShownEntries
  <2>4. \A r \in Readers, w \in Writers : ~Shown(r, w) => entry'[r][w] = Absent
    BY <1>2 DEF Tick
  <2>5. entry' \in [Readers -> [Writers -> ShownEntries \cup {Absent}]]
    BY <1>2, <2>3, <2>4 DEF Tick
  <2>6. ReadersTyped'
    BY <1>2, <2>5 DEF Tick, EphemeralInv, ReadersTyped
  <2>7. LateStaysOut'
    BY <1>2, <2>3, <2>4 DEF Tick, EphemeralInv, LateStaysOut, Shown
  <2> QED BY <2>1, <2>6, <2>7 DEF EphemeralInv
<1> QED BY <1>1, <1>2

-------------------------------------------------------------------------------

LEMMA EphemeralStep == EphemeralInv /\ [EphemeralNext]_ephemeralVars => EphemeralInv'
<1> SUFFICES ASSUME EphemeralInv, [EphemeralNext]_ephemeralVars PROVE EphemeralInv'
  OBVIOUS
<1>1. ASSUME FramesTyped', UNCHANGED <<roster, entry, seen, heard>> PROVE EphemeralInv'
  BY <1>1 DEF EphemeralInv, ReadersTyped, LateStaysOut, Shown
<1>2. CASE \E w \in Writers, s \in States : SetLocalState(w, s)
  BY <1>1, <1>2, WriterSteps DEF EphemeralInv
<1>3. CASE \E w \in Writers : Cool(w) \/ Flush(w) \/ Keepalive(w) \/ LeaveView(w)
  BY <1>1, <1>3, WriterSteps DEF EphemeralInv
<1>4. CASE \E w \in Writers : Dial(w) \/ Redial(w) \/ Connect(w) \/ Disconnect(w)
  BY <1>1, <1>4, ConnectSteps DEF EphemeralInv
<1>5. CASE \E p \in PeerIdents : Forward(p) \/ LeaveRoom(p)
  BY <1>1, <1>5, ServerSteps DEF EphemeralInv
<1>6. CASE \E r \in Readers : Read(r) \/ ReaderDown(r) \/ ReaderUp(r)
  BY <1>6, ReaderSteps
<1>7. CASE (\E r \in Readers, w \in Writers : Expire(r, w)) \/ Tick
  BY <1>7, TimeSteps
<1>8. CASE UNCHANGED ephemeralVars
  <2>1. FramesTyped'
    BY <1>8 DEF ephemeralVars, writerVars, netVars, linkVars, readerVars, EphemeralInv, FramesTyped
  <2> QED BY <1>1, <1>8, <2>1 DEF ephemeralVars, readerVars
<1> QED BY <1>2, <1>3, <1>4, <1>5, <1>6, <1>7, <1>8 DEF EphemeralNext

(* A late frame brings nothing back, however many writers, readers and     *)
(* connections there are and whatever the rings lose (apply_remote() of    *)
(* ephemeral.rs:131).                                                      *)
THEOREM LateFramesStayOut == EphemeralSpec => []LateStaysOut
<1>1. EphemeralInv => LateStaysOut
  BY DEF EphemeralInv
<1> QED BY EphemeralStarts, EphemeralStep, <1>1, PTL DEF EphemeralSpec

(* Connections: what is kept for the next one is kept without one, peer    *)
(* ids are given out, rings are not longer than they may be.               *)
LinksTyped ==
  /\ sent \in [Writers -> Shows]
  /\ recent \in [Writers -> BOOLEAN] /\ due \in [Writers -> BOOLEAN]
  /\ conn \in [Writers -> 0..peers]
  /\ \A w \in Writers : /\ w \in greeting => conn[w] = 0
                        /\ held[w] # <<>> => conn[w] = 0
  /\ greeting \in SUBSET Writers /\ up \in SUBSET Readers
  /\ room \in SUBSET (1..peers)
  /\ \A r \in Readers : Len(inbox[r]) <= RingSize

LEMMA QueuedShort ==
  ASSUME inbox \in [Readers -> Seq(RoomFrames)], NEW f \in RoomFrames,
         \A r \in Readers : Len(inbox[r]) <= RingSize
  PROVE  \A r \in Readers : Len(Queued(f)[r]) <= RingSize
<1> SUFFICES ASSUME NEW r \in Readers PROVE Len(Newest(Append(inbox[r], f))) <= RingSize
  BY DEF Queued
<1>1. inbox[r] \in Seq(RoomFrames) /\ Len(inbox[r]) \in Nat /\ Len(inbox[r]) <= RingSize
  OBVIOUS
<1>2. PICK q \in Seq(RoomFrames) : q = Append(inbox[r], f) /\ Len(q) = Len(inbox[r]) + 1 /\ q # <<>>
  BY <1>1, AppendProperties
<1>3. Len(Tail(q)) = Len(q) - 1
  BY <1>2, HeadTailProperties
<1> QED BY <1>1, <1>2, <1>3, EphemeralAssumption DEF Newest

LEMMA EmitLinks ==
  ASSUME LinksTyped, NEW w \in Writers, NEW state \in Shows, Emit(w, state),
         held \in [Writers -> Seq(Frames)]
  PROVE  LinksTyped'
<1>1. /\ sent' = [sent EXCEPT ![w] = state]
      /\ recent' = [recent EXCEPT ![w] = TRUE] /\ due' = [due EXCEPT ![w] = FALSE]
      /\ UNCHANGED <<conn, greeting, peers, room, up, inbox>>
  BY DEF Emit, readerVars
<1>2. \A x \in Writers : held'[x] = held[x] \/ conn[x] = 0
  BY DEF Emit, Dispatched
<1>3. sent' \in [Writers -> Shows]
  BY <1>1 DEF LinksTyped
<1>4. recent' \in [Writers -> BOOLEAN]
  BY <1>1 DEF LinksTyped
<1>5. due' \in [Writers -> BOOLEAN]
  BY <1>1 DEF LinksTyped
<1> QED BY <1>1, <1>2, <1>3, <1>4, <1>5 DEF LinksTyped

LEMMA WriterLinks ==
  ASSUME EphemeralInv, LinksTyped, NEW w \in Writers,
         (\E s \in States : SetLocalState(w, s)) \/ Cool(w) \/ Flush(w) \/ Keepalive(w) \/ LeaveView(w)
  PROVE  LinksTyped'
<1>1. held \in [Writers -> Seq(Frames)] /\ local[w] \in Shows /\ Absent \in Shows /\ States \subseteq Shows
  BY DEF EphemeralInv, FramesTyped, Shows
<1>2. ASSUME NEW s \in States, SetLocalState(w, s) PROVE LinksTyped'
  <2>1. CASE recent[w]
    BY <1>2, <2>1 DEF SetLocalState, LinksTyped, netVars, linkVars, readerVars
  <2>2. CASE ~recent[w]
    <3>1. Emit(w, s) /\ s \in Shows
      BY <1>1, <1>2, <2>2 DEF SetLocalState
    <3> QED BY <1>1, <3>1, EmitLinks
  <2> QED BY <2>1, <2>2
<1>3. CASE Cool(w)
  <2>1. recent' \in [Writers -> BOOLEAN]
    BY <1>3 DEF Cool, LinksTyped
  <2>2. UNCHANGED <<sent, due, conn, greeting, held, peers, room, up, inbox>>
    BY <1>3 DEF Cool, netVars, linkVars, readerVars
  <2> QED BY <2>1, <2>2 DEF LinksTyped
<1>4. CASE Flush(w) \/ Keepalive(w) \/ LeaveView(w)
  <2>1. Emit(w, local[w]) \/ Emit(w, Absent)
    BY <1>4 DEF Flush, Keepalive, LeaveView
  <2> QED BY <1>1, <2>1, EmitLinks
<1> QED BY <1>2, <1>3, <1>4

LEMMA ConnectLinks ==
  ASSUME EphemeralInv, LinksTyped, NEW w \in Writers,
         Dial(w) \/ Redial(w) \/ Connect(w) \/ Disconnect(w)
  PROVE  LinksTyped'
<1>0. peers \in Nat /\ peers \in 0..MaxPeers /\ held \in [Writers -> Seq(Frames)]
  BY EphemeralAssumption DEF EphemeralInv, FramesTyped
<1>1. CASE Dial(w) \/ Redial(w)
  <2>1. UNCHANGED <<sent, recent, due, conn, held, peers, room, up, inbox>>
    BY <1>1 DEF Dial, Redial, writerVars, readerVars
  <2>2. greeting' \in SUBSET Writers /\ \A x \in Writers : x \in greeting' => conn[x] = 0
    BY <1>1 DEF Dial, Redial, LinksTyped
  <2> QED BY <2>1, <2>2 DEF LinksTyped
<1>2. CASE Disconnect(w)
  <2>1. UNCHANGED <<sent, recent, due, held, greeting, peers, room, up, inbox>>
    BY <1>2 DEF Disconnect, writerVars, linkVars, readerVars
  <2>2. conn' = [conn EXCEPT ![w] = 0]
    BY <1>2 DEF Disconnect
  <2>3. conn' \in [Writers -> 0..peers] /\ \A x \in Writers : conn'[x] \in {0, conn[x]}
    BY <1>0, <2>2 DEF LinksTyped
  <2> QED BY <2>1, <2>3 DEF LinksTyped
<1>3. CASE Connect(w)
  <2>1. /\ w \in greeting /\ greeting' = greeting \ {w}
        /\ held' = [held EXCEPT ![w] = <<>>] /\ peers' = peers + 1
        /\ conn' = [conn EXCEPT ![w] = peers'] /\ room' = room \cup {peers'}
        /\ inbox' = Queued(Peers(room')) /\ up' = up /\ peers < MaxPeers
    BY <1>3 DEF Connect
  <2>2. 0..peers \subseteq 0..peers' /\ peers' \in 1..peers' /\ 1..peers \subseteq 1..peers'
    BY <1>0, <2>1
  <2>3. conn' \in [Writers -> 0..peers'] /\ room' \in SUBSET (1..peers')
    BY <1>0, <2>1, <2>2 DEF LinksTyped
  <2>4. \A x \in Writers : /\ x \in greeting' => conn'[x] = 0
                           /\ held'[x] # <<>> => conn'[x] = 0
    BY <1>0, <2>1 DEF LinksTyped
  <2>5. \A r \in Readers : Len(inbox'[r]) <= RingSize
    <3>1. room' \in SUBSET PeerIdents
      BY <1>0, <2>1, <2>3, EphemeralAssumption DEF PeerIdents
    <3>2. Peers(room') \in RoomFrames
      BY <3>1, PeersTyped
    <3> QED BY <2>1, <3>2, QueuedShort DEF LinksTyped, EphemeralInv, FramesTyped
  <2>6. sent' \in [Writers -> Shows] /\ recent' \in [Writers -> BOOLEAN] /\ due' \in [Writers -> BOOLEAN]
    <3>1. CASE local[w] = Absent
      BY <1>3, <3>1 DEF Connect, LinksTyped, writerVars
    <3>2. CASE local[w] # Absent
      <4>1. /\ sent' = [sent EXCEPT ![w] = local[w]]
            /\ recent' = [recent EXCEPT ![w] = TRUE] /\ due' = [due EXCEPT ![w] = FALSE]
        BY <1>3, <3>2 DEF Connect
      <4>2. local[w] \in Shows
        BY DEF EphemeralInv, FramesTyped
      <4>3. sent' \in [Writers -> Shows]
        BY <4>1, <4>2 DEF LinksTyped
      <4>4. recent' \in [Writers -> BOOLEAN]
        BY <4>1 DEF LinksTyped
      <4>5. due' \in [Writers -> BOOLEAN]
        BY <4>1 DEF LinksTyped
      <4> QED BY <4>3, <4>4, <4>5
    <3> QED BY <3>1, <3>2
  <2>7. greeting' \in SUBSET Writers /\ up' \in SUBSET Readers
    BY <2>1 DEF LinksTyped
  <2> QED BY <2>3, <2>4, <2>5, <2>6, <2>7 DEF LinksTyped
<1> QED BY <1>1, <1>2, <1>3

LEMMA ServerLinks ==
  ASSUME EphemeralInv, LinksTyped, NEW p \in PeerIdents, Forward(p) \/ LeaveRoom(p)
  PROVE  LinksTyped'
<1>1. UNCHANGED <<sent, recent, due, conn, greeting, held, peers, up>>
  BY DEF Forward, LeaveRoom, writerVars, linkVars
<1>2. room' \subseteq room
  BY DEF Forward, LeaveRoom
<1>3. PICK f \in RoomFrames : inbox' = Queued(f)
  <2>1. CASE Forward(p)
    <3>1. uplink[p] \in Seq(Frames) /\ uplink[p] # <<>>
      BY <2>1 DEF Forward, EphemeralInv, FramesTyped
    <3>2. Head(uplink[p]) \in Frames
      BY <3>1
    <3>3. Stamped(p, Head(uplink[p])) \in RoomFrames
      BY <3>2 DEF Stamped, RoomFrames, StateFrames, Frames
    <3> QED BY <2>1, <3>3 DEF Forward
  <2>2. CASE LeaveRoom(p)
    <3>1. room' \in SUBSET PeerIdents
      BY <1>2 DEF EphemeralInv, FramesTyped
    <3> QED BY <2>2, <3>1, PeersTyped DEF LeaveRoom
  <2> QED BY <2>1, <2>2
<1>4. \A r \in Readers : Len(inbox'[r]) <= RingSize
  BY <1>3, QueuedShort DEF LinksTyped, EphemeralInv, FramesTyped
<1> QED BY <1>1, <1>2, <1>4 DEF LinksTyped

LEMMA ReaderLinks ==
  ASSUME EphemeralInv, LinksTyped, NEW r \in Readers, Read(r) \/ ReaderDown(r) \/ ReaderUp(r)
  PROVE  LinksTyped'
<1>1. UNCHANGED <<sent, recent, due, conn, greeting, held, peers, room>>
  BY DEF Read, ReaderDown, ReaderUp, writerVars, netVars, linkVars
<1>2. up' \in SUBSET Readers
  BY DEF Read, ReaderDown, ReaderUp, LinksTyped
<1>3. PICK q : /\ inbox' = [inbox EXCEPT ![r] = q] /\ Len(q) <= RingSize
  <2>1. CASE Read(r)
    <3>1. inbox[r] \in Seq(RoomFrames) /\ inbox[r] # <<>> /\ Len(inbox[r]) <= RingSize
      BY <2>1 DEF Read, EphemeralInv, FramesTyped, LinksTyped
    <3>2. Len(Tail(inbox[r])) <= RingSize
      BY <3>1, EphemeralAssumption
    <3> QED BY <2>1, <3>2 DEF Read
  <2>2. CASE ReaderDown(r) \/ ReaderUp(r)
    <3>1. Len(<<>>) <= RingSize /\ Len(<<Peers(room)>>) <= RingSize
      BY EphemeralAssumption
    <3> QED BY <2>2, <3>1 DEF ReaderDown, ReaderUp
  <2> QED BY <2>1, <2>2
<1>4. \A x \in Readers : Len(inbox'[x]) <= RingSize
  BY <1>3 DEF LinksTyped, EphemeralInv, FramesTyped
<1> QED BY <1>1, <1>2, <1>4 DEF LinksTyped

(* Types of ephemeral states, for any writers, readers, connections and    *)
(* frames: among them that frames are kept only without a connection, and  *)
(* that a ring holds no more than it may.                                  *)
THEOREM EphemeralTyped == EphemeralSpec => []EphemeralTypeOK
<1>1. EphemeralInit => LinksTyped
  BY EphemeralAssumption DEF EphemeralInit, LinksTyped, Shows
<1>2. EphemeralInv /\ LinksTyped /\ [EphemeralNext]_ephemeralVars => LinksTyped'
  <2> SUFFICES ASSUME EphemeralInv, LinksTyped, [EphemeralNext]_ephemeralVars PROVE LinksTyped'
    OBVIOUS
  <2>1. CASE \E w \in Writers, s \in States : SetLocalState(w, s)
    BY <2>1, WriterLinks
  <2>2. CASE \E w \in Writers : Cool(w) \/ Flush(w) \/ Keepalive(w) \/ LeaveView(w)
    BY <2>2, WriterLinks
  <2>3. CASE \E w \in Writers : Dial(w) \/ Redial(w) \/ Connect(w) \/ Disconnect(w)
    BY <2>3, ConnectLinks
  <2>4. CASE \E p \in PeerIdents : Forward(p) \/ LeaveRoom(p)
    BY <2>4, ServerLinks
  <2>5. CASE \E r \in Readers : Read(r) \/ ReaderDown(r) \/ ReaderUp(r)
    BY <2>5, ReaderLinks
  <2>6. ASSUME NEW r \in Readers, NEW w \in Writers, Expire(r, w) PROVE LinksTyped'
    BY <2>6 DEF Expire, LinksTyped, writerVars, netVars, linkVars
  <2>7. CASE Tick
    BY <2>7 DEF Tick, LinksTyped, netVars, linkVars
  <2>8. CASE UNCHANGED ephemeralVars
    BY <2>8 DEF ephemeralVars, LinksTyped, writerVars, netVars, linkVars, readerVars
  <2> QED BY <2>1, <2>2, <2>3, <2>4, <2>5, <2>6, <2>7, <2>8 DEF EphemeralNext
<1>3. EphemeralInv /\ LinksTyped => EphemeralTypeOK
  <2> SUFFICES ASSUME EphemeralInv, LinksTyped PROVE EphemeralTypeOK
    OBVIOUS
  <2>1. /\ peers \in 0..MaxPeers /\ local \in [Writers -> Shows] /\ clock \in [Writers -> Clocks]
        /\ roster \in [Readers -> SUBSET PeerIdents]
        /\ seen \in [Readers -> [Writers -> Clocks]] /\ heard = seen
    BY DEF EphemeralInv, FramesTyped, ReadersTyped
  <2>2. conn \in [Writers -> 0..MaxPeers] /\ greeting \subseteq {w \in Writers : conn[w] = 0}
    <3>1. 0..peers \subseteq 0..MaxPeers
      BY <2>1, EphemeralAssumption
    <3> QED BY <3>1 DEF LinksTyped
  <2>3. /\ sent \in [Writers -> Shows]
        /\ recent \in [Writers -> BOOLEAN] /\ due \in [Writers -> BOOLEAN]
        /\ \A w \in Writers : held[w] # <<>> => conn[w] = 0
        /\ up \subseteq Readers /\ room \subseteq 1..peers
        /\ \A r \in Readers : Len(inbox[r]) <= RingSize
    BY DEF LinksTyped
  <2> QED BY <2>1, <2>2, <2>3 DEF EphemeralTypeOK, Shows, Clocks
<1> QED BY EphemeralStarts, EphemeralStep, <1>1, <1>2, <1>3, PTL DEF EphemeralSpec

-------------------------------------------------------------------------------
(* Notes. *)

(* What is seen or sent: insertions of documents that were made, all of    *)
(* which an open document has that is their client's; and marks on lines   *)
(* that were in the file.                                                  *)
NoteTags == [seq : Nat, author : Nat, id : SUBSET Lines]
NoteItems == [line : Lines, by : Members \cup {0}, doc : Nat, at : Nat \ {0}]

Traced(i) ==
  i.by # 0 => /\ i.doc <= maker[i.by]
              /\ i.by \in opened /\ i.doc = maker[i.by] => i \in doc[i.by].items

TracedItems == {i \in NoteItems : Traced(i)}
FiledItems == {i \in TracedItems : i.line \in filed}

DocsOver(items, marks) == [tag : NoteTags, items : SUBSET items, gone : SUBSET marks]
FramesOver(items, marks) ==
  [kind : {"baseline"}, tag : NoteTags, current : SUBSET Lines]
    \cup [kind : {"step1"}, tag : NoteTags]
    \cup [kind : {"step2", "update"}, tag : NoteTags,
          items : SUBSET items, gone : SUBSET marks]

SoundDocs == DocsOver(TracedItems, FiledItems)
SoundFrames == FramesOver(TracedItems, FiledItems)

(* A save takes no line out of the file that was never in it.              *)
SoundSaves == {s \in [frozen : SUBSET Lines, merged : SUBSET Lines] :
                 s.frozen \ s.merged \subseteq filed}

FileSound ==
  /\ filed \in SUBSET Lines
  /\ server \in SUBSET filed
  /\ loading \in [Members -> SUBSET SUBSET filed]
  /\ lastFlushed \in [Members -> SUBSET filed]
  /\ saving \in [Members -> SUBSET SoundSaves]

SeatsTyped ==
  /\ opened \in SUBSET Members /\ dirty \in SUBSET opened /\ replied \in SUBSET opened
  /\ linked \in SUBSET Members
  /\ roomSeq \in [Members -> Nat] /\ maker \in [Members -> Nat]
  /\ typed \in [Members -> 0..MaxTyped]

WireSound ==
  /\ outgoing \in [Members -> Seq(SoundFrames)]
  /\ incoming \in [Members -> Seq(SoundFrames)]

Fits(m) ==
  /\ m \in opened <=> doc[m].tag.seq > 0
  /\ m \notin opened => doc[m].tag = NullTag
  /\ doc[m].tag.seq <= roomSeq[m]
  /\ loading[m] # {} => m \notin opened
  /\ saving[m] # {} => m \in dirty

(* The insertions of a client are numbered from 1 without a gap.           *)
Numbered(items) ==
  \E n \in Nat :
    /\ \A i \in items : i.at \in 1..n
    /\ \A i, j \in items : i.at = j.at => i = j
    /\ \A k \in 1..n : \E i \in items : i.at = k

Own(d, m, n) == {i \in d.items : i.by = m /\ i.doc = n}

OwnNumbered(m) == m \in opened => Numbered(Own(doc[m], m, maker[m]))

(* A line that was typed is shown or was in the file, and was in the file  *)
(* when the member has nothing unsaved.                                    *)
LinesKept(m) ==
  \A k \in 1..typed[m] :
    /\ m \in opened => <<m, k>> \in Text(m) \cup filed
    /\ m \notin dirty => <<m, k>> \in filed

SeatSound(m) == Fits(m) /\ OwnNumbered(m) /\ LinesKept(m)

NoteInv ==
  /\ FileSound /\ SeatsTyped /\ doc \in [Members -> SoundDocs] /\ WireSound
  /\ \A m \in Members : SeatSound(m)

-------------------------------------------------------------------------------
(* Documents. *)

LEMMA MembersAreNumbers == \A m \in Members : m \in Nat \ {0}
BY NoteAssumption

LEMMA LinesFinite == \A S \in SUBSET Lines : IsFiniteSet(S)
<1>1. MaxTyped \in Nat
  BY NoteAssumption
<1>2. IsFiniteSet(Members) /\ IsFiniteSet(1..MaxTyped)
  BY <1>1, NoteAssumption, FS_Interval
<1>3. IsFiniteSet(Lines)
  BY <1>2, FS_Product DEF Lines
<1> QED BY <1>3, FS_Subset

(* SetToSeq lists every element.                                           *)
LEMMA Listed ==
  ASSUME NEW S, IsFiniteSet(S)
  PROVE  /\ SetToSeq(S) \in [1..Cardinality(S) -> S]
         /\ Cardinality(S) \in Nat /\ Len(SetToSeq(S)) = Cardinality(S)
         /\ \A a, b \in 1..Cardinality(S) : SetToSeq(S)[a] = SetToSeq(S)[b] => a = b
         /\ \A s \in S : \E k \in 1..Cardinality(S) : SetToSeq(S)[k] = s
<1> DEFINE n == Cardinality(S)
<1>1. n \in Nat /\ ExistsBijection(1..n, S)
  BY FS_CardinalityType
<1>2. \E f \in [1..n -> S] : IsInjective(f)
  BY <1>1 DEF ExistsBijection, Bijection, Injection
<1>3. SetToSeq(S) \in [1..n -> S] /\ IsInjective(SetToSeq(S))
  BY <1>2 DEF SetToSeq
<1>4. IsFiniteSet(1..n) /\ Cardinality(1..n) = n
  BY <1>1, FS_Interval
<1>5. SetToSeq(S) \in Surjection(1..n, S)
  BY <1>3, <1>4, FS_Injection DEF Injection
<1>6. \A a, b \in 1..n : SetToSeq(S)[a] = SetToSeq(S)[b] => a = b
  BY <1>3 DEF IsInjective
<1>7. \A s \in S : \E k \in 1..n : SetToSeq(S)[k] = s
  BY <1>5 DEF Surjection
<1>8. SetToSeq(S) \in Seq(S) /\ Len(SetToSeq(S)) = n
  BY <1>1, <1>3
<1> QED BY <1>1, <1>3, <1>6, <1>7, <1>8

(* Numbered insertions are as many as the last of their numbers.           *)
LEMMA NumberedCount ==
  ASSUME NEW items, NEW n \in Nat,
         \A i \in items : i.at \in 1..n,
         \A i, j \in items : i.at = j.at => i = j,
         \A k \in 1..n : \E i \in items : i.at = k
  PROVE  Cardinality(items) = n
<1> DEFINE f == [k \in 1..n |-> CHOOSE i \in items : i.at = k]
<1>1. \A k \in 1..n : f[k] \in items /\ f[k].at = k
  OBVIOUS
<1> HIDE DEF f
<1>2. f \in [1..n -> items]
  BY <1>1 DEF f
<1>3. \A a, b \in 1..n : f[a] = f[b] => a = b
  BY <1>1
<1>4. \A i \in items : \E k \in 1..n : f[k] = i
  BY <1>1
<1>5. f \in Injection(1..n, items)
  BY <1>2, <1>3 DEF Injection, IsInjective
<1>6. f \in Surjection(1..n, items)
  BY <1>2, <1>4 DEF Surjection
<1>7. ExistsBijection(1..n, items)
  BY <1>5, <1>6 DEF ExistsBijection, Bijection
<1> QED BY <1>7, FS_CountingElements

(* A text has the lines of what is integrated and not gone.                *)
LEMMA TextHas ==
  ASSUME NEW d, NEW i \in d.items, i \notin d.gone,
         \A k \in 1..i.at - 1 : \E j \in d.items : j.by = i.by /\ j.doc = i.doc /\ j.at = k
  PROVE  i.line \in TextOf(d)
BY DEF TextOf, Integrated

LEMMA TextFrom ==
  ASSUME NEW d, NEW l \in TextOf(d)
  PROVE  \E i \in d.items :
           /\ i.line = l /\ i \notin d.gone
           /\ \A k \in 1..i.at - 1 : \E j \in d.items : j.by = i.by /\ j.doc = i.doc /\ j.at = k
BY DEF TextOf, Integrated

LEMMA TextTyped ==
  ASSUME NEW d, d.items \in SUBSET NoteItems PROVE TextOf(d) \in SUBSET Lines
<1> SUFFICES ASSUME NEW l \in TextOf(d) PROVE l \in Lines
  OBVIOUS
<1>1. PICK i \in d.items : i.line = l
  BY TextFrom
<1> QED BY <1>1 DEF NoteItems

(* A document that grows loses the lines of what is newly gone only.       *)
LEMMA TextGrows ==
  ASSUME NEW d, NEW e, d.items \subseteq e.items,
         NEW l \in TextOf(d), \A i \in d.items : i \in e.gone \ d.gone => i.line # l
  PROVE  l \in TextOf(e)
<1>1. PICK i \in d.items :
           /\ i.line = l /\ i \notin d.gone
           /\ \A k \in 1..i.at - 1 : \E j \in d.items : j.by = i.by /\ j.doc = i.doc /\ j.at = k
  BY TextFrom
<1>2. i \in e.items /\ i \notin e.gone
  BY <1>1
<1>3. \A k \in 1..i.at - 1 : \E j \in e.items : j.by = i.by /\ j.doc = i.doc /\ j.at = k
  BY <1>1
<1> QED BY <1>1, <1>2, <1>3, TextHas

(* spawn_doc() shows its baseline, by insertions of nobody.                *)
Unowned == {i \in NoteItems : i.by = 0}

LEMMA SeededSound ==
  ASSUME NEW tag \in NoteTags
  PROVE  /\ Seeded(tag) \in DocsOver(Unowned, {}) /\ Seeded(tag).tag = tag
         /\ tag.id \subseteq TextOf(Seeded(tag))
<1> DEFINE d == Seeded(tag)
<1>1. d.tag = tag /\ d.gone = {} /\ d.items = {Item(l, 0, 0, 1) : l \in tag.id}
  BY DEF Seeded
<1>2. tag.id \subseteq Lines
  BY DEF NoteTags
<1>3. \A l \in tag.id : Item(l, 0, 0, 1) \in Unowned
  BY <1>2 DEF Item, Unowned, NoteItems
<1>4. d.items \subseteq Unowned
  BY <1>1, <1>3
<1>5. d \in DocsOver(Unowned, {})
  BY <1>1, <1>4 DEF DocsOver, Seeded
<1>6. ASSUME NEW l \in tag.id PROVE l \in TextOf(d)
  <2>1. Item(l, 0, 0, 1) \in d.items /\ Item(l, 0, 0, 1) \notin d.gone
    BY <1>1
  <2>2. Item(l, 0, 0, 1).at = 1 /\ Item(l, 0, 0, 1).line = l
    BY DEF Item
  <2> HIDE DEF d
  <2> QED BY <2>1, <2>2, TextHas
<1> QED BY <1>1, <1>5, <1>6

(* What is sent of a document is as sound as the document.                 *)
LEMMA FramesMade ==
  ASSUME NEW P \in SUBSET NoteItems, NEW F \in SUBSET NoteItems, NEW d \in DocsOver(P, F)
  PROVE  /\ Baseline(d) \in FramesOver(P, F) /\ Step1(d) \in FramesOver(P, F)
         /\ Step2(d) \in FramesOver(P, F)
         /\ \A items \in SUBSET d.items : Updated(d, items) \in FramesOver(P, F)
<1>1. d.tag \in NoteTags /\ d.items \in SUBSET P /\ d.gone \in SUBSET F
  BY DEF DocsOver
<1>2. TextOf(d) \in SUBSET Lines
  <2>1. d.items \in SUBSET NoteItems
    BY <1>1
  <2> QED BY <2>1, TextTyped
<1>3. Baseline(d) \in FramesOver(P, F)
  BY <1>1, <1>2 DEF Baseline, FramesOver
<1>4. Step1(d) \in FramesOver(P, F) /\ Step2(d) \in FramesOver(P, F)
  BY <1>1 DEF Step1, Step2, FramesOver
<1>5. ASSUME NEW items \in SUBSET d.items PROVE Updated(d, items) \in FramesOver(P, F)
  <2>1. items \in SUBSET P /\ {} \in SUBSET F
    BY <1>1
  <2> QED BY <1>1, <2>1 DEF Updated, FramesOver
<1> QED BY <1>3, <1>4, <1>5

(* An edit shows the text it is of, appends insertions of its client, and  *)
(* marks what the text no longer has.                                      *)
LEMMA EditedSound ==
  ASSUME SeatsTyped, doc \in [Members -> SoundDocs], NEW m \in opened, OwnNumbered(m), NEW text \in SUBSET Lines
  PROVE  /\ Edited(m, text) \in [tag : NoteTags, items : SUBSET NoteItems, gone : SUBSET NoteItems]
         /\ Edited(m, text).tag = doc[m].tag
         /\ doc[m].items \subseteq Edited(m, text).items
         /\ \A i \in Edited(m, text).items \ doc[m].items : i.by = m /\ i.doc = maker[m]
         /\ doc[m].gone \subseteq Edited(m, text).gone
         /\ \A i \in Edited(m, text).gone \ doc[m].gone :
              i \in doc[m].items /\ i.line \in Text(m) \ text
         /\ text \subseteq TextOf(Edited(m, text))
         /\ Numbered(Own(Edited(m, text), m, maker[m]))
<1> DEFINE d == Edited(m, text)
           n == maker[m]
           S == text \ Text(m)
           new == SetToSeq(S)
           size == Cardinality(S)
           own == Own(doc[m], m, n)
           base == Cardinality(own)
           added == {Item(new[k], m, n, base + k) : k \in 1..size}
<1>1. /\ m \in Members /\ m \in Nat \ {0} /\ n \in Nat /\ doc[m] \in SoundDocs
  BY MembersAreNumbers DEF SeatsTyped
<1>2. /\ doc[m].tag \in NoteTags /\ doc[m].items \in SUBSET NoteItems
      /\ doc[m].gone \in SUBSET NoteItems
      /\ \A i \in doc[m].items \cup doc[m].gone : Traced(i)
  BY <1>1 DEF SoundDocs, DocsOver, TracedItems, FiledItems
<1>3. /\ new \in [1..size -> S] /\ size \in Nat /\ Len(new) = size
      /\ \A a, b \in 1..size : new[a] = new[b] => a = b
      /\ \A s \in S : \E k \in 1..size : new[k] = s
  <2>1. S \in SUBSET Lines
    OBVIOUS
  <2>2. IsFiniteSet(S)
    BY <2>1, LinesFinite
  <2> HIDE DEF S
  <2> QED BY <2>2, Listed
<1>4. /\ base \in Nat
      /\ \A i \in own : i.at \in 1..base
      /\ \A i, j \in own : i.at = j.at => i = j
      /\ \A k \in 1..base : \E i \in own : i.at = k
  <2>1. Numbered(own)
    BY DEF OwnNumbered
  <2> HIDE DEF own
  <2>2. PICK N \in Nat : /\ \A i \in own : i.at \in 1..N
                         /\ \A i, j \in own : i.at = j.at => i = j
                         /\ \A k \in 1..N : \E i \in own : i.at = k
    BY <2>1 DEF Numbered
  <2>3. base = N
    BY <2>2, NumberedCount
  <2> QED BY <2>2, <2>3
<1>5. /\ d.tag = doc[m].tag
      /\ d.items = doc[m].items \cup added
      /\ d.gone = doc[m].gone \cup {i \in doc[m].items : i.line \in Text(m) \ text}
      /\ d = [tag |-> d.tag, items |-> d.items, gone |-> d.gone]
  <2> DEFINE away == {i \in doc[m].items : i.line \in Text(m) \ text}
             put == {Item(new[k], m, n, base + k) : k \in 1..Len(new)}
  <2>1. d = [doc[m] EXCEPT !.items = @ \cup put, !.gone = @ \cup away]
    BY DEF Edited, Own
  <2>2. put = added
    BY <1>3
  <2> HIDE DEF d, put, added, away
  <2>3. d = [tag |-> doc[m].tag, items |-> doc[m].items \cup added, gone |-> doc[m].gone \cup away]
    BY <2>1, <2>2, <1>1 DEF SoundDocs, DocsOver
  <2> QED BY <2>3 DEF away
<1> HIDE DEF d, new, size, base
<1>6. \A i \in added : /\ i \in NoteItems /\ i.by = m /\ i.doc = n /\ i.at > base
                       /\ i.at \in 1..base + size
  <2> SUFFICES ASSUME NEW k \in 1..size
               PROVE  LET i == Item(new[k], m, n, base + k)
                      IN /\ i \in NoteItems /\ i.by = m /\ i.doc = n /\ i.at > base
                         /\ i.at \in 1..base + size
    OBVIOUS
  <2>1. new[k] \in Lines
    BY <1>3
  <2> QED BY <1>1, <1>3, <1>4, <2>1 DEF Item, NoteItems
<1>7. d \in [tag : NoteTags, items : SUBSET NoteItems, gone : SUBSET NoteItems]
  <2>1. d.items \in SUBSET NoteItems /\ d.gone \in SUBSET NoteItems
    BY <1>2, <1>5, <1>6
  <2> QED BY <1>2, <1>5, <2>1
<1>8. \A i \in d.items \ doc[m].items : i.by = m /\ i.doc = n
  BY <1>5, <1>6
<1>9. \A i \in d.gone \ doc[m].gone : i \in doc[m].items /\ i.line \in Text(m) \ text
  BY <1>5
<1>10. Own(d, m, n) = own \cup added
  BY <1>5, <1>6 DEF Own
<1>11. \A k \in 1..base + size : \E i \in own \cup added : i.at = k
  <2> SUFFICES ASSUME NEW k \in 1..base + size PROVE \E i \in own \cup added : i.at = k
    OBVIOUS
  <2>1. CASE k <= base
    <3>1. k \in 1..base
      BY <1>3, <1>4, <2>1
    <3> QED BY <3>1, <1>4
  <2>2. CASE k > base
    <3>1. k - base \in 1..size /\ base + (k - base) = k
      BY <1>3, <1>4, <2>2
    <3>2. Item(new[k - base], m, n, base + (k - base)) \in added
      BY <3>1
    <3> QED BY <3>1, <3>2 DEF Item
  <2> QED BY <2>1, <2>2, <1>3, <1>4
<1>12. Numbered(Own(d, m, n))
  <2>1. \A i \in own \cup added : i.at \in 1..base + size
    BY <1>3, <1>4, <1>6
  <2>2. \A i, j \in added : i.at = j.at => i = j
    <3> SUFFICES ASSUME NEW a \in 1..size, NEW b \in 1..size,
                        Item(new[a], m, n, base + a).at = Item(new[b], m, n, base + b).at
                 PROVE  a = b
      OBVIOUS
    <3> QED BY <1>3, <1>4 DEF Item
  <2>3. \A i \in own : \A j \in added : i.at # j.at
    BY <1>4, <1>6
  <2>4. \A i, j \in own \cup added : i.at = j.at => i = j
    BY <1>4, <2>2, <2>3
  <2>5. base + size \in Nat
    BY <1>3, <1>4
  <2> HIDE DEF own, added
  <2> QED BY <1>10, <1>11, <2>1, <2>4, <2>5 DEF Numbered
<1>13. text \subseteq TextOf(d)
  <2> SUFFICES ASSUME NEW l \in text PROVE l \in TextOf(d)
    OBVIOUS
  <2>1. CASE l \in Text(m)
    <3>1. \A i \in doc[m].items : i \in d.gone \ doc[m].gone => i.line # l
      BY <1>9
    <3>2. l \in TextOf(doc[m]) /\ doc[m].items \subseteq d.items
      BY <2>1, <1>5 DEF Text
    <3> QED BY <3>1, <3>2, TextGrows
  <2>2. CASE l \notin Text(m)
    <3>1. PICK k \in 1..size : new[k] = l
      BY <2>2, <1>3
    <3> DEFINE i == Item(l, m, n, base + k)
    <3>2. i \in added /\ i.line = l /\ i.by = m /\ i.doc = n /\ i.at = base + k
      BY <3>1 DEF Item
    <3> HIDE DEF i
    <3>3. i \notin doc[m].items
      <4>1. i \in doc[m].items => i \in own
        BY <3>2 DEF Own
      <4> QED BY <4>1, <3>2, <1>4, <1>6
    <3>4. i \notin doc[m].gone
      <4>1. i \in doc[m].gone => Traced(i)
        BY <1>2
      <4> QED BY <4>1, <3>2, <3>3, <1>1 DEF Traced
    <3>5. i \in d.items /\ i \notin d.gone
      BY <3>2, <3>3, <3>4, <1>5
    <3>6. \A x \in 1..i.at - 1 : \E j \in d.items : j.by = i.by /\ j.doc = i.doc /\ j.at = x
      <4> SUFFICES ASSUME NEW x \in 1..i.at - 1
                   PROVE  \E j \in Own(d, m, n) : j.at = x
        BY <3>2 DEF Own
      <4>1. x \in 1..base + size
        BY <3>2, <1>3, <1>4
      <4> QED BY <4>1, <1>10, <1>11
    <3> QED BY <3>2, <3>5, <3>6, TextHas
  <2> QED BY <2>1, <2>2
<1> QED BY <1>5, <1>7, <1>8, <1>9, <1>12, <1>13 DEF d

-------------------------------------------------------------------------------
(* Steps of a document.  A step goes on when clients and the file's lines  *)
(* only grow in number, and an open document loses no insertion but to a   *)
(* new document.                                                           *)
Onward ==
  /\ maker' \in [Members -> Nat] /\ filed \subseteq filed'
  /\ \A b \in Members :
       /\ maker[b] <= maker'[b]
       /\ b \in opened' => \/ maker[b] < maker'[b]
                           \/ b \in opened /\ doc[b].items \subseteq doc'[b].items

(* What was sound stays sound.                                             *)
LEMMA Widens ==
  ASSUME SeatsTyped, Onward
  PROVE  /\ TracedItems \subseteq TracedItems' /\ FiledItems \subseteq FiledItems'
         /\ SoundDocs \subseteq SoundDocs' /\ SoundFrames \subseteq SoundFrames'
         /\ SoundSaves \subseteq SoundSaves'
<1>1. ASSUME NEW i \in NoteItems, Traced(i) PROVE Traced(i)'
  <2>1. CASE i.by = 0
    BY <2>1 DEF Traced
  <2>2. CASE i.by # 0
    <3>1. i.by \in Members /\ i.doc \in Nat
      BY <2>2 DEF NoteItems
    <3>2. /\ i.doc <= maker[i.by]
          /\ i.by \in opened /\ i.doc = maker[i.by] => i \in doc[i.by].items
      BY <1>1, <2>2 DEF Traced
    <3>3. maker[i.by] \in Nat /\ maker'[i.by] \in Nat /\ maker[i.by] <= maker'[i.by]
      BY <3>1 DEF SeatsTyped, Onward
    <3>4. i.by \in opened' => \/ maker[i.by] < maker'[i.by]
                              \/ i.by \in opened /\ doc[i.by].items \subseteq doc'[i.by].items
      BY <3>1 DEF Onward
    <3>5. i.doc <= maker'[i.by]
      BY <3>1, <3>2, <3>3
    <3>6. i.by \in opened' /\ i.doc = maker'[i.by] => i \in doc'[i.by].items
      BY <3>1, <3>2, <3>3, <3>4
    <3> QED BY <3>5, <3>6 DEF Traced
  <2> QED BY <2>1, <2>2
<1>2. TracedItems \subseteq TracedItems'
  BY <1>1 DEF TracedItems
<1>3. FiledItems \subseteq FiledItems'
  BY <1>2 DEF FiledItems, Onward
<1>4. SoundDocs \subseteq SoundDocs'
  BY <1>2, <1>3 DEF SoundDocs, DocsOver
<1>5. SoundFrames \subseteq SoundFrames'
  <2> DEFINE W(P, F) == [kind : {"step2", "update"}, tag : NoteTags,
                         items : SUBSET P, gone : SUBSET F]
  <2>1. W(TracedItems, FiledItems) \subseteq W(TracedItems', FiledItems')
    BY <1>2, <1>3
  <2> QED BY <2>1 DEF SoundFrames, FramesOver
<1>6. SoundSaves \subseteq SoundSaves'
  BY DEF SoundSaves, Onward
<1> QED BY <1>2, <1>3, <1>4, <1>5, <1>6

LEMMA UnownedPlaced ==
  /\ TracedItems \in SUBSET NoteItems /\ FiledItems \in SUBSET NoteItems
  /\ DocsOver(Unowned, {}) \subseteq SoundDocs
<1>1. Unowned \subseteq TracedItems
  BY DEF Unowned, TracedItems, Traced
<1> QED BY <1>1 DEF TracedItems, FiledItems, SoundDocs, DocsOver

(* The same of the next state.                                             *)
LEMMA UnownedPlacedNext ==
  /\ TracedItems' \in SUBSET NoteItems /\ FiledItems' \in SUBSET NoteItems
  /\ DocsOver(Unowned, {}) \subseteq SoundDocs'
<1>1. Unowned \subseteq TracedItems'
  BY DEF Unowned, TracedItems, Traced
<1> QED BY <1>1 DEF TracedItems, FiledItems, SoundDocs, DocsOver

LEMMA DocParts ==
  ASSUME doc \in [Members -> SoundDocs], NEW m \in Members
  PROVE  /\ doc[m] \in SoundDocs /\ doc[m].tag \in NoteTags
         /\ doc[m].items \in SUBSET TracedItems /\ doc[m].gone \in SUBSET FiledItems
         /\ doc[m].items \in SUBSET NoteItems /\ Text(m) \in SUBSET Lines
<1>1. doc[m] \in SoundDocs
  OBVIOUS
<1>2. /\ doc[m].tag \in NoteTags
      /\ doc[m].items \in SUBSET TracedItems /\ doc[m].gone \in SUBSET FiledItems
  BY <1>1 DEF SoundDocs, DocsOver
<1>3. doc[m].items \in SUBSET NoteItems
  BY <1>2 DEF TracedItems
<1> QED BY <1>1, <1>2, <1>3, TextTyped DEF Text

(* local_edit(), align_silent().                                           *)
LEMMA Written ==
  ASSUME SeatsTyped, doc \in [Members -> SoundDocs],
         NEW m \in opened, OwnNumbered(m), NEW text \in SUBSET Lines,
         doc' = [doc EXCEPT ![m] = Edited(m, text)], UNCHANGED <<maker, opened>>,
         filed \subseteq filed', Text(m) \ text \subseteq filed'
  PROVE  /\ Onward /\ doc' \in [Members -> SoundDocs'] /\ OwnNumbered(m)'
         /\ text \subseteq Text(m)' /\ doc'[m].tag = doc[m].tag
<1> DEFINE d == Edited(m, text)
<1>1. /\ d \in [tag : NoteTags, items : SUBSET NoteItems, gone : SUBSET NoteItems]
      /\ d.tag = doc[m].tag /\ doc[m].items \subseteq d.items
      /\ \A i \in d.items \ doc[m].items : i.by = m /\ i.doc = maker[m]
      /\ \A i \in d.gone \ doc[m].gone : i \in doc[m].items /\ i.line \in Text(m) \ text
      /\ text \subseteq TextOf(d) /\ Numbered(Own(d, m, maker[m]))
  BY EditedSound
<1> HIDE DEF d
<1>2. m \in Members /\ maker[m] \in Nat
  BY DEF SeatsTyped
<1>3. doc'[m] = d /\ \A x \in Members \ {m} : doc'[x] = doc[x]
  BY <1>2 DEF d
<1>4. Onward
  BY <1>1, <1>3 DEF Onward, SeatsTyped
<1>5. /\ TracedItems \subseteq TracedItems' /\ FiledItems \subseteq FiledItems'
      /\ SoundDocs \subseteq SoundDocs'
  BY <1>4, Widens
<1>6. /\ doc[m].items \in SUBSET TracedItems /\ doc[m].gone \in SUBSET FiledItems
  BY <1>2, DocParts
<1>7. d.items \in SUBSET TracedItems'
  <2> SUFFICES ASSUME NEW i \in d.items PROVE i \in TracedItems'
    OBVIOUS
  <2>1. CASE i \in doc[m].items
    BY <2>1, <1>5, <1>6
  <2>2. CASE i \notin doc[m].items
    <3>1. i \in NoteItems /\ i.by = m /\ i.doc = maker[m]
      BY <1>1, <2>2
    <3>2. Traced(i)'
      BY <3>1, <1>2, <1>3 DEF Traced
    <3> QED BY <3>1, <3>2 DEF TracedItems
  <2> QED BY <2>1, <2>2
<1>8. d.gone \in SUBSET FiledItems'
  <2> SUFFICES ASSUME NEW i \in d.gone PROVE i \in FiledItems'
    OBVIOUS
  <2>1. CASE i \in doc[m].gone
    BY <2>1, <1>5, <1>6
  <2>2. CASE i \notin doc[m].gone
    <3>1. i \in d.items /\ i.line \in filed'
      BY <1>1, <2>2
    <3> QED BY <3>1, <1>7 DEF FiledItems
  <2> QED BY <2>1, <2>2
<1>9. d \in SoundDocs'
  BY <1>1, <1>7, <1>8 DEF SoundDocs, DocsOver
<1>10. doc' \in [Members -> SoundDocs']
  BY <1>5, <1>9 DEF d
<1>11. OwnNumbered(m)'
  BY <1>1, <1>3 DEF OwnNumbered
<1>12. text \subseteq Text(m)' /\ doc'[m].tag = doc[m].tag
  BY <1>1, <1>3 DEF Text
<1> QED BY <1>4, <1>10, <1>11, <1>12

(* spawn_doc(): a new client, and a document of nobody's insertions.       *)
LEMMA Renewed ==
  ASSUME SeatsTyped, doc \in [Members -> SoundDocs],
         NEW m \in Members, NEW tag \in NoteTags,
         doc' = [doc EXCEPT ![m] = Seeded(tag)],
         maker' = [maker EXCEPT ![m] = @ + 1],
         opened' = opened \cup {m}, UNCHANGED filed
  PROVE  /\ Onward /\ doc' \in [Members -> SoundDocs'] /\ OwnNumbered(m)'
         /\ tag.id \subseteq Text(m)' /\ doc'[m] = Seeded(tag) /\ doc'[m].tag = tag
<1> DEFINE d == Seeded(tag)
<1>1. d \in DocsOver(Unowned, {}) /\ d.tag = tag /\ tag.id \subseteq TextOf(d)
  BY SeededSound
<1>2. maker[m] \in Nat /\ maker'[m] = maker[m] + 1 /\ doc'[m] = d
  BY DEF SeatsTyped
<1> HIDE DEF d
<1>3. \A x \in Members \ {m} : doc'[x] = doc[x] /\ maker'[x] = maker[x]
  BY DEF SeatsTyped
<1>4. Onward
  <2>1. maker' \in [Members -> Nat]
    BY <1>2, <1>3 DEF SeatsTyped
  <2> QED BY <2>1, <1>2, <1>3 DEF Onward, SeatsTyped
<1>5. doc' \in [Members -> SoundDocs']
  <2>1. SoundDocs \subseteq SoundDocs' /\ d \in SoundDocs'
    BY <1>1, <1>4, Widens, UnownedPlacedNext
  <2> QED BY <2>1, <1>2, <1>3
<1>6. OwnNumbered(m)'
  <2>1. Own(d, m, maker'[m]) = {}
    BY <1>1, MembersAreNumbers DEF Own, DocsOver, Unowned
  <2>2. Numbered({})
    <3>1. 0 \in Nat /\ 1..0 = {}
      OBVIOUS
    <3> QED BY <3>1 DEF Numbered
  <2> QED BY <2>1, <2>2, <1>2 DEF OwnNumbered
<1>7. tag.id \subseteq Text(m)' /\ doc'[m] = d /\ doc'[m].tag = tag
  BY <1>1, <1>2 DEF Text
<1> QED BY <1>4, <1>5, <1>6, <1>7 DEF d

(* apply_update(): what came is added; nothing is gone but what was filed. *)
LEMMA Joined ==
  ASSUME SeatsTyped, doc \in [Members -> SoundDocs], NEW m \in opened, OwnNumbered(m),
         NEW items \in SUBSET TracedItems, NEW marks \in SUBSET FiledItems,
         doc' = [doc EXCEPT ![m].items = @ \cup items, ![m].gone = @ \cup marks],
         UNCHANGED <<maker, opened, filed>>
  PROVE  /\ Onward /\ doc' \in [Members -> SoundDocs'] /\ OwnNumbered(m)'
         /\ Text(m) \subseteq Text(m)' \cup filed /\ doc'[m].tag = doc[m].tag
<1>1. /\ m \in Members /\ doc[m] \in SoundDocs /\ doc[m].tag \in NoteTags
      /\ doc[m].items \in SUBSET TracedItems /\ doc[m].gone \in SUBSET FiledItems
  BY DocParts DEF SeatsTyped
<1>2. PICK d : d = [tag |-> doc[m].tag, items |-> doc[m].items \cup items,
                    gone |-> doc[m].gone \cup marks]
  OBVIOUS
<1>3. doc'[m] = d /\ \A x \in Members \ {m} : doc'[x] = doc[x]
  BY <1>1, <1>2 DEF SoundDocs, DocsOver
<1>4. d.items = doc[m].items \cup items /\ d.gone = doc[m].gone \cup marks /\ d.tag = doc[m].tag
  BY <1>2
<1>5. Onward
  BY <1>3, <1>4 DEF Onward, SeatsTyped
<1>6. doc' \in [Members -> SoundDocs']
  <2>1. d \in SoundDocs
    BY <1>1, <1>2 DEF SoundDocs, DocsOver
  <2>2. d \in SoundDocs' /\ SoundDocs \subseteq SoundDocs'
    BY <2>1, <1>5, Widens
  <2>3. doc' = [x \in Members |-> doc'[x]]
    OBVIOUS
  <2> QED BY <2>2, <2>3, <1>3
<1>7. Own(d, m, maker[m]) = Own(doc[m], m, maker[m])
  <2>1. ASSUME NEW i \in items, i.by = m, i.doc = maker[m] PROVE i \in doc[m].items
    <3>1. Traced(i)
      BY DEF TracedItems
    <3> QED BY <3>1, <2>1, <1>1, MembersAreNumbers DEF Traced
  <2> QED BY <2>1, <1>4 DEF Own
<1>8. OwnNumbered(m)'
  BY <1>3, <1>7 DEF OwnNumbered
<1>9. ASSUME NEW l \in Text(m), l \notin filed PROVE l \in Text(m)'
  <2>1. \A i \in doc[m].items : i \in d.gone \ doc[m].gone => i.line # l
    BY <1>4, <1>9 DEF FiledItems
  <2>2. l \in TextOf(d)
    BY <2>1, <1>4, TextGrows DEF Text
  <2> QED BY <2>2, <1>3 DEF Text
<1> QED BY <1>3, <1>4, <1>5, <1>6, <1>8, <1>9

-------------------------------------------------------------------------------
(* Steps of the shell. *)

(* All that is m's may change, and nothing that is another's.              *)
Others(m) == \A x \in Members \ {m} :
  /\ doc'[x] = doc[x] /\ maker'[x] = maker[x] /\ roomSeq'[x] = roomSeq[x]
  /\ loading'[x] = loading[x] /\ saving'[x] = saving[x] /\ typed'[x] = typed[x]
  /\ x \in opened' <=> x \in opened
  /\ x \in dirty' <=> x \in dirty

LEMMA OthersSound ==
  ASSUME NoteInv, NEW m \in Members, Others(m), filed \subseteq filed', SeatSound(m)'
  PROVE  \A x \in Members : SeatSound(x)'
<1> SUFFICES ASSUME NEW x \in Members, x # m PROVE SeatSound(x)'
  OBVIOUS
<1>1. SeatSound(x)
  BY DEF NoteInv
<1>2. /\ doc'[x] = doc[x] /\ maker'[x] = maker[x] /\ roomSeq'[x] = roomSeq[x]
      /\ loading'[x] = loading[x] /\ saving'[x] = saving[x] /\ typed'[x] = typed[x]
      /\ x \in opened' <=> x \in opened
      /\ x \in dirty' <=> x \in dirty
  BY DEF Others
<1>3. Fits(x)'
  BY <1>1, <1>2 DEF SeatSound, Fits
<1>4. OwnNumbered(x)'
  BY <1>1, <1>2 DEF SeatSound, OwnNumbered
<1>5. LinesKept(x)'
  BY <1>1, <1>2 DEF SeatSound, LinesKept, Text
<1> QED BY <1>3, <1>4, <1>5 DEF SeatSound

(* A step that leaves documents and history as they are.                   *)
LEMMA Still ==
  ASSUME NoteInv, UNCHANGED <<doc, maker, opened, filed>>
  PROVE  /\ Onward /\ doc' \in [Members -> SoundDocs']
         /\ SoundFrames' = SoundFrames /\ SoundSaves' = SoundSaves
         /\ \A m \in Members : OwnNumbered(m)' /\ Text(m)' = Text(m)
<1>1. SeatsTyped /\ doc \in [Members -> SoundDocs] /\ \A m \in Members : OwnNumbered(m)
  BY DEF NoteInv, SeatSound
<1>2. Onward
  BY <1>1 DEF Onward, SeatsTyped
<1>3. TracedItems' = TracedItems /\ FiledItems' = FiledItems
  BY DEF TracedItems, FiledItems, Traced
<1>4. SoundDocs' = SoundDocs /\ SoundFrames' = SoundFrames /\ SoundSaves' = SoundSaves
  BY <1>3 DEF SoundDocs, SoundFrames, SoundSaves
<1>5. \A m \in Members : OwnNumbered(m)' /\ Text(m)' = Text(m)
  BY <1>1 DEF OwnNumbered, Text
<1> QED BY <1>1, <1>2, <1>4, <1>5

LEMMA QueuesGrow ==
  ASSUME NEW S, NEW T, S \subseteq T, NEW q \in [Members -> Seq(S)]
  PROVE  q \in [Members -> Seq(T)]
<1>1. Seq(S) \subseteq Seq(T)
  BY SeqMonotonic
<1> QED BY <1>1

LEMMA WireStays ==
  ASSUME WireSound, SoundFrames \subseteq SoundFrames'
  PROVE  /\ outgoing' = outgoing => outgoing' \in [Members -> Seq(SoundFrames')]
         /\ incoming' = incoming => incoming' \in [Members -> Seq(SoundFrames')]
         /\ \A m \in Members : incoming[m] # <<>> /\ incoming' = [incoming EXCEPT ![m] = Tail(@)]
              => incoming' \in [Members -> Seq(SoundFrames')]
<1>1. outgoing \in [Members -> Seq(SoundFrames')] /\ incoming \in [Members -> Seq(SoundFrames')]
  BY QueuesGrow DEF WireSound
<1>2. ASSUME NEW m \in Members, incoming[m] # <<>>, incoming' = [incoming EXCEPT ![m] = Tail(@)]
      PROVE  incoming' \in [Members -> Seq(SoundFrames')]
  <2>1. incoming[m] \in Seq(SoundFrames')
    BY <1>1
  <2>2. Tail(incoming[m]) \in Seq(SoundFrames')
    BY <2>1, <1>2
  <2> QED BY <2>2, <1>1, <1>2
<1> QED BY <1>1, <1>2

LEMMA Sent ==
  ASSUME WireSound, SoundFrames \subseteq SoundFrames',
         NEW m \in Members, NEW frames \in Seq(SoundFrames'), Send(m, frames)
  PROVE  outgoing' \in [Members -> Seq(SoundFrames')]
<1>1. outgoing \in [Members -> Seq(SoundFrames')]
  BY QueuesGrow DEF WireSound
<1>2. outgoing[m] \o frames \in Seq(SoundFrames')
  BY <1>1
<1> QED BY <1>1, <1>2 DEF Send

LEMMA NoteStarts == NoteInit => NoteInv
<1> SUFFICES ASSUME NoteInit PROVE NoteInv
  OBVIOUS
<1>0. MaxTyped \in Nat
  BY NoteAssumption
<1>1. FileSound
  BY DEF NoteInit, FileSound
<1>2. SeatsTyped
  BY <1>0 DEF NoteInit, SeatsTyped
<1>3. NullTag \in NoteTags
  BY DEF NullTag, NoteTags
<1>4. doc \in [Members -> SoundDocs]
  <2>1. Seeded(NullTag) \in SoundDocs
    BY <1>3, SeededSound, UnownedPlaced
  <2> QED BY <2>1 DEF NoteInit
<1>5. WireSound
  <2>1. <<>> \in Seq(SoundFrames)
    OBVIOUS
  <2> QED BY <2>1 DEF NoteInit, WireSound
<1>6. ASSUME NEW m \in Members PROVE SeatSound(m)
  <2>1. doc[m].tag = NullTag
    BY <1>3, SeededSound DEF NoteInit
  <2>2. Fits(m)
    BY <2>1 DEF NoteInit, Fits, NullTag
  <2>3. typed[m] = 0 /\ m \notin opened
    BY DEF NoteInit
  <2>4. 1..0 = {}
    OBVIOUS
  <2>5. OwnNumbered(m) /\ LinesKept(m)
    BY <2>3, <2>4 DEF OwnNumbered, LinesKept
  <2> QED BY <2>2, <2>5 DEF SeatSound
<1> QED BY <1>1, <1>2, <1>4, <1>5, <1>6 DEF NoteInv

LEMMA LoadKeeps == ASSUME NoteInv, NEW m \in Members, Load(m) PROVE NoteInv'
<1>1. /\ FileSound /\ SeatsTyped /\ WireSound /\ SeatSound(m)
      /\ UNCHANGED <<server, saving, lastFlushed, dirty, docVars, wireVars, typed, noteHistory>>
      /\ loading' = [loading EXCEPT ![m] = {server}] /\ m \notin opened
  BY DEF NoteInv, Load
<1>2. /\ Onward /\ doc' \in [Members -> SoundDocs'] /\ OwnNumbered(m)' /\ Text(m)' = Text(m)
      /\ SoundFrames' = SoundFrames /\ SoundSaves' = SoundSaves
  BY <1>1, Still DEF docVars, noteHistory
<1>3. FileSound'
  <2>1. {server} \in SUBSET SUBSET filed
    BY <1>1 DEF FileSound
  <2>2. loading' \in [Members -> SUBSET SUBSET filed]
    BY <1>1, <2>1 DEF FileSound
  <2> QED BY <1>1, <1>2, <2>2 DEF FileSound, noteHistory
<1>4. SeatsTyped' /\ WireSound'
  BY <1>1, <1>2 DEF SeatsTyped, WireSound, docVars, wireVars
<1>5. SeatSound(m)'
  <2>1. Fits(m)' /\ LinesKept(m)'
    BY <1>1, <1>2 DEF SeatSound, Fits, LinesKept, docVars, noteHistory
  <2> QED BY <2>1, <1>2 DEF SeatSound
<1>6. Others(m)
  BY <1>1 DEF Others, docVars, FileSound
<1> QED BY <1>1, <1>2, <1>3, <1>4, <1>5, <1>6, OthersSound DEF NoteInv, noteHistory

LEMMA OpenKeeps == ASSUME NoteInv, NEW m \in Members, Open(m) PROVE NoteInv'
<1>1. PICK text \in loading[m] :
        /\ loading' = [loading EXCEPT ![m] = {}]
        /\ opened' = opened \cup {m}
        /\ doc' = [doc EXCEPT ![m] = Seeded([seq |-> roomSeq[m] + 1, author |-> m, id |-> text])]
        /\ maker' = [maker EXCEPT ![m] = @ + 1]
        /\ roomSeq' = [roomSeq EXCEPT ![m] = @ + 1]
        /\ lastFlushed' = [lastFlushed EXCEPT ![m] = text]
        /\ LET d == Seeded([seq |-> roomSeq[m] + 1, author |-> m, id |-> text])
           IN  Send(m, <<Baseline(d), Step1(d)>>)
        /\ UNCHANGED <<server, saving, dirty, replied, linked, incoming, typed, tally, noteHistory>>
  BY DEF Open
<1>2. /\ FileSound /\ SeatsTyped /\ WireSound /\ SeatSound(m) /\ doc \in [Members -> SoundDocs]
      /\ text \in SUBSET filed /\ filed \in SUBSET Lines /\ UNCHANGED filed
      /\ roomSeq[m] \in Nat /\ m \in Nat
  BY <1>1, MembersAreNumbers DEF NoteInv, FileSound, SeatsTyped, noteHistory
<1>3. m \notin opened /\ m \notin dirty /\ saving[m] = {}
  BY <1>1, <1>2 DEF SeatSound, Fits, SeatsTyped
<1>4. PICK tag \in NoteTags : tag = [seq |-> roomSeq[m] + 1, author |-> m, id |-> text]
  <2>1. text \in SUBSET Lines /\ roomSeq[m] + 1 \in Nat
    BY <1>2
  <2>2. [seq |-> roomSeq[m] + 1, author |-> m, id |-> text] \in NoteTags
    BY <2>1, <1>2 DEF NoteTags
  <2> QED BY <2>2
<1>5. tag.seq = roomSeq[m] + 1 /\ tag.id = text
  BY <1>4
<1>6. doc' = [doc EXCEPT ![m] = Seeded(tag)] /\ Send(m, <<Baseline(Seeded(tag)), Step1(Seeded(tag))>>)
  BY <1>1, <1>4
<1>7. /\ Onward /\ doc' \in [Members -> SoundDocs'] /\ OwnNumbered(m)'
      /\ tag.id \subseteq Text(m)' /\ doc'[m] = Seeded(tag) /\ doc'[m].tag = tag
  BY <1>1, <1>2, <1>6, Renewed
<1>8. SoundFrames \subseteq SoundFrames' /\ SoundSaves \subseteq SoundSaves'
  BY <1>2, <1>7, Widens
<1>9. FileSound'
  <2>1. /\ loading' \in [Members -> SUBSET SUBSET filed']
        /\ lastFlushed' \in [Members -> SUBSET filed']
    BY <1>1, <1>2 DEF FileSound
  <2>2. saving' \in [Members -> SUBSET SoundSaves']
    BY <1>1, <1>2, <1>8 DEF FileSound
  <2> QED BY <1>1, <1>2, <2>1, <2>2 DEF FileSound
<1>10. SeatsTyped'
  BY <1>1, <1>2, <1>7 DEF SeatsTyped, Onward
<1>11. WireSound'
  <2>1. Seeded(tag) \in SoundDocs'
    BY <1>7
  <2>2. Baseline(Seeded(tag)) \in SoundFrames' /\ Step1(Seeded(tag)) \in SoundFrames'
    BY <2>1, UnownedPlacedNext, FramesMade DEF SoundDocs, SoundFrames
  <2>3. outgoing' \in [Members -> Seq(SoundFrames')]
    <3>1. <<Baseline(Seeded(tag)), Step1(Seeded(tag))>> \in Seq(SoundFrames')
      BY <2>2
    <3> QED BY <3>1, <1>2, <1>6, <1>8, Sent
  <2> QED BY <2>3, <1>1, <1>2, <1>8, WireStays DEF WireSound
<1>12. SeatSound(m)'
  <2>1. loading'[m] = {} /\ saving'[m] = {} /\ roomSeq'[m] = roomSeq[m] + 1 /\ m \in opened'
    BY <1>1, <1>2, <1>3 DEF FileSound, SeatsTyped
  <2>2. Fits(m)'
    BY <2>1, <1>2, <1>5, <1>7 DEF Fits
  <2>3. LinesKept(m)'
    BY <1>1, <1>2, <1>3 DEF SeatSound, LinesKept
  <2> QED BY <2>2, <2>3, <1>7 DEF SeatSound
<1>13. Others(m)
  BY <1>1, <1>2, <1>7 DEF Others, FileSound, SeatsTyped
<1> QED BY <1>2, <1>7, <1>9, <1>10, <1>11, <1>12, <1>13, OthersSound DEF NoteInv

LEMMA CloseKeeps == ASSUME NoteInv, NEW m \in Members, Close(m) PROVE NoteInv'
<1>1. /\ FileSound /\ SeatsTyped /\ WireSound /\ SeatSound(m) /\ doc \in [Members -> SoundDocs]
      /\ m \in opened \ dirty /\ opened' = opened \ {m}
      /\ doc' = [doc EXCEPT ![m] = Seeded(NullTag)]
      /\ roomSeq' = [roomSeq EXCEPT ![m] = 0] /\ replied' = replied \ {m}
      /\ UNCHANGED <<fileVars, maker, wireVars, typed, tally, noteHistory>>
  BY DEF NoteInv, Close
<1>2. Onward
  BY <1>1 DEF Onward, SeatsTyped, noteHistory
<1>3. SoundDocs \subseteq SoundDocs' /\ SoundFrames \subseteq SoundFrames' /\ SoundSaves \subseteq SoundSaves'
  BY <1>1, <1>2, Widens
<1>4. Seeded(NullTag) \in SoundDocs' /\ Seeded(NullTag).tag = NullTag
  <2>1. NullTag \in NoteTags
    BY DEF NullTag, NoteTags
  <2> QED BY <2>1, SeededSound, UnownedPlacedNext
<1>5. doc' \in [Members -> SoundDocs'] /\ doc'[m].tag = NullTag
  BY <1>1, <1>3, <1>4
<1>6. FileSound'
  <2>1. saving' \in [Members -> SUBSET SoundSaves']
    BY <1>1, <1>3 DEF FileSound, fileVars
  <2> QED BY <1>1, <2>1 DEF FileSound, fileVars, noteHistory
<1>7. SeatsTyped'
  BY <1>1 DEF SeatsTyped, fileVars, wireVars
<1>8. WireSound'
  BY <1>1, <1>3, WireStays DEF WireSound, wireVars
<1>9. SeatSound(m)'
  <2>1. roomSeq'[m] = 0 /\ saving'[m] = {} /\ loading'[m] = {}
    BY <1>1 DEF SeatsTyped, SeatSound, Fits, fileVars
  <2>2. Fits(m)'
    BY <2>1, <1>1, <1>5 DEF Fits, NullTag
  <2>3. OwnNumbered(m)' /\ LinesKept(m)'
    BY <1>1 DEF OwnNumbered, LinesKept, SeatSound, fileVars, noteHistory
  <2> QED BY <2>2, <2>3 DEF SeatSound
<1>10. Others(m)
  BY <1>1 DEF Others, fileVars, SeatsTyped
<1> QED BY <1>1, <1>5, <1>6, <1>7, <1>8, <1>9, <1>10, OthersSound DEF NoteInv, noteHistory

LEMMA TypeKeeps == ASSUME NoteInv, NEW m \in Members, Type(m) PROVE NoteInv'
<1> DEFINE line == <<m, typed[m] + 1>>
           text == Text(m) \cup {line}
<1>1. /\ FileSound /\ SeatsTyped /\ WireSound /\ SeatSound(m) /\ doc \in [Members -> SoundDocs]
      /\ m \in opened /\ typed[m] < MaxTyped
      /\ doc' = [doc EXCEPT ![m] = Edited(m, text)]
      /\ Send(m, <<Updated(Edited(m, text), Edited(m, text).items \ doc[m].items)>>)
      /\ typed' = [typed EXCEPT ![m] = @ + 1] /\ dirty' = dirty \cup {m}
      /\ UNCHANGED <<server, loading, saving, lastFlushed, opened, roomSeq, replied, maker,
                     linked, incoming, tally, noteHistory>>
  BY DEF NoteInv, Type
<1>2. Text(m) \in SUBSET Lines /\ typed[m] \in 0..MaxTyped /\ MaxTyped \in Nat
  BY <1>1, DocParts, NoteAssumption DEF SeatsTyped
<1>3. typed[m] + 1 \in 1..MaxTyped
  BY <1>1, <1>2
<1>4. line \in Lines /\ text \in SUBSET Lines
  BY <1>2, <1>3 DEF Lines
<1>5. UNCHANGED <<maker, opened>> /\ filed \subseteq filed' /\ Text(m) \ text \subseteq filed'
  BY <1>1 DEF noteHistory
<1> HIDE DEF text, line
<1>6. /\ Onward /\ doc' \in [Members -> SoundDocs'] /\ OwnNumbered(m)'
      /\ text \subseteq Text(m)' /\ doc'[m].tag = doc[m].tag
  BY <1>1, <1>4, <1>5, Written DEF SeatSound
<1>7. SoundFrames \subseteq SoundFrames' /\ SoundSaves \subseteq SoundSaves'
  BY <1>1, <1>6, Widens
<1>8. FileSound'
  <2>1. saving' \in [Members -> SUBSET SoundSaves']
    BY <1>1, <1>7 DEF FileSound
  <2> QED BY <1>1, <2>1 DEF FileSound, noteHistory
<1>9. SeatsTyped'
  <2>1. typed' \in [Members -> 0..MaxTyped]
    BY <1>1, <1>2, <1>3 DEF SeatsTyped
  <2> QED BY <1>1, <2>1 DEF SeatsTyped
<1>10. WireSound'
  <2>1. Edited(m, text) \in SoundDocs'
    BY <1>1, <1>6
  <2>2. Updated(Edited(m, text), Edited(m, text).items \ doc[m].items) \in SoundFrames'
    BY <2>1, UnownedPlacedNext, FramesMade DEF SoundDocs, SoundFrames
  <2>3. outgoing' \in [Members -> Seq(SoundFrames')]
    <3>1. <<Updated(Edited(m, text), Edited(m, text).items \ doc[m].items)>> \in Seq(SoundFrames')
      BY <2>2
    <3> QED BY <3>1, <1>1, <1>7, Sent
  <2> QED BY <2>3, <1>1, <1>7, WireStays DEF WireSound
<1>11. SeatSound(m)'
  <2>1. Fits(m)'
    BY <1>1, <1>6 DEF SeatSound, Fits
  <2>2. ASSUME NEW k \in 1..typed'[m] PROVE <<m, k>> \in Text(m)' \cup filed'
    <3>1. CASE k \in 1..typed[m]
      <4>1. <<m, k>> \in Text(m) \cup filed
        BY <3>1, <1>1 DEF SeatSound, LinesKept
      <4> QED BY <4>1, <1>5, <1>6 DEF text
    <3>2. CASE k \notin 1..typed[m]
      <4>1. typed'[m] = typed[m] + 1
        BY <1>1 DEF SeatsTyped
      <4>2. k = typed[m] + 1
        BY <4>1, <3>2, <1>2
      <4> QED BY <4>2, <1>6 DEF text, line
    <3> QED BY <3>1, <3>2
  <2>3. LinesKept(m)'
    BY <2>2, <1>1 DEF LinesKept
  <2> QED BY <2>1, <2>3, <1>6 DEF SeatSound
<1>12. Others(m)
  BY <1>1 DEF Others, SeatsTyped
<1> QED BY <1>5, <1>6, <1>8, <1>9, <1>10, <1>11, <1>12, OthersSound DEF NoteInv

LEMMA SaveReadKeeps == ASSUME NoteInv, NEW m \in Members, SaveRead(m) PROVE NoteInv'
<1> DEFINE s == [frozen |-> Text(m), merged |-> Merge3(lastFlushed[m], Text(m), server)]
<1>1. /\ FileSound /\ SeatsTyped /\ WireSound /\ SeatSound(m) /\ doc \in [Members -> SoundDocs]
      /\ m \in opened \cap dirty /\ saving' = [saving EXCEPT ![m] = {s}]
      /\ UNCHANGED <<server, loading, lastFlushed, dirty, docVars, wireVars, typed, noteHistory>>
  BY DEF NoteInv, SaveRead
<1>2. /\ Onward /\ doc' \in [Members -> SoundDocs'] /\ OwnNumbered(m)' /\ Text(m)' = Text(m)
      /\ SoundFrames' = SoundFrames /\ SoundSaves' = SoundSaves
  BY <1>1, Still DEF docVars, noteHistory
<1>3. s \in SoundSaves
  <2>1. /\ Text(m) \in SUBSET Lines /\ lastFlushed[m] \in SUBSET filed
        /\ server \in SUBSET filed /\ filed \in SUBSET Lines
    BY <1>1, DocParts DEF FileSound
  <2>2. /\ s.frozen \in SUBSET Lines /\ s.merged \in SUBSET Lines
        /\ s.frozen \ s.merged \subseteq filed
    BY <2>1 DEF Merge3
  <2> QED BY <2>2 DEF SoundSaves
<1> HIDE DEF s
<1>4. FileSound'
  <2>1. saving' \in [Members -> SUBSET SoundSaves]
    BY <1>1, <1>3 DEF FileSound
  <2> QED BY <1>1, <1>2, <2>1 DEF FileSound, noteHistory
<1>5. SeatsTyped' /\ WireSound'
  BY <1>1, <1>2 DEF SeatsTyped, WireSound, docVars, wireVars
<1>6. SeatSound(m)'
  <2>1. Fits(m)' /\ LinesKept(m)'
    BY <1>1, <1>2 DEF SeatSound, Fits, LinesKept, docVars, noteHistory
  <2> QED BY <2>1, <1>2 DEF SeatSound
<1>7. Others(m)
  BY <1>1 DEF Others, docVars, FileSound
<1> QED BY <1>1, <1>2, <1>4, <1>5, <1>6, <1>7, OthersSound DEF NoteInv, noteHistory

(* What a save takes out of the text was in the file.                      *)
LEMMA SaveWriteKeeps == ASSUME NoteInv, NEW m \in Members, SaveWrite(m) PROVE NoteInv'
<1> DEFINE Rebased(s) == IF Text(m) = s.frozen THEN s.merged
                         ELSE Merge3(s.frozen, Text(m), s.merged)
<1>1. PICK s \in saving[m] :
        /\ server' = s.merged /\ saving' = [saving EXCEPT ![m] = {}]
        /\ lastFlushed' = [lastFlushed EXCEPT ![m] = s.merged]
        /\ doc' = [doc EXCEPT ![m] = Edited(m, Rebased(s))]
        /\ dirty' = IF Rebased(s) = s.merged THEN dirty \ {m} ELSE dirty
        /\ filed' = filed \cup s.merged
        /\ UNCHANGED <<loading, opened, roomSeq, replied, maker, wireVars, typed, tally,
                       parted, hushed>>
  BY DEF SaveWrite
<1>2. /\ FileSound /\ SeatsTyped /\ WireSound /\ SeatSound(m) /\ doc \in [Members -> SoundDocs]
      /\ Text(m) \in SUBSET Lines /\ filed \in SUBSET Lines
  BY DocParts DEF NoteInv, FileSound
<1>3. /\ s.frozen \in SUBSET Lines /\ s.merged \in SUBSET Lines
      /\ s.frozen \ s.merged \subseteq filed
  BY <1>2 DEF FileSound, SoundSaves
<1>4. m \in opened /\ m \in dirty
  BY <1>1, <1>2 DEF SeatSound, Fits, SeatsTyped
<1>5. PICK text \in SUBSET Lines : text = Rebased(s)
  BY <1>2, <1>3 DEF Merge3
<1>6. Text(m) \ text \subseteq filed
  BY <1>3, <1>5 DEF Merge3
<1> HIDE DEF Rebased
<1>7. filed \subseteq filed' /\ UNCHANGED <<maker, opened>> /\ doc' = [doc EXCEPT ![m] = Edited(m, text)]
  BY <1>1, <1>5
<1>8. /\ Onward /\ doc' \in [Members -> SoundDocs'] /\ OwnNumbered(m)'
      /\ text \subseteq Text(m)' /\ doc'[m].tag = doc[m].tag
  <2>1. Text(m) \ text \subseteq filed' /\ OwnNumbered(m)
    BY <1>2, <1>6, <1>7 DEF SeatSound
  <2> QED BY <2>1, <1>2, <1>4, <1>5, <1>7, Written
<1>9. SoundFrames \subseteq SoundFrames' /\ SoundSaves \subseteq SoundSaves'
  BY <1>2, <1>8, Widens
<1>10. FileSound'
  <2>1. filed' \in SUBSET Lines /\ server' \in SUBSET filed'
    BY <1>1, <1>2, <1>3
  <2>2. /\ loading' \in [Members -> SUBSET SUBSET filed']
        /\ lastFlushed' \in [Members -> SUBSET filed']
    BY <1>1, <1>2, <1>7 DEF FileSound
  <2>3. saving' \in [Members -> SUBSET SoundSaves']
    BY <1>1, <1>2, <1>9 DEF FileSound
  <2> QED BY <2>1, <2>2, <2>3 DEF FileSound
<1>11. SeatsTyped'
  BY <1>1, <1>2, <1>4 DEF SeatsTyped, wireVars
<1>12. WireSound'
  BY <1>1, <1>2, <1>9, WireStays DEF WireSound, wireVars
<1>13. SeatSound(m)'
  <2>1. Fits(m)'
    <3>1. saving'[m] = {}
      BY <1>1, <1>2 DEF FileSound
    <3> QED BY <3>1, <1>1, <1>2, <1>8 DEF SeatSound, Fits
  <2>2. ASSUME NEW k \in 1..typed[m] PROVE <<m, k>> \in text \cup filed
    <3>1. <<m, k>> \in Text(m) \cup filed
      BY <1>2, <1>4 DEF SeatSound, LinesKept
    <3> QED BY <3>1, <1>6
  <2>3. m \notin dirty' => text \subseteq filed'
    BY <1>1, <1>4, <1>5
  <2>4. LinesKept(m)'
    <3> SUFFICES ASSUME NEW k \in 1..typed[m]
                 PROVE  /\ <<m, k>> \in Text(m)' \cup filed'
                        /\ m \notin dirty' => <<m, k>> \in filed'
      BY <1>1 DEF LinesKept
    <3> QED BY <2>2, <2>3, <1>7, <1>8
  <2> QED BY <2>1, <2>4, <1>8 DEF SeatSound
<1>14. Others(m)
  BY <1>1, <1>2 DEF Others, FileSound
<1> QED BY <1>7, <1>8, <1>10, <1>11, <1>12, <1>13, <1>14, OthersSound DEF NoteInv

(* A save that fails may have added to the file; the text stays.           *)
LEMMA SaveFailKeeps == ASSUME NoteInv, NEW m \in Members, SaveFail(m) PROVE NoteInv'
<1>1. PICK s \in saving[m] : \E text \in {server, s.merged} :
        /\ server' = text /\ saving' = [saving EXCEPT ![m] = {}]
        /\ filed' = filed \cup text
        /\ UNCHANGED <<loading, lastFlushed, dirty, docVars, wireVars, typed, tally>>
  BY DEF SaveFail
<1> PICK text \in {server, s.merged} : server' = text /\ filed' = filed \cup text
  BY <1>1
<1>2. /\ FileSound /\ SeatsTyped /\ WireSound /\ SeatSound(m) /\ doc \in [Members -> SoundDocs]
      /\ filed \in SUBSET Lines
  BY DEF NoteInv, FileSound
<1>3. text \in SUBSET Lines
  BY <1>2 DEF FileSound, SoundSaves
<1>4. filed \subseteq filed' /\ UNCHANGED <<doc, maker, opened>>
  BY <1>1 DEF docVars
<1>5. Onward
  BY <1>2, <1>4 DEF Onward, SeatsTyped
<1>6. /\ SoundDocs \subseteq SoundDocs' /\ SoundFrames \subseteq SoundFrames'
      /\ SoundSaves \subseteq SoundSaves'
  BY <1>2, <1>5, Widens
<1>7. doc' \in [Members -> SoundDocs']
  BY <1>2, <1>4, <1>6
<1>8. FileSound'
  <2>1. filed' \in SUBSET Lines /\ server' \in SUBSET filed'
    BY <1>1, <1>2, <1>3
  <2>2. /\ loading' \in [Members -> SUBSET SUBSET filed']
        /\ lastFlushed' \in [Members -> SUBSET filed']
    BY <1>1, <1>2, <1>4 DEF FileSound
  <2>3. saving' \in [Members -> SUBSET SoundSaves']
    BY <1>1, <1>2, <1>6 DEF FileSound
  <2> QED BY <2>1, <2>2, <2>3 DEF FileSound
<1>9. SeatsTyped'
  BY <1>1, <1>2 DEF SeatsTyped, docVars, wireVars
<1>10. WireSound'
  BY <1>1, <1>2, <1>6, WireStays DEF WireSound, wireVars
<1>11. SeatSound(m)'
  <2>1. saving'[m] = {}
    BY <1>1, <1>2 DEF FileSound
  <2>2. Fits(m)' /\ LinesKept(m)' /\ OwnNumbered(m)'
    BY <2>1, <1>1, <1>2, <1>4 DEF SeatSound, Fits, LinesKept, OwnNumbered, Text, docVars
  <2> QED BY <2>2 DEF SeatSound
<1>12. Others(m)
  BY <1>1, <1>2 DEF Others, FileSound, docVars
<1> QED BY <1>4, <1>5, <1>7, <1>8, <1>9, <1>10, <1>11, <1>12, OthersSound DEF NoteInv

-------------------------------------------------------------------------------
(* Steps of the wire. *)

(* A step that changes queues, numbers heard of, and which members         *)
(* answered, only.                                                         *)
LEMMA WireOnly ==
  ASSUME NoteInv, SeatsTyped', WireSound',
         UNCHANGED <<fileVars, doc, maker, opened, typed, filed>>,
         \A x \in Members : roomSeq[x] <= roomSeq'[x]
  PROVE  NoteInv'
<1>1. /\ Onward /\ doc' \in [Members -> SoundDocs'] /\ SoundSaves' = SoundSaves
      /\ \A m \in Members : OwnNumbered(m)' /\ Text(m)' = Text(m)
  BY Still
<1>2. FileSound'
  BY <1>1 DEF NoteInv, FileSound, fileVars
<1>3. ASSUME NEW m \in Members PROVE SeatSound(m)'
  <2>1. SeatSound(m)
    BY DEF NoteInv
  <2>2. roomSeq[m] \in Nat /\ roomSeq'[m] \in Nat /\ doc[m].tag.seq \in Nat
    BY DocParts DEF NoteInv, SeatsTyped, NoteTags
  <2>3. Fits(m)' /\ LinesKept(m)'
    BY <2>1, <2>2, <1>1 DEF SeatSound, Fits, LinesKept, fileVars
  <2> QED BY <2>3, <1>1 DEF SeatSound
<1> QED BY <1>1, <1>2, <1>3 DEF NoteInv

LEMMA SeqStays ==
  ASSUME SeatsTyped, UNCHANGED roomSeq PROVE \A x \in Members : roomSeq[x] <= roomSeq'[x]
BY DEF SeatsTyped

LEMMA LinkKeeps == ASSUME NoteInv, NEW m \in Members, Link(m) PROVE NoteInv'
<1>1. /\ SeatsTyped /\ WireSound /\ doc[m] \in SoundDocs
      /\ linked' = linked \cup {m} /\ incoming' = [incoming EXCEPT ![m] = <<>>]
      /\ IF m \in opened THEN Send(m, <<Baseline(doc[m]), Step1(doc[m])>>) ELSE UNCHANGED outgoing
      /\ UNCHANGED <<fileVars, docVars, typed, noteHistory>>
  BY DEF NoteInv, Link
<1>2. SoundFrames' = SoundFrames
  BY <1>1, Still DEF docVars, noteHistory
<1>3. SeatsTyped'
  BY <1>1 DEF SeatsTyped, fileVars, docVars
<1>4. outgoing' \in [Members -> Seq(SoundFrames')]
  <2>1. Baseline(doc[m]) \in SoundFrames /\ Step1(doc[m]) \in SoundFrames
    BY <1>1, UnownedPlaced, FramesMade DEF SoundDocs, SoundFrames
  <2>2. <<Baseline(doc[m]), Step1(doc[m])>> \in Seq(SoundFrames')
    BY <2>1, <1>2
  <2> QED BY <2>2, <1>1, <1>2, Sent, WireStays
<1>5. WireSound'
  <2>1. <<>> \in Seq(SoundFrames)
    OBVIOUS
  <2> QED BY <2>1, <1>1, <1>2, <1>4 DEF WireSound
<1> QED BY <1>1, <1>3, <1>5, SeqStays, WireOnly DEF docVars, noteHistory

LEMMA UnlinkKeeps == ASSUME NoteInv, NEW m \in Members, Unlink(m) PROVE NoteInv'
<1>1. /\ SeatsTyped /\ WireSound
      /\ linked' = linked \ {m}
      /\ outgoing' = [outgoing EXCEPT ![m] = <<>>] /\ incoming' = [incoming EXCEPT ![m] = <<>>]
      /\ UNCHANGED <<fileVars, docVars, typed, filed>>
  BY DEF NoteInv, Unlink
<1>2. SoundFrames' = SoundFrames
  BY <1>1, Still DEF docVars
<1>3. SeatsTyped'
  BY <1>1 DEF SeatsTyped, fileVars, docVars
<1>4. WireSound'
  <2>1. <<>> \in Seq(SoundFrames)
    OBVIOUS
  <2> QED BY <2>1, <1>1, <1>2 DEF WireSound
<1> QED BY <1>1, <1>3, <1>4, SeqStays, WireOnly DEF docVars

LEMMA RelayKeeps == ASSUME NoteInv, NEW m \in Members, Relay(m) PROVE NoteInv'
<1>1. /\ SeatsTyped /\ WireSound /\ outgoing[m] # <<>>
      /\ outgoing' = [outgoing EXCEPT ![m] = Tail(@)]
      /\ incoming' = [n \in Members |-> IF n \in linked \ {m}
                                        THEN Append(incoming[n], Head(outgoing[m]))
                                        ELSE incoming[n]]
      /\ UNCHANGED <<fileVars, docVars, linked, typed, tally, noteHistory>>
  BY DEF NoteInv, Relay
<1>2. SoundFrames' = SoundFrames
  BY <1>1, Still DEF docVars, noteHistory
<1>3. SeatsTyped'
  BY <1>1 DEF SeatsTyped, fileVars, docVars
<1>4. WireSound'
  <2>1. outgoing[m] \in Seq(SoundFrames)
    BY <1>1 DEF WireSound
  <2>2. Head(outgoing[m]) \in SoundFrames /\ Tail(outgoing[m]) \in Seq(SoundFrames)
    BY <2>1, <1>1
  <2>3. \A n \in Members : Append(incoming[n], Head(outgoing[m])) \in Seq(SoundFrames)
    BY <2>2, <1>1 DEF WireSound
  <2>4. incoming' \in [Members -> Seq(SoundFrames)]
    BY <2>3, <1>1 DEF WireSound
  <2> QED BY <2>2, <2>4, <1>1, <1>2 DEF WireSound
<1> QED BY <1>1, <1>3, <1>4, SeqStays, WireOnly DEF docVars, noteHistory

LEMMA ReplyAgainKeeps == ASSUME NoteInv, NEW m \in Members, ReplyAgain(m) PROVE NoteInv'
<1>1. /\ SeatsTyped /\ WireSound /\ replied' = replied \ {m}
      /\ UNCHANGED <<fileVars, doc, opened, roomSeq, maker, wireVars, typed, tally, noteHistory>>
  BY DEF NoteInv, ReplyAgain
<1>2. SoundFrames' = SoundFrames
  BY <1>1, Still DEF noteHistory
<1>3. SeatsTyped' /\ WireSound'
  BY <1>1, <1>2 DEF SeatsTyped, WireSound, fileVars, wireVars
<1> QED BY <1>1, <1>3, SeqStays, WireOnly DEF noteHistory

-------------------------------------------------------------------------------
(* Frames that come in. *)

Heard(m, f) == roomSeq' = [roomSeq EXCEPT ![m] = Max2(@, f.tag.seq)]

(* What receiving a frame leaves alone.                                    *)
Hears(m) ==
  /\ incoming[m] # <<>> /\ incoming' = [incoming EXCEPT ![m] = Tail(@)]
  /\ UNCHANGED <<server, loading, saving, dirty, opened, linked, typed, filed>>

LEMMA SoundFrameParts ==
  \A f \in SoundFrames :
    /\ f.tag \in NoteTags
    /\ f.kind = "baseline" => f.current \in SUBSET Lines
    /\ f.kind \notin {"baseline", "step1"} =>
         f.items \in SUBSET TracedItems /\ f.gone \in SUBSET FiledItems
BY DEF SoundFrames, FramesOver

LEMMA HeardTyped ==
  ASSUME SeatsTyped, NEW m \in Members, NEW f, f.tag \in NoteTags, Heard(m, f)
  PROVE  roomSeq' \in [Members -> Nat] /\ \A x \in Members : roomSeq[x] <= roomSeq'[x]
<1>1. f.tag.seq \in Nat /\ roomSeq \in [Members -> Nat]
  BY DEF NoteTags, SeatsTyped
<1>2. Max2(roomSeq[m], f.tag.seq) \in Nat /\ roomSeq[m] <= Max2(roomSeq[m], f.tag.seq)
  BY <1>1 DEF Max2
<1> QED BY <1>1, <1>2 DEF Heard

(* A frame that leaves the document as it is.                              *)
LEMMA HearsStill ==
  ASSUME NoteInv, NEW m \in Members, Hears(m), UNCHANGED <<doc, maker, lastFlushed>>,
         roomSeq' \in [Members -> Nat], \A x \in Members : roomSeq[x] <= roomSeq'[x],
         replied' \in SUBSET opened, outgoing' \in [Members -> Seq(SoundFrames)]
  PROVE  NoteInv'
<1>1. SeatsTyped /\ WireSound
  BY DEF NoteInv
<1>2. SoundFrames' = SoundFrames
  BY Still DEF Hears
<1>3. SeatsTyped'
  BY <1>1 DEF SeatsTyped, Hears
<1>4. WireSound'
  BY <1>1, <1>2, WireStays DEF WireSound, Hears
<1> QED BY <1>3, <1>4, WireOnly DEF Hears, fileVars

LEMMA ReplyKeeps ==
  ASSUME NoteInv, NEW m \in opened, Hears(m), ReplyBaseline(m),
         roomSeq' \in [Members -> Nat], \A x \in Members : roomSeq[x] <= roomSeq'[x]
  PROVE  NoteInv'
<1>1. /\ WireSound /\ m \in Members /\ doc[m] \in SoundDocs /\ replied \in SUBSET opened
  BY DEF NoteInv, SeatsTyped
<1>2. UNCHANGED <<doc, maker, lastFlushed>> /\ replied' = replied \cup {m}
  BY DEF ReplyBaseline
<1>3. SoundFrames' = SoundFrames
  BY <1>2, Still DEF Hears
<1>4. outgoing' \in [Members -> Seq(SoundFrames)]
  <2>1. CASE m \in replied
    BY <2>1, <1>1 DEF ReplyBaseline, WireSound
  <2>2. CASE m \notin replied
    <3>1. Baseline(doc[m]) \in SoundFrames
      BY <1>1, UnownedPlaced, FramesMade DEF SoundDocs, SoundFrames
    <3>2. <<Baseline(doc[m])>> \in Seq(SoundFrames')
      BY <3>1, <1>3
    <3>3. Send(m, <<Baseline(doc[m])>>)
      BY <2>2 DEF ReplyBaseline
    <3> QED BY <3>2, <3>3, <1>1, <1>3, Sent
  <2> QED BY <2>1, <2>2
<1> QED BY <1>1, <1>2, <1>4, HearsStill

(* What a member types and has not saved is not what an adoption deletes:  *)
(* it deletes lines of the text that was saved last.                       *)
LEMMA AdoptKeeps ==
  ASSUME NoteInv, NEW m \in opened, Hears(m), NEW f, f.tag \in NoteTags,
         f.current \in SUBSET Lines, Above(f.tag, doc[m].tag), AdoptBaseline(m, f)
  PROVE  NoteInv'
<1> DEFINE top == Max2(roomSeq[m], f.tag.seq)
           merged == Merge3(lastFlushed[m], Text(m), f.current)
           same == merged = f.current /\ f.current = f.tag.id
           next == [seq |-> top + 1, author |-> m, id |-> merged]
           d == Seeded(IF same THEN f.tag ELSE next)
<1>1. /\ doc' = [doc EXCEPT ![m] = d]
      /\ maker' = [maker EXCEPT ![m] = @ + 1]
      /\ roomSeq' = [roomSeq EXCEPT ![m] = IF same THEN top ELSE top + 1]
      /\ Send(m, IF same THEN <<Step1(d)>> ELSE <<Baseline(d), Step1(d)>>)
      /\ UNCHANGED <<lastFlushed, replied>>
  BY DEF AdoptBaseline
<1>2. /\ FileSound /\ SeatsTyped /\ WireSound /\ SeatSound(m) /\ doc \in [Members -> SoundDocs]
      /\ m \in Members /\ m \in Nat
  BY MembersAreNumbers DEF NoteInv, SeatsTyped
<1>3. /\ Text(m) \in SUBSET Lines /\ doc[m].tag \in NoteTags
      /\ lastFlushed[m] \in SUBSET filed /\ filed \in SUBSET Lines
  BY <1>2, DocParts DEF FileSound
<1>4. /\ roomSeq[m] \in Nat /\ f.tag.seq \in Nat /\ doc[m].tag.seq \in Nat
      /\ doc[m].tag.seq > 0
  BY <1>2, <1>3 DEF SeatsTyped, NoteTags, SeatSound, Fits
<1>5. top \in Nat /\ roomSeq[m] <= top /\ f.tag.seq <= top /\ f.tag.seq > 0
  BY <1>4 DEF Max2, Above
<1>6. merged \in SUBSET Lines /\ Text(m) \ merged \subseteq filed
  BY <1>3 DEF Merge3
<1> HIDE DEF top, merged
<1>7. PICK tag \in NoteTags : tag = IF same THEN f.tag ELSE next
  <2>1. next \in NoteTags
    BY <1>2, <1>5, <1>6 DEF NoteTags
  <2> QED BY <2>1
<1>8. /\ tag.id = merged /\ tag.seq > 0
      /\ tag.seq <= (IF same THEN top ELSE top + 1)
      /\ (IF same THEN top ELSE top + 1) \in Nat
  BY <1>5, <1>7
<1>9. d = Seeded(tag) /\ doc' = [doc EXCEPT ![m] = Seeded(tag)]
  BY <1>1, <1>7
<1>10. UNCHANGED <<opened, filed, server, loading, saving, dirty, linked, typed>>
  BY DEF Hears
<1>11. opened' = opened \cup {m}
  BY <1>10
<1>12. /\ Onward /\ doc' \in [Members -> SoundDocs'] /\ OwnNumbered(m)'
       /\ tag.id \subseteq Text(m)' /\ doc'[m] = Seeded(tag) /\ doc'[m].tag = tag
  BY <1>1, <1>2, <1>9, <1>10, <1>11, Renewed
<1>13. SoundFrames \subseteq SoundFrames' /\ SoundSaves \subseteq SoundSaves'
  BY <1>2, <1>12, Widens
<1>14. FileSound'
  <2>1. saving' \in [Members -> SUBSET SoundSaves']
    BY <1>2, <1>10, <1>13 DEF FileSound
  <2> QED BY <2>1, <1>1, <1>2, <1>10 DEF FileSound
<1>15. roomSeq' \in [Members -> Nat] /\ roomSeq'[m] = IF same THEN top ELSE top + 1
  BY <1>1, <1>2, <1>8 DEF SeatsTyped
<1>16. SeatsTyped'
  BY <1>1, <1>2, <1>10, <1>12, <1>15 DEF SeatsTyped, Onward
<1>17. WireSound'
  <2>1. d \in SoundDocs'
    BY <1>9, <1>12
  <2> HIDE DEF d
  <2>2. Baseline(d) \in SoundFrames' /\ Step1(d) \in SoundFrames'
    BY <2>1, UnownedPlacedNext, FramesMade DEF SoundDocs, SoundFrames
  <2>3. (IF same THEN <<Step1(d)>> ELSE <<Baseline(d), Step1(d)>>) \in Seq(SoundFrames')
    BY <2>2
  <2>4. outgoing' \in [Members -> Seq(SoundFrames')]
    BY <2>3, <1>1, <1>2, <1>13, Sent
  <2> QED BY <2>4, <1>2, <1>13, WireStays DEF WireSound, Hears
<1>18. SeatSound(m)'
  <2>1. Fits(m)'
    BY <1>2, <1>8, <1>10, <1>12, <1>15 DEF SeatSound, Fits
  <2>2. LinesKept(m)'
    <3> SUFFICES ASSUME NEW k \in 1..typed[m]
                 PROVE  /\ <<m, k>> \in Text(m)' \cup filed
                        /\ m \notin dirty => <<m, k>> \in filed
      BY <1>10 DEF LinesKept
    <3>1. /\ <<m, k>> \in Text(m) \cup filed
          /\ m \notin dirty => <<m, k>> \in filed
      BY <1>2 DEF SeatSound, LinesKept
    <3> QED BY <3>1, <1>6, <1>8, <1>12
  <2> QED BY <2>1, <2>2, <1>12 DEF SeatSound
<1>19. Others(m)
  BY <1>1, <1>2, <1>10 DEF Others, SeatsTyped
<1>20. \A x \in Members : SeatSound(x)'
  <2>1. filed \subseteq filed'
    BY <1>10
  <2> QED BY <2>1, <1>2, <1>18, <1>19, OthersSound
<1> QED BY <1>12, <1>14, <1>16, <1>17, <1>20 DEF NoteInv

LEMMA JoinKeeps ==
  ASSUME NoteInv, NEW m \in opened, Hears(m), NEW f \in SoundFrames,
         f.kind \notin {"baseline", "step1"}, Heard(m, f),
         doc' = [doc EXCEPT ![m].items = @ \cup f.items, ![m].gone = @ \cup f.gone],
         UNCHANGED <<maker, lastFlushed, replied, outgoing>>
  PROVE  NoteInv'
<1>1. /\ FileSound /\ SeatsTyped /\ WireSound /\ SeatSound(m) /\ doc \in [Members -> SoundDocs]
      /\ m \in Members
  BY DEF NoteInv, SeatsTyped
<1>2. UNCHANGED <<opened, filed, server, loading, saving, dirty, linked, typed>>
  BY DEF Hears
<1>3. f.items \in SUBSET TracedItems /\ f.gone \in SUBSET FiledItems /\ f.tag \in NoteTags
  BY SoundFrameParts
<1>4. /\ Onward /\ doc' \in [Members -> SoundDocs'] /\ OwnNumbered(m)'
      /\ Text(m) \subseteq Text(m)' \cup filed /\ doc'[m].tag = doc[m].tag
  BY <1>1, <1>2, <1>3, Joined DEF SeatSound
<1>5. SoundFrames \subseteq SoundFrames' /\ SoundSaves \subseteq SoundSaves'
  BY <1>1, <1>4, Widens
<1>6. FileSound'
  <2>1. saving' \in [Members -> SUBSET SoundSaves']
    BY <1>1, <1>2, <1>5 DEF FileSound
  <2> QED BY <2>1, <1>1, <1>2 DEF FileSound
<1>7. roomSeq' \in [Members -> Nat] /\ \A x \in Members : roomSeq[x] <= roomSeq'[x]
  BY <1>1, <1>3, HeardTyped
<1>8. SeatsTyped'
  BY <1>1, <1>2, <1>7 DEF SeatsTyped
<1>9. WireSound'
  BY <1>1, <1>5, WireStays DEF WireSound, Hears
<1>10. SeatSound(m)'
  <2>1. roomSeq[m] \in Nat /\ roomSeq'[m] \in Nat /\ roomSeq[m] <= roomSeq'[m]
    BY <1>1, <1>7 DEF SeatsTyped
  <2>2. doc[m].tag.seq \in Nat
    BY <1>1, DocParts DEF NoteTags
  <2>3. Fits(m)'
    BY <2>1, <2>2, <1>1, <1>2, <1>4 DEF SeatSound, Fits
  <2>4. LinesKept(m)'
    BY <1>1, <1>2, <1>4 DEF SeatSound, LinesKept
  <2> QED BY <2>3, <2>4, <1>4 DEF SeatSound
<1>11. Others(m)
  BY <1>1, <1>2 DEF Others, Heard, SeatsTyped
<1> QED BY <1>2, <1>4, <1>6, <1>8, <1>9, <1>10, <1>11, OthersSound DEF NoteInv

LEMMA ReceiveKeeps == ASSUME NoteInv, NEW m \in Members, Receive(m) PROVE NoteInv'
<1>1. PICK f : f = Head(incoming[m])
  OBVIOUS
<1>2. /\ Hears(m) /\ SeatsTyped /\ WireSound /\ doc[m] \in SoundDocs
      /\ outgoing \in [Members -> Seq(SoundFrames)] /\ replied \in SUBSET opened
  BY DEF Receive, Hears, NoteInv, SeatsTyped, WireSound
<1>3. f \in SoundFrames /\ f.tag \in NoteTags
  <2>1. incoming[m] \in Seq(SoundFrames) /\ incoming[m] # <<>>
    BY <1>2 DEF WireSound, Hears
  <2> QED BY <2>1, <1>1, SoundFrameParts
<1>4. CASE m \notin opened
  <2>1. UNCHANGED <<doc, maker, roomSeq, lastFlushed, replied, outgoing>>
    BY <1>4 DEF Receive
  <2>2. roomSeq' \in [Members -> Nat] /\ \A x \in Members : roomSeq[x] <= roomSeq'[x]
    BY <2>1, <1>2, SeqStays DEF SeatsTyped
  <2> QED BY <2>1, <2>2, <1>2, HearsStill
<1>5. CASE m \in opened /\ f.kind = "baseline"
  <2>1. ReceiveBaseline(m, f) /\ f.current \in SUBSET Lines
    BY <1>1, <1>3, <1>5, SoundFrameParts DEF Receive
  <2>2. CASE f.tag.id # doc[m].tag.id /\ Above(f.tag, doc[m].tag)
    <3>1. AdoptBaseline(m, f)
      BY <2>1, <2>2 DEF ReceiveBaseline
    <3> QED BY <3>1, <2>1, <2>2, <1>2, <1>3, <1>5, AdoptKeeps
  <2>3. CASE ~(f.tag.id # doc[m].tag.id /\ Above(f.tag, doc[m].tag))
    <3>1. /\ Heard(m, f)
          /\ IF f.tag.id = doc[m].tag.id
             THEN UNCHANGED <<doc, maker, lastFlushed, replied, outgoing>>
             ELSE ReplyBaseline(m)
      BY <2>1, <2>3 DEF ReceiveBaseline, Heard
    <3>2. roomSeq' \in [Members -> Nat] /\ \A x \in Members : roomSeq[x] <= roomSeq'[x]
      BY <3>1, <1>2, <1>3, HeardTyped
    <3>3. CASE f.tag.id = doc[m].tag.id
      BY <3>1, <3>2, <3>3, <1>2, HearsStill
    <3>4. CASE f.tag.id # doc[m].tag.id
      BY <3>1, <3>2, <3>4, <1>2, <1>5, ReplyKeeps
    <3> QED BY <3>3, <3>4
  <2> QED BY <2>2, <2>3
<1>6. CASE m \in opened /\ f.kind # "baseline"
  <2>1. ReceiveSync(m, f)
    BY <1>1, <1>6 DEF Receive
  <2>2. Heard(m, f)
    BY <2>1 DEF ReceiveSync, Heard
  <2>3. roomSeq' \in [Members -> Nat] /\ \A x \in Members : roomSeq[x] <= roomSeq'[x]
    BY <2>2, <1>2, <1>3, HeardTyped
  <2>4. CASE f.tag.id # doc[m].tag.id
    <3>1. ReplyBaseline(m)
      BY <2>1, <2>4 DEF ReceiveSync
    <3> QED BY <3>1, <2>3, <1>2, <1>6, ReplyKeeps
  <2>5. CASE f.tag.id = doc[m].tag.id /\ f.kind = "step1"
    <3>1. Send(m, <<Step2(doc[m])>>) /\ UNCHANGED <<doc, maker, lastFlushed, replied>>
      BY <2>1, <2>5 DEF ReceiveSync
    <3>2. SoundFrames' = SoundFrames
      BY <3>1, <1>2, Still DEF Hears
    <3>3. Step2(doc[m]) \in SoundFrames
      BY <1>2, UnownedPlaced, FramesMade DEF SoundDocs, SoundFrames
    <3>4. <<Step2(doc[m])>> \in Seq(SoundFrames')
      BY <3>2, <3>3
    <3>5. outgoing' \in [Members -> Seq(SoundFrames)]
      BY <3>1, <3>2, <3>4, <1>2, Sent
    <3> QED BY <3>1, <3>5, <2>3, <1>2, HearsStill
  <2>6. CASE f.tag.id = doc[m].tag.id /\ f.kind # "step1"
    <3>1. /\ doc' = [doc EXCEPT ![m].items = @ \cup f.items, ![m].gone = @ \cup f.gone]
          /\ UNCHANGED <<maker, lastFlushed, replied, outgoing>>
      BY <2>1, <2>6 DEF ReceiveSync
    <3> QED BY <3>1, <2>2, <2>6, <1>2, <1>3, <1>6, JoinKeeps
  <2> QED BY <2>4, <2>5, <2>6
<1> QED BY <1>4, <1>5, <1>6

-------------------------------------------------------------------------------
(* The inductive invariant of notes: what the file ever held, what every   *)
(* document and frame is made of, and that a line that was typed is shown  *)
(* or was in the file.                                                     *)
THEOREM NotesTracked == NoteSpec => []NoteInv
<1>1. NoteInv /\ [NoteNext]_noteVars => NoteInv'
  <2> SUFFICES ASSUME NoteInv, [NoteNext]_noteVars PROVE NoteInv'
    OBVIOUS
  <2>1. CASE UNCHANGED noteVars
    <3>1. /\ SeatsTyped' /\ WireSound'
          /\ UNCHANGED <<fileVars, doc, maker, opened, typed, filed>>
          /\ \A x \in Members : roomSeq[x] <= roomSeq'[x]
      <4>1. UNCHANGED <<fileVars, docVars, wireVars, typed, noteHistory>> /\ SeatsTyped /\ WireSound
        BY <2>1 DEF noteVars, NoteInv
      <4>2. SoundFrames' = SoundFrames
        BY <4>1, Still DEF docVars, noteHistory
      <4> QED BY <4>1, <4>2, SeqStays
             DEF SeatsTyped, WireSound, fileVars, docVars, wireVars, noteHistory
    <3> QED BY <3>1, WireOnly
  <2>2. CASE NoteNext
    <3>1. PICK m \in Members :
            \/ Load(m) \/ Open(m) \/ Close(m) \/ Type(m)
            \/ SaveRead(m) \/ SaveWrite(m) \/ SaveFail(m)
            \/ Link(m) \/ Unlink(m) \/ Relay(m)
            \/ Receive(m) \/ ReplyAgain(m)
      BY <2>2 DEF NoteNext
    <3> QED BY <3>1, LoadKeeps, OpenKeeps, CloseKeeps, TypeKeeps, SaveReadKeeps, SaveWriteKeeps,
               SaveFailKeeps, LinkKeeps, UnlinkKeeps, RelayKeeps, ReceiveKeeps, ReplyAgainKeeps
  <2> QED BY <2>1, <2>2
<1> QED BY <1>1, NoteStarts, PTL DEF NoteSpec

(* Types of notes (NoteCollab's state and the shell's), for any members,   *)
(* lines, documents and queues.                                            *)
THEOREM NotesTyped == NoteSpec => []NoteTypeOK
<1>1. NoteInv => NoteTypeOK
  <2> SUFFICES ASSUME NoteInv PROVE NoteTypeOK
    OBVIOUS
  <2>1. /\ server \subseteq Lines /\ opened \subseteq Members /\ dirty \subseteq opened
        /\ replied \subseteq opened /\ linked \subseteq Members
    BY DEF NoteInv, FileSound, SeatsTyped
  <2>2. ASSUME NEW m \in Members
        PROVE  /\ Text(m) \subseteq Lines /\ lastFlushed[m] \subseteq Lines
               /\ roomSeq[m] >= doc[m].tag.seq /\ typed[m] \in 0..MaxTyped
               /\ m \in opened <=> doc[m].tag # NullTag
    <3>1. Text(m) \subseteq Lines /\ doc[m].tag \in NoteTags
      BY DocParts DEF NoteInv
    <3>2. lastFlushed[m] \subseteq Lines /\ typed[m] \in 0..MaxTyped /\ roomSeq[m] \in Nat
      BY DEF NoteInv, FileSound, SeatsTyped
    <3>3. Fits(m)
      BY DEF NoteInv, SeatSound
    <3>4. roomSeq[m] >= doc[m].tag.seq
      BY <3>1, <3>2, <3>3 DEF Fits, NoteTags
    <3>5. m \in opened <=> doc[m].tag # NullTag
      BY <3>3 DEF Fits, NullTag
    <3> QED BY <3>1, <3>2, <3>4, <3>5
  <2> QED BY <2>1, <2>2 DEF NoteTypeOK
<1> QED BY <1>1, NotesTracked, PTL

(* What a member typed and nobody has saved stays in its text, whatever is *)
(* merged, adopted or aligned (note_collab.rs:366-371), for any members,   *)
(* lines, documents, connections and saves.                                *)
THEOREM UnsavedStays == NoteSpec => []UnsavedKept
<1>1. NoteInv => UnsavedKept
  BY DEF NoteInv, SeatsTyped, SeatSound, LinesKept, UnsavedKept
<1> QED BY <1>1, NotesTracked, PTL

-------------------------------------------------------------------------------
(* Members agree: what a document has, another of the same baseline has,   *)
(* will be brought or has asked for.  Stated while no connection has ended *)
(* and no save has changed a document silently: nothing is marked deleted. *)

ItemsOf(f, x) == IF f.kind \in {"step2", "update"} /\ f.tag.id = x THEN f.items ELSE {}

(* The frames of a queue under the baseline x: all, those that ask, and    *)
(* those that bring the insertion i.                                       *)
Naming(q, x) == {k \in DOMAIN q : q[k].tag.id = x}
Asking(q, x) == {k \in DOMAIN q : q[k].kind = "step1" /\ q[k].tag.id = x}
Bringing(q, x, i) == {k \in DOMAIN q : i \in ItemsOf(q[k], x)}

Seeds(x) == {Item(l, 0, 0, 1) : l \in x}

Unmarked(f) == f.kind \in {"step2", "update"} => f.gone = {}

(* Of a document, the frames its member has sent and those on their way to *)
(* the member.  What it has sent of this baseline it has, or it asked      *)
(* again afterwards, with a new document.                                  *)
SentTrue(d, out) ==
  \A k \in DOMAIN out : \A i \in ItemsOf(out[k], d.tag.id) :
    i \in d.items \/ \E j \in Asking(out, d.tag.id) : j > k

(* Nobody knows yet what it has beside the baseline.                       *)
KeptTrue(d, out) ==
  \A i \in d.items : i \in Seeds(d.tag.id) \/ Bringing(out, d.tag.id, i) # {}

(* It has the insertion i, or it is on its way.                            *)
Gets(d, in, i) == i \in d.items \/ Bringing(in, d.tag.id, i) # {}

(* Two documents are of one baseline, or one of the members will hear of   *)
(* the other's; h: a baseline went unanswered.                             *)
NamedTrue(h, d1, out1, in1, d2, out2, in2) ==
  \/ d1.tag.id = d2.tag.id \/ h
  \/ Naming(out1, d1.tag.id) # {} \/ Naming(in2, d1.tag.id) # {}
  \/ Naming(out2, d2.tag.id) # {} \/ Naming(in1, d2.tag.id) # {}

(* What the first has the second gets, or the first is asked for it.       *)
SharedTrue(d1, out1, in1, d2, out2, in2) ==
  d1.tag.id = d2.tag.id =>
    \/ Asking(out2, d2.tag.id) # {} \/ Asking(in1, d2.tag.id) # {}
    \/ \A i \in d1.items : Gets(d2, in2, i) \/ Bringing(out1, d2.tag.id, i) # {}

(* What comes to the first the second gets as well, or it asks the first   *)
(* for it afterwards.                                                      *)
PassedTrue(in1, d2, out2, in2) ==
  \/ Asking(out2, d2.tag.id) # {}
  \/ \A k \in DOMAIN in1 : \A i \in ItemsOf(in1[k], d2.tag.id) :
       Gets(d2, in2, i) \/ \E j \in Asking(in1, d2.tag.id) : j > k

Plain(m) ==
  /\ doc[m].gone = {} /\ Seeds(doc[m].tag.id) \subseteq doc[m].items
  /\ \A k \in DOMAIN outgoing[m] : Unmarked(outgoing[m][k])
  /\ \A k \in DOMAIN incoming[m] : Unmarked(incoming[m][k])
  /\ m \notin linked => incoming[m] = <<>>

Alone(m) ==
  m \in opened => /\ SentTrue(doc[m], outgoing[m])
                  /\ m \notin linked => KeptTrue(doc[m], outgoing[m])

Passed(m, n) ==
  m \in linked /\ n \in linked \cap opened =>
    PassedTrue(incoming[m], doc[n], outgoing[n], incoming[n])

Mutual(m, n) ==
  m \in linked \cap opened /\ n \in linked \cap opened =>
    /\ NamedTrue(hushed, doc[m], outgoing[m], incoming[m], doc[n], outgoing[n], incoming[n])
    /\ SharedTrue(doc[m], outgoing[m], incoming[m], doc[n], outgoing[n], incoming[n])

Together ==
  /\ \A m \in Members : Plain(m) /\ Alone(m)
  /\ \A m, n \in Members : m # n => Passed(m, n) /\ Mutual(m, n)

TogetherInv == parted \/ aligned \/ Together

-------------------------------------------------------------------------------
(* Queues that grow and queues that are read. *)

Longer(q, r) ==
  /\ DOMAIN q \subseteq DOMAIN r /\ \A k \in DOMAIN q : r[k] = q[k]
  /\ \A k \in DOMAIN q : \A j \in DOMAIN r \ DOMAIN q : j > k

Taken(q, r) ==
  /\ 1 \in DOMAIN q
  /\ \A k \in DOMAIN r : k + 1 \in DOMAIN q /\ r[k] = q[k + 1]
  /\ \A k \in DOMAIN q \ {1} : k - 1 \in DOMAIN r /\ r[k - 1] = q[k]
  /\ DOMAIN q \subseteq Nat /\ DOMAIN r \subseteq Nat

LEMMA LongerSame == ASSUME NEW q PROVE Longer(q, q)
BY DEF Longer

LEMMA TakenTail ==
  ASSUME NEW S, NEW q \in Seq(S), q # <<>>
  PROVE  Taken(q, Tail(q)) /\ Head(q) = q[1]
<1>1. /\ Len(q) \in Nat \ {0} /\ DOMAIN q = 1..Len(q) /\ DOMAIN Tail(q) = 1..(Len(q) - 1)
      /\ \A k \in 1..(Len(q) - 1) : Tail(q)[k] = q[k + 1]
  OBVIOUS
<1> QED BY <1>1 DEF Taken

(* What is in a queue is in a longer one. *)
LEMMA StillThere ==
  ASSUME NEW q, NEW r, Longer(q, r), NEW x
  PROVE  /\ Naming(q, x) \subseteq Naming(r, x) /\ Asking(q, x) \subseteq Asking(r, x)
         /\ \A i : Bringing(q, x, i) \subseteq Bringing(r, x, i)
BY DEF Longer, Naming, Asking, Bringing

(* What was in a queue is still there, but for the frame that was read. *)
LEMMA LeftThere ==
  ASSUME NEW q, NEW r, Taken(q, r), NEW x
  PROVE  /\ Naming(q, x) # {} => Naming(r, x) # {} \/ q[1].tag.id = x
         /\ Asking(q, x) # {} => Asking(r, x) # {} \/ (q[1].kind = "step1" /\ q[1].tag.id = x)
         /\ \A i : Bringing(q, x, i) # {} => Bringing(r, x, i) # {} \/ i \in ItemsOf(q[1], x)
         /\ \A j \in Asking(q, x) : j > 1 => j - 1 \in Asking(r, x)
<1>1. \A k \in DOMAIN q : k = 1 \/ (k - 1 \in DOMAIN r /\ r[k - 1] = q[k])
  BY DEF Taken
<1>2. ASSUME NEW i, Bringing(q, x, i) # {} PROVE Bringing(r, x, i) # {} \/ i \in ItemsOf(q[1], x)
  BY <1>1, <1>2 DEF Bringing
<1>3. Naming(q, x) # {} => Naming(r, x) # {} \/ q[1].tag.id = x
  BY <1>1 DEF Naming
<1>4. Asking(q, x) # {} => Asking(r, x) # {} \/ (q[1].kind = "step1" /\ q[1].tag.id = x)
  BY <1>1 DEF Asking
<1>5. ASSUME NEW j \in Asking(q, x), j > 1 PROVE j - 1 \in Asking(r, x)
  BY <1>1, <1>5 DEF Asking
<1> QED BY <1>2, <1>3, <1>4, <1>5

LEMMA LeftBringing ==
  ASSUME NEW q, NEW r, Taken(q, r), NEW x, NEW i, Bringing(q, x, i) # {}
  PROVE  Bringing(r, x, i) # {} \/ i \in ItemsOf(q[1], x)
BY LeftThere

LEMMA PassedRead ==
  ASSUME NEW q, NEW r, Taken(q, r), NEW d, NEW out, NEW in, PassedTrue(q, d, out, in)
  PROVE  PassedTrue(r, d, out, in)
<1> SUFFICES ASSUME Asking(out, d.tag.id) = {}, NEW k \in DOMAIN r, NEW i \in ItemsOf(r[k], d.tag.id)
             PROVE  Gets(d, in, i) \/ \E j \in Asking(r, d.tag.id) : j > k
  BY DEF PassedTrue
<1>1. k \in Nat /\ k + 1 \in DOMAIN q /\ r[k] = q[k + 1]
  BY DEF Taken
<1>2. Gets(d, in, i) \/ \E j \in Asking(q, d.tag.id) : j > k + 1
  BY <1>1 DEF PassedTrue
<1>3. ASSUME NEW j \in Asking(q, d.tag.id), j > k + 1 PROVE j - 1 \in Asking(r, d.tag.id) /\ j - 1 > k
  <2>1. j \in Nat
    BY DEF Asking, Taken
  <2> QED BY <1>1, <1>3, <2>1, LeftThere
<1> QED BY <1>2, <1>3

LEMMA SentRead ==
  ASSUME NEW q, NEW r, Taken(q, r), NEW d, SentTrue(d, q) PROVE SentTrue(d, r)
<1> SUFFICES ASSUME NEW k \in DOMAIN r, NEW i \in ItemsOf(r[k], d.tag.id)
             PROVE  i \in d.items \/ \E j \in Asking(r, d.tag.id) : j > k
  BY DEF SentTrue
<1>1. k \in Nat /\ k + 1 \in DOMAIN q /\ r[k] = q[k + 1]
  BY DEF Taken
<1>2. i \in d.items \/ \E j \in Asking(q, d.tag.id) : j > k + 1
  BY <1>1 DEF SentTrue
<1>3. ASSUME NEW j \in Asking(q, d.tag.id), j > k + 1 PROVE j - 1 \in Asking(r, d.tag.id) /\ j - 1 > k
  <2>1. j \in Nat
    BY DEF Asking, Taken
  <2> QED BY <1>1, <1>3, <2>1, LeftThere
<1> QED BY <1>2, <1>3

-------------------------------------------------------------------------------
(* Steps of one member. *)

Only(m) ==
  /\ linked' \ {m} = linked \ {m} /\ opened' \ {m} = opened \ {m} /\ (hushed => hushed')
  /\ \A n \in Members \ {m} :
       doc'[n] = doc[n] /\ outgoing'[n] = outgoing[n] /\ incoming'[n] = incoming[n]

NewOut(m) == DOMAIN outgoing'[m] \ DOMAIN outgoing[m]

(* The document keeps its baseline, and what is new in it is sent or was   *)
(* in the frame that was read; asked, it answers.                          *)
Grows(m) ==
  LET x == doc[m].tag.id
      f == incoming[m][1]
      new == doc'[m].items \ doc[m].items
  IN /\ doc'[m].tag = doc[m].tag /\ doc[m].items \subseteq doc'[m].items /\ doc'[m].gone = {}
     /\ Longer(outgoing[m], outgoing'[m])
     /\ \A k \in NewOut(m) :
          Unmarked(outgoing'[m][k]) /\ ItemsOf(outgoing'[m][k], x) \subseteq doc'[m].items
     /\ \/ /\ incoming'[m] = incoming[m]
           /\ \A i \in new : Bringing(outgoing'[m], x, i) # {}
        \/ /\ Taken(incoming[m], incoming'[m])
           /\ new \subseteq ItemsOf(f, x) /\ ItemsOf(f, x) \subseteq doc'[m].items
           /\ f.kind = "step1" /\ f.tag.id = x =>
                \A i \in doc'[m].items : Bringing(outgoing'[m], x, i) # {}
           /\ f.tag.id # x => hushed' \/ Naming(outgoing'[m], x) # {}

(* Read or not, the queue of m loses no more than its first frame. *)
LEMMA GrowsGets ==
  ASSUME NEW m \in Members, Grows(m), NEW i, Gets(doc[m], incoming[m], i)
  PROVE  Gets(doc'[m], incoming'[m], i)
<1>1. CASE i \in doc[m].items
  BY <1>1 DEF Grows, Gets
<1>2. CASE i \notin doc[m].items /\ incoming'[m] = incoming[m]
  BY <1>2 DEF Grows, Gets
<1>3. CASE i \notin doc[m].items /\ incoming'[m] # incoming[m]
  <2>1. /\ Taken(incoming[m], incoming'[m]) /\ doc'[m].tag = doc[m].tag
        /\ ItemsOf(incoming[m][1], doc[m].tag.id) \subseteq doc'[m].items
    BY <1>3 DEF Grows
  <2>2. Bringing(incoming[m], doc[m].tag.id, i) # {}
    BY <1>3 DEF Gets
  <2>3. Bringing(incoming'[m], doc[m].tag.id, i) # {} \/ i \in ItemsOf(incoming[m][1], doc[m].tag.id)
    BY <2>1, <2>2, LeftBringing
  <2> QED BY <2>1, <2>3 DEF Gets
<1> QED BY <1>1, <1>2, <1>3

LEMMA GrowsSent ==
  ASSUME NEW m \in Members, Grows(m), SentTrue(doc[m], outgoing[m])
  PROVE  SentTrue(doc'[m], outgoing'[m])
<1> DEFINE x == doc[m].tag.id
<1>1. /\ doc'[m].tag = doc[m].tag /\ doc[m].items \subseteq doc'[m].items
      /\ Longer(outgoing[m], outgoing'[m])
      /\ \A k \in NewOut(m) : ItemsOf(outgoing'[m][k], x) \subseteq doc'[m].items
  BY DEF Grows
<1> SUFFICES ASSUME NEW k \in DOMAIN outgoing'[m], NEW i \in ItemsOf(outgoing'[m][k], x)
             PROVE  i \in doc'[m].items \/ \E j \in Asking(outgoing'[m], x) : j > k
  BY <1>1 DEF SentTrue
<1>2. CASE k \in NewOut(m)
  BY <1>1, <1>2
<1>3. CASE k \in DOMAIN outgoing[m]
  <2>1. outgoing'[m][k] = outgoing[m][k] /\ Asking(outgoing[m], x) \subseteq Asking(outgoing'[m], x)
    BY <1>1, <1>3, StillThere DEF Longer
  <2> QED BY <1>1, <1>3, <2>1 DEF SentTrue
<1> QED BY <1>2, <1>3 DEF NewOut

LEMMA GrowsKept ==
  ASSUME NEW m \in Members, Grows(m), incoming[m] = <<>>,
         KeptTrue(doc[m], outgoing[m])
  PROVE  KeptTrue(doc'[m], outgoing'[m])
<1> DEFINE x == doc[m].tag.id
<1>1. incoming[m] = <<>> => ~Taken(incoming[m], incoming'[m])
  BY DEF Taken
<1>2. /\ doc'[m].tag = doc[m].tag /\ Longer(outgoing[m], outgoing'[m])
      /\ \A i \in doc'[m].items \ doc[m].items : Bringing(outgoing'[m], x, i) # {}
  BY <1>1 DEF Grows
<1>3. \A i : Bringing(outgoing[m], x, i) \subseteq Bringing(outgoing'[m], x, i)
  BY <1>2, StillThere
<1> QED BY <1>2, <1>3 DEF KeptTrue

(* What the member that grows owes another, *)
LEMMA GrowsShares ==
  ASSUME NEW m \in Members, NEW n \in Members, m # n, Only(m), Grows(m),
         PassedTrue(incoming[m], doc[n], outgoing[n], incoming[n]),
         SharedTrue(doc[m], outgoing[m], incoming[m], doc[n], outgoing[n], incoming[n])
  PROVE  SharedTrue(doc'[m], outgoing'[m], incoming'[m], doc'[n], outgoing'[n], incoming'[n])
<1> DEFINE x == doc[m].tag.id
           f == incoming[m][1]
<1>1. /\ doc'[n] = doc[n] /\ outgoing'[n] = outgoing[n] /\ incoming'[n] = incoming[n]
      /\ doc'[m].tag = doc[m].tag
      /\ Longer(outgoing[m], outgoing'[m])
  BY DEF Only, Grows
<1> SUFFICES ASSUME x = doc[n].tag.id, Asking(outgoing[n], x) = {}, Asking(incoming'[m], x) = {},
                    NEW i \in doc'[m].items
             PROVE  Gets(doc[n], incoming[n], i) \/ Bringing(outgoing'[m], x, i) # {}
  BY <1>1 DEF SharedTrue
<1>2. Bringing(outgoing[m], x, i) \subseteq Bringing(outgoing'[m], x, i)
  BY <1>1, StillThere
<1>3. CASE incoming'[m] = incoming[m]
  <2>1. CASE i \in doc[m].items
    BY <1>2, <1>3, <2>1 DEF SharedTrue
  <2>2. CASE i \notin doc[m].items /\ Bringing(outgoing'[m], x, i) # {}
    BY <2>2
  <2>3. CASE i \notin doc[m].items /\ Taken(incoming[m], incoming'[m]) /\ i \in ItemsOf(f, x)
    <3>1. 1 \in DOMAIN incoming[m] /\ Asking(incoming[m], x) = {}
      BY <1>3, <2>3 DEF Taken
    <3>2. Gets(doc[n], incoming[n], i)
      BY <2>3, <3>1 DEF PassedTrue
    <3> QED BY <3>2
  <2> QED BY <2>1, <2>2, <2>3 DEF Grows
<1>4. CASE incoming'[m] # incoming[m]
  <2>1. /\ Taken(incoming[m], incoming'[m]) /\ doc'[m].items \ doc[m].items \subseteq ItemsOf(f, x)
        /\ f.kind = "step1" /\ f.tag.id = x =>
             \A k \in doc'[m].items : Bringing(outgoing'[m], x, k) # {}
    BY <1>4 DEF Grows
  <2>2. CASE f.kind = "step1" /\ f.tag.id = x
    BY <2>1, <2>2
  <2>3. CASE ~(f.kind = "step1" /\ f.tag.id = x)
    <3>1. Asking(incoming[m], x) = {}
      BY <2>1, <2>3, LeftThere
    <3>2. CASE i \in doc[m].items
      BY <1>2, <3>1, <3>2 DEF SharedTrue
    <3>3. CASE i \notin doc[m].items
      <4>1. 1 \in DOMAIN incoming[m] /\ i \in ItemsOf(f, x)
        BY <2>1, <3>3 DEF Taken
      <4>2. Gets(doc[n], incoming[n], i)
        BY <3>1, <4>1 DEF PassedTrue
      <4> QED BY <4>2
    <3> QED BY <3>2, <3>3
  <2> QED BY <2>2, <2>3
<1> QED BY <1>3, <1>4

(* what the other owes it, *)
LEMMA GrowsShared ==
  ASSUME NEW m \in Members, NEW n \in Members, m # n, Only(m), Grows(m),
         SharedTrue(doc[n], outgoing[n], incoming[n], doc[m], outgoing[m], incoming[m])
  PROVE  SharedTrue(doc'[n], outgoing'[n], incoming'[n], doc'[m], outgoing'[m], incoming'[m])
<1> DEFINE x == doc[m].tag.id
<1>1. /\ doc'[n] = doc[n] /\ outgoing'[n] = outgoing[n] /\ incoming'[n] = incoming[n]
      /\ doc'[m].tag = doc[m].tag
      /\ Longer(outgoing[m], outgoing'[m])
  BY DEF Only, Grows
<1>2. Asking(outgoing[m], x) \subseteq Asking(outgoing'[m], x)
  BY <1>1, StillThere
<1>3. \A i : Gets(doc[m], incoming[m], i) => Gets(doc'[m], incoming'[m], i)
  BY GrowsGets
<1> QED BY <1>1, <1>2, <1>3 DEF SharedTrue

LEMMA GrowsPassed ==
  ASSUME NEW m \in Members, NEW n \in Members, m # n, Only(m), Grows(m),
         PassedTrue(incoming[n], doc[m], outgoing[m], incoming[m])
  PROVE  PassedTrue(incoming'[n], doc'[m], outgoing'[m], incoming'[m])
<1> DEFINE x == doc[m].tag.id
<1>1. incoming'[n] = incoming[n] /\ doc'[m].tag = doc[m].tag /\ Longer(outgoing[m], outgoing'[m])
  BY DEF Only, Grows
<1>2. Asking(outgoing[m], x) \subseteq Asking(outgoing'[m], x)
  BY <1>1, StillThere
<1>3. \A i : Gets(doc[m], incoming[m], i) => Gets(doc'[m], incoming'[m], i)
  BY GrowsGets
<1> QED BY <1>1, <1>2, <1>3 DEF PassedTrue

(* and that one of them hears of the other's baseline. *)
LEMMA GrowsNamed ==
  ASSUME NEW m \in Members, NEW n \in Members, m # n, Only(m), Grows(m),
         NamedTrue(hushed, doc[m], outgoing[m], incoming[m], doc[n], outgoing[n], incoming[n])
  PROVE  NamedTrue(hushed', doc'[m], outgoing'[m], incoming'[m],
                   doc'[n], outgoing'[n], incoming'[n])
<1> DEFINE x == doc[m].tag.id
           y == doc[n].tag.id
<1>1. /\ doc'[n] = doc[n] /\ outgoing'[n] = outgoing[n] /\ incoming'[n] = incoming[n]
      /\ doc'[m].tag = doc[m].tag /\ (hushed => hushed')
      /\ Longer(outgoing[m], outgoing'[m])
  BY DEF Only, Grows
<1>2. Naming(outgoing[m], x) \subseteq Naming(outgoing'[m], x)
  BY <1>1, StillThere
<1>3. CASE incoming'[m] = incoming[m] \/ Naming(incoming[m], y) = {} \/ x = y
  BY <1>1, <1>2, <1>3 DEF NamedTrue
<1>4. CASE incoming'[m] # incoming[m] /\ Naming(incoming[m], y) # {} /\ x # y
  <2>1. /\ Taken(incoming[m], incoming'[m])
        /\ incoming[m][1].tag.id # x => hushed' \/ Naming(outgoing'[m], x) # {}
    BY <1>4 DEF Grows
  <2>2. Naming(incoming'[m], y) # {} \/ incoming[m][1].tag.id = y
    BY <1>4, <2>1, LeftThere
  <2> QED BY <1>1, <1>4, <2>1, <2>2 DEF NamedTrue
<1> QED BY <1>3, <1>4

LEMMA NamedBoth ==
  ASSUME NEW h, NEW d1, NEW out1, NEW in1, NEW d2, NEW out2, NEW in2,
         NamedTrue(h, d1, out1, in1, d2, out2, in2)
  PROVE  NamedTrue(h, d2, out2, in2, d1, out1, in1)
BY DEF NamedTrue

(* What is not about m stays. *)
LEMMA OthersTogether ==
  ASSUME Together, NEW m \in Members, Only(m), NEW n \in Members \ {m}
  PROVE  /\ Plain(n)' /\ Alone(n)'
         /\ \A k \in Members \ {m} : k # n => Passed(k, n)' /\ Mutual(k, n)'
<1>1. \A k \in Members \ {m} :
        /\ doc'[k] = doc[k] /\ outgoing'[k] = outgoing[k] /\ incoming'[k] = incoming[k]
        /\ k \in linked' <=> k \in linked
        /\ k \in opened' <=> k \in opened
  BY DEF Only
<1>2. Plain(n)' /\ Alone(n)'
  BY <1>1 DEF Together, Plain, Alone
<1>3. ASSUME NEW k \in Members \ {m}, k # n PROVE Passed(k, n)' /\ Mutual(k, n)'
  <2>1. Passed(k, n) /\ Mutual(k, n)
    BY <1>3 DEF Together
  <2>2. hushed => hushed'
    BY DEF Only
  <2>3. Passed(k, n)'
    BY <1>1, <2>1 DEF Passed
  <2>4. Mutual(k, n)'
    BY <1>1, <2>1, <2>2 DEF Mutual, NamedTrue
  <2> QED BY <2>3, <2>4
<1> QED BY <1>2, <1>3

(* A step of m alone keeps the invariant when it keeps what is about m. *)
LEMMA OnlyTogether ==
  ASSUME Together, NEW m \in Members, Only(m), Plain(m)', Alone(m)',
         \A n \in Members \ {m} : Passed(m, n)' /\ Passed(n, m)' /\ Mutual(m, n)' /\ Mutual(n, m)'
  PROVE  Together'
<1>1. \A n \in Members : Plain(n)' /\ Alone(n)'
  BY OthersTogether
<1>2. ASSUME NEW k \in Members, NEW n \in Members, k # n PROVE Passed(k, n)' /\ Mutual(k, n)'
  BY <1>2, OthersTogether
<1> QED BY <1>1, <1>2 DEF Together

LEMMA GrowsTogether ==
  ASSUME Together, NEW m \in Members, m \in opened, Only(m), UNCHANGED <<linked, opened>>, Grows(m)
  PROVE  Together'
<1>1. Plain(m) /\ Alone(m)
  BY DEF Together
<1>2. \/ incoming'[m] = incoming[m]
      \/ Taken(incoming[m], incoming'[m]) /\ 1 \in DOMAIN incoming[m]
  BY DEF Grows, Taken
<1>3. incoming[m] = <<>> => incoming'[m] = <<>>
  BY <1>2
<1>4. Plain(m)'
  <2>1. doc'[m].gone = {} /\ Seeds(doc'[m].tag.id) \subseteq doc'[m].items
    BY <1>1 DEF Plain, Grows
  <2>2. \A k \in DOMAIN outgoing'[m] : Unmarked(outgoing'[m][k])
    BY <1>1 DEF Plain, Grows, NewOut, Longer
  <2>3. \A k \in DOMAIN incoming'[m] : Unmarked(incoming'[m][k])
    BY <1>1, <1>2 DEF Plain, Taken
  <2> QED BY <1>1, <1>3, <2>1, <2>2, <2>3 DEF Plain
<1>5. Alone(m)'
  BY <1>1, GrowsSent, GrowsKept DEF Alone, Plain
<1>6. ASSUME NEW n \in Members \ {m}
      PROVE  Passed(m, n)' /\ Passed(n, m)' /\ Mutual(m, n)' /\ Mutual(n, m)'
  <2>1. Passed(m, n) /\ Passed(n, m) /\ Mutual(m, n) /\ Mutual(n, m)
    BY DEF Together
  <2>2. doc'[n] = doc[n] /\ outgoing'[n] = outgoing[n] /\ incoming'[n] = incoming[n]
    BY DEF Only
  <2>3. Passed(m, n)'
    <3>1. PassedTrue(incoming[m], doc[n], outgoing[n], incoming[n])
            => PassedTrue(incoming'[m], doc[n], outgoing[n], incoming[n])
      BY <1>2, PassedRead
    <3> QED BY <2>1, <2>2, <3>1 DEF Passed
  <2>4. Passed(n, m)'
    BY <2>1, GrowsPassed DEF Passed
  <2>5. Mutual(m, n)'
    BY <2>1, GrowsNamed, GrowsShares DEF Mutual, Passed
  <2>6. Mutual(n, m)'
    <3>1. SUFFICES ASSUME m \in linked, n \in linked, n \in opened PROVE
            /\ NamedTrue(hushed, doc[n], outgoing[n], incoming[n], doc[m], outgoing[m], incoming[m])'
            /\ SharedTrue(doc[n], outgoing[n], incoming[n], doc[m], outgoing[m], incoming[m])'
      BY DEF Mutual
    <3>2. NamedTrue(hushed, doc[n], outgoing[n], incoming[n], doc[m], outgoing[m], incoming[m])'
      BY <2>5, <3>1, NamedBoth DEF Mutual
    <3>3. SharedTrue(doc[n], outgoing[n], incoming[n], doc[m], outgoing[m], incoming[m])'
      BY <2>1, <3>1, GrowsShared DEF Mutual
    <3> QED BY <3>2, <3>3
  <2> QED BY <2>3, <2>4, <2>5, <2>6
<1> QED BY <1>4, <1>5, <1>6, OnlyTogether

(* A member announces its document and asks for what others have of it. *)
Introduces(m) ==
  /\ Longer(outgoing[m], outgoing'[m])
  /\ \A k \in NewOut(m) : outgoing'[m][k].kind \in {"baseline", "step1"}
  /\ \E k \in NewOut(m) : k \in Asking(outgoing'[m], doc'[m].tag.id)

LEMMA IntroducesAsks ==
  ASSUME NEW m, Introduces(m)
  PROVE  /\ Asking(outgoing'[m], doc'[m].tag.id) # {}
         /\ Naming(outgoing'[m], doc'[m].tag.id) # {}
         /\ SentTrue(doc'[m], outgoing'[m])
         /\ \A k \in NewOut(m) : Unmarked(outgoing'[m][k])
<1> DEFINE x == doc'[m].tag.id
<1>1. PICK j \in NewOut(m) : j \in Asking(outgoing'[m], x)
  BY DEF Introduces
<1>2. /\ \A k \in DOMAIN outgoing[m] : j > k
      /\ \A k \in DOMAIN outgoing'[m] : k \in DOMAIN outgoing[m] \/ k \in NewOut(m)
      /\ \A k \in NewOut(m) : outgoing'[m][k].kind \in {"baseline", "step1"}
  BY DEF Introduces, Longer, NewOut
<1>3. \A k \in NewOut(m) : Unmarked(outgoing'[m][k]) /\ ItemsOf(outgoing'[m][k], x) = {}
  BY <1>2 DEF Unmarked, ItemsOf
<1>4. SentTrue(doc'[m], outgoing'[m])
  BY <1>1, <1>2, <1>3 DEF SentTrue
<1>5. j \in Naming(outgoing'[m], x)
  BY <1>1 DEF Naming, Asking
<1> QED BY <1>1, <1>3, <1>4, <1>5

(* A new document, of the baseline alone. *)
Renews(m) ==
  /\ doc'[m].items = Seeds(doc'[m].tag.id) /\ doc'[m].gone = {}
  /\ Introduces(m)
  /\ incoming'[m] = incoming[m] \/ Taken(incoming[m], incoming'[m])

LEMMA RenewsTogether ==
  ASSUME Together, NEW m \in Members, Only(m), UNCHANGED linked, Renews(m)
  PROVE  Together'
<1>1. Plain(m) /\ Alone(m) /\ Introduces(m)
  BY DEF Together, Renews
<1>2. \/ incoming'[m] = incoming[m]
      \/ Taken(incoming[m], incoming'[m]) /\ 1 \in DOMAIN incoming[m]
  BY DEF Renews, Taken
<1>3. incoming[m] = <<>> => incoming'[m] = <<>>
  BY <1>2
<1>4. /\ Asking(outgoing'[m], doc'[m].tag.id) # {} /\ Naming(outgoing'[m], doc'[m].tag.id) # {}
      /\ SentTrue(doc'[m], outgoing'[m]) /\ \A k \in NewOut(m) : Unmarked(outgoing'[m][k])
  BY <1>1, IntroducesAsks
<1>5. Plain(m)'
  <2>1. \A k \in DOMAIN outgoing'[m] : Unmarked(outgoing'[m][k])
    BY <1>1, <1>4 DEF Plain, Introduces, NewOut, Longer
  <2>2. \A k \in DOMAIN incoming'[m] : Unmarked(incoming'[m][k])
    BY <1>1, <1>2 DEF Plain, Taken
  <2> QED BY <1>1, <1>3, <2>1, <2>2 DEF Plain, Renews
<1>6. Alone(m)'
  BY <1>4 DEF Alone, KeptTrue, Renews
<1>7. ASSUME NEW n \in Members \ {m}
      PROVE  Passed(m, n)' /\ Passed(n, m)' /\ Mutual(m, n)' /\ Mutual(n, m)'
  <2>1. Passed(m, n) /\ Plain(n)
    BY DEF Together
  <2>2. doc'[n] = doc[n] /\ outgoing'[n] = outgoing[n] /\ incoming'[n] = incoming[n]
        /\ (n \in opened' <=> n \in opened)
    BY DEF Only
  <2>3. Passed(m, n)'
    <3>1. PassedTrue(incoming[m], doc[n], outgoing[n], incoming[n])
            => PassedTrue(incoming'[m], doc[n], outgoing[n], incoming[n])
      BY <1>2, PassedRead
    <3> QED BY <2>1, <2>2, <3>1 DEF Passed
  <2>4. Passed(n, m)'
    BY <1>4 DEF Passed, PassedTrue
  <2>5. Mutual(m, n)'
    <3>1. doc'[m].tag.id = doc[n].tag.id => doc'[m].items \subseteq doc[n].items
      BY <2>1 DEF Renews, Plain
    <3> QED BY <1>4, <2>2, <3>1 DEF Mutual, NamedTrue, SharedTrue, Gets
  <2>6. Mutual(n, m)'
    BY <1>4 DEF Mutual, NamedTrue, SharedTrue
  <2> QED BY <2>3, <2>4, <2>5, <2>6
<1> QED BY <1>5, <1>6, <1>7, OnlyTogether

(* A member comes into the room: what it has kept goes out first. *)
LEMMA LinksTogether ==
  ASSUME Together, NEW m \in Members \ linked, Only(m), UNCHANGED opened,
         linked' = linked \cup {m}, doc'[m] = doc[m], incoming'[m] = <<>>,
         IF m \in opened THEN Introduces(m) ELSE outgoing'[m] = outgoing[m]
  PROVE  Together'
<1>1. Plain(m) /\ Alone(m)
  BY DEF Together
<1>2. ASSUME m \in opened
      PROVE  /\ Asking(outgoing'[m], doc[m].tag.id) # {} /\ Naming(outgoing'[m], doc[m].tag.id) # {}
             /\ SentTrue(doc[m], outgoing'[m]) /\ \A k \in NewOut(m) : Unmarked(outgoing'[m][k])
             /\ Longer(outgoing[m], outgoing'[m])
  BY <1>2, IntroducesAsks DEF Introduces
<1>3. Plain(m)'
  <2>1. \A k \in DOMAIN outgoing'[m] : Unmarked(outgoing'[m][k])
    BY <1>1, <1>2 DEF Plain, NewOut, Longer
  <2> QED BY <1>1, <2>1 DEF Plain
<1>4. Alone(m)'
  BY <1>2 DEF Alone
<1>5. ASSUME NEW n \in Members \ {m}
      PROVE  Passed(m, n)' /\ Passed(n, m)' /\ Mutual(m, n)' /\ Mutual(n, m)'
  <2>1. Plain(n)
    BY DEF Together
  <2>2. doc'[n] = doc[n] /\ outgoing'[n] = outgoing[n] /\ incoming'[n] = incoming[n]
    BY DEF Only
  <2>3. Passed(m, n)' /\ Passed(n, m)'
    BY <1>2 DEF Passed, PassedTrue
  <2>4. Mutual(m, n)'
    <3> SUFFICES ASSUME m \in opened PROVE Mutual(m, n)'
      BY DEF Mutual
    <3>1. KeptTrue(doc[m], outgoing[m])
      BY <1>1 DEF Alone
    <3>2. ASSUME NEW i \in doc[m].items, doc[m].tag.id = doc[n].tag.id
          PROVE  i \in doc[n].items \/ Bringing(outgoing'[m], doc[n].tag.id, i) # {}
      <4>1. i \in Seeds(doc[m].tag.id) \/ Bringing(outgoing[m], doc[m].tag.id, i) # {}
        BY <3>1, <3>2 DEF KeptTrue
      <4>2. Bringing(outgoing[m], doc[m].tag.id, i) \subseteq Bringing(outgoing'[m], doc[m].tag.id, i)
        BY <1>2, StillThere
      <4> QED BY <2>1, <3>2, <4>1, <4>2 DEF Plain
    <3> QED BY <1>2, <2>2, <3>2 DEF Mutual, NamedTrue, SharedTrue, Gets
  <2>5. Mutual(n, m)'
    BY <1>2 DEF Mutual, NamedTrue, SharedTrue
  <2> QED BY <2>3, <2>4, <2>5
<1> QED BY <1>3, <1>4, <1>5, OnlyTogether

(* A member without the note drops what it reads. *)
LEMMA DropsTogether ==
  ASSUME Together, NEW m \in Members \ opened, Only(m), UNCHANGED <<linked, opened>>,
         doc'[m] = doc[m], outgoing'[m] = outgoing[m], Taken(incoming[m], incoming'[m])
  PROVE  Together'
<1>1. Plain(m)'
  <2>1. Plain(m) /\ m \in linked
    BY DEF Together, Plain, Taken
  <2> QED BY <2>1 DEF Plain, Taken
<1>2. Alone(m)'
  BY DEF Alone
<1>3. ASSUME NEW n \in Members \ {m}
      PROVE  Passed(m, n)' /\ Passed(n, m)' /\ Mutual(m, n)' /\ Mutual(n, m)'
  <2>1. Passed(m, n)
    BY DEF Together
  <2>2. doc'[n] = doc[n] /\ outgoing'[n] = outgoing[n] /\ incoming'[n] = incoming[n]
    BY DEF Only
  <2>3. Passed(m, n)'
    <3>1. PassedTrue(incoming[m], doc[n], outgoing[n], incoming[n])
            => PassedTrue(incoming'[m], doc[n], outgoing[n], incoming[n])
      BY PassedRead
    <3> QED BY <2>1, <2>2, <3>1 DEF Passed
  <2>4. Passed(n, m)' /\ Mutual(m, n)' /\ Mutual(n, m)'
    BY DEF Passed, Mutual
  <2> QED BY <2>3, <2>4
<1> QED BY <1>1, <1>2, <1>3, OnlyTogether

LEMMA ClosesTogether ==
  ASSUME Together, NEW m \in Members, Only(m), UNCHANGED linked, opened' = opened \ {m},
         doc'[m].gone = {}, Seeds(doc'[m].tag.id) \subseteq doc'[m].items,
         outgoing'[m] = outgoing[m], incoming'[m] = incoming[m]
  PROVE  Together'
<1>1. Plain(m)' /\ Alone(m)'
  BY DEF Together, Plain, Alone
<1>2. ASSUME NEW n \in Members \ {m}
      PROVE  Passed(m, n)' /\ Passed(n, m)' /\ Mutual(m, n)' /\ Mutual(n, m)'
  <2>1. Passed(m, n)
    BY DEF Together
  <2>2. doc'[n] = doc[n] /\ outgoing'[n] = outgoing[n] /\ incoming'[n] = incoming[n]
    BY DEF Only
  <2> QED BY <2>1, <2>2 DEF Passed, Mutual
<1> QED BY <1>1, <1>2, OnlyTogether

-------------------------------------------------------------------------------
(* The server hands a frame on. *)

Ends(q, r, f) ==
  Longer(q, r) /\ \E l \in DOMAIN r \ DOMAIN q : r[l] = f /\ DOMAIN r = DOMAIN q \cup {l}

LEMMA EndsAppend ==
  ASSUME NEW S, NEW q \in Seq(S), NEW f PROVE Ends(q, Append(q, f), f)
<1> DEFINE l == Len(q) + 1
           r == Append(q, f)
<1>1. /\ Len(q) \in Nat /\ DOMAIN q = 1..Len(q) /\ DOMAIN r = 1..l
      /\ \A k \in DOMAIN q : r[k] = q[k]
      /\ r[l] = f
  OBVIOUS
<1>2. /\ l \in DOMAIN r \ DOMAIN q /\ DOMAIN r = DOMAIN q \cup {l}
      /\ \A k \in DOMAIN q : l > k
  BY <1>1
<1> HIDE DEF l, r
<1>3. Ends(q, r, f)
  BY <1>1, <1>2 DEF Ends, Longer
<1> QED BY <1>3 DEF r

LEMMA EndsHas ==
  ASSUME NEW q, NEW r, NEW f, Ends(q, r, f), NEW x
  PROVE  /\ f.tag.id = x => Naming(r, x) # {}
         /\ f.kind = "step1" /\ f.tag.id = x => Asking(r, x) # {}
         /\ \A i \in ItemsOf(f, x) : Bringing(r, x, i) # {}
BY DEF Ends, Naming, Asking, Bringing

Relays(m) ==
  /\ UNCHANGED <<doc, linked, opened, hushed>>
  /\ m \in linked /\ Taken(outgoing[m], outgoing'[m])
  /\ \A n \in Members \ {m} : outgoing'[n] = outgoing[n]
  /\ incoming'[m] = incoming[m]
  /\ \A n \in Members \ {m} : IF n \in linked THEN Ends(incoming[n], incoming'[n], outgoing[m][1])
                              ELSE incoming'[n] = incoming[n]

LEMMA RelaysOn ==
  ASSUME NEW m \in Members, Relays(m), NEW n \in Members, NEW x
  PROVE  /\ Naming(incoming[n], x) \subseteq Naming(incoming'[n], x)
         /\ Asking(incoming[n], x) \subseteq Asking(incoming'[n], x)
         /\ \A i : Bringing(incoming[n], x, i) \subseteq Bringing(incoming'[n], x, i)
<1>1. incoming'[n] = incoming[n] \/ Longer(incoming[n], incoming'[n])
  BY DEF Relays, Ends
<1> QED BY <1>1, StillThere

LEMMA RelaysGets ==
  ASSUME NEW m \in Members, Relays(m), NEW n \in Members, NEW i, Gets(doc[n], incoming[n], i)
  PROVE  Gets(doc[n], incoming'[n], i)
<1>1. Bringing(incoming[n], doc[n].tag.id, i) \subseteq Bringing(incoming'[n], doc[n].tag.id, i)
  BY RelaysOn
<1> QED BY <1>1 DEF Gets

LEMMA RelaysNamed ==
  ASSUME NEW m \in Members, Relays(m), NEW a \in linked, NEW b \in linked, a # b,
         a \in Members, b \in Members,
         NamedTrue(hushed, doc[a], outgoing[a], incoming[a], doc[b], outgoing[b], incoming[b])
  PROVE  NamedTrue(hushed, doc[a], outgoing'[a], incoming'[a], doc[b], outgoing'[b], incoming'[b])
<1> DEFINE x == doc[a].tag.id
           y == doc[b].tag.id
<1>1. /\ Naming(incoming[a], y) # {} => Naming(incoming'[a], y) # {}
      /\ Naming(incoming[b], x) # {} => Naming(incoming'[b], x) # {}
  BY RelaysOn
<1>2. Naming(outgoing[a], x) # {} => Naming(outgoing'[a], x) # {} \/ Naming(incoming'[b], x) # {}
  <2>1. CASE a = m
    <3>1. Taken(outgoing[a], outgoing'[a]) /\ Ends(incoming[b], incoming'[b], outgoing[a][1])
      BY <2>1 DEF Relays
    <3> QED BY <3>1, LeftThere, EndsHas
  <2>2. CASE a # m
    BY <2>2 DEF Relays
  <2> QED BY <2>1, <2>2
<1>3. Naming(outgoing[b], y) # {} => Naming(outgoing'[b], y) # {} \/ Naming(incoming'[a], y) # {}
  <2>1. CASE b = m
    <3>1. Taken(outgoing[b], outgoing'[b]) /\ Ends(incoming[a], incoming'[a], outgoing[b][1])
      BY <2>1 DEF Relays
    <3> QED BY <3>1, LeftThere, EndsHas
  <2>2. CASE b # m
    BY <2>2 DEF Relays
  <2> QED BY <2>1, <2>2
<1> QED BY <1>1, <1>2, <1>3 DEF NamedTrue

LEMMA RelaysShared ==
  ASSUME NEW m \in Members, Relays(m), NEW a \in linked, NEW b \in linked, a # b,
         a \in Members, b \in Members,
         SharedTrue(doc[a], outgoing[a], incoming[a], doc[b], outgoing[b], incoming[b])
  PROVE  SharedTrue(doc[a], outgoing'[a], incoming'[a], doc[b], outgoing'[b], incoming'[b])
<1> DEFINE y == doc[b].tag.id
<1>1. Asking(incoming[a], y) # {} => Asking(incoming'[a], y) # {}
  BY RelaysOn
<1>2. Asking(outgoing[b], y) # {} => Asking(outgoing'[b], y) # {} \/ Asking(incoming'[a], y) # {}
  <2>1. CASE b = m
    <3>1. Taken(outgoing[b], outgoing'[b]) /\ Ends(incoming[a], incoming'[a], outgoing[b][1])
      BY <2>1 DEF Relays
    <3> QED BY <3>1, LeftThere, EndsHas
  <2>2. CASE b # m
    BY <2>2 DEF Relays
  <2> QED BY <2>1, <2>2
<1>3. ASSUME NEW i, Gets(doc[b], incoming[b], i) \/ Bringing(outgoing[a], y, i) # {}
      PROVE  Gets(doc[b], incoming'[b], i) \/ Bringing(outgoing'[a], y, i) # {}
  <2>1. CASE Gets(doc[b], incoming[b], i)
    BY <2>1, RelaysGets
  <2>2. CASE Bringing(outgoing[a], y, i) # {} /\ a = m
    <3>1. Taken(outgoing[a], outgoing'[a]) /\ Ends(incoming[b], incoming'[b], outgoing[a][1])
      BY <2>2 DEF Relays
    <3>2. Bringing(outgoing'[a], y, i) # {} \/ i \in ItemsOf(outgoing[a][1], y)
      BY <2>2, <3>1, LeftBringing
    <3>3. i \in ItemsOf(outgoing[a][1], y) => Bringing(incoming'[b], y, i) # {}
      BY <3>1, EndsHas
    <3> QED BY <3>2, <3>3 DEF Gets
  <2>3. CASE Bringing(outgoing[a], y, i) # {} /\ a # m
    BY <2>3 DEF Relays
  <2> QED BY <1>3, <2>1, <2>2, <2>3
<1> QED BY <1>1, <1>2, <1>3 DEF SharedTrue

(* The frame comes to b as well, or b has sent it. *)
LEMMA RelaysPassed ==
  ASSUME NEW m \in Members, Relays(m), NEW a \in linked, NEW b \in linked, a # b,
         a \in Members, b \in Members, SentTrue(doc[b], outgoing[b]),
         PassedTrue(incoming[a], doc[b], outgoing[b], incoming[b])
  PROVE  PassedTrue(incoming'[a], doc[b], outgoing'[b], incoming'[b])
<1> DEFINE y == doc[b].tag.id
           f == outgoing[m][1]
<1> SUFFICES ASSUME Asking(outgoing'[b], y) = {}, NEW k \in DOMAIN incoming'[a],
                    NEW i \in ItemsOf(incoming'[a][k], y)
             PROVE  Gets(doc[b], incoming'[b], i) \/ \E j \in Asking(incoming'[a], y) : j > k
  BY DEF PassedTrue
<1>1. Asking(incoming[a], y) \subseteq Asking(incoming'[a], y)
  BY RelaysOn
<1>2. Asking(outgoing[b], y) # {} => b = m /\ f.kind = "step1" /\ f.tag.id = y
  <2>1. CASE b = m
    <3>1. Taken(outgoing[b], outgoing'[b])
      BY <2>1 DEF Relays
    <3> QED BY <2>1, <3>1, LeftThere
  <2>2. CASE b # m
    BY <2>2 DEF Relays
  <2> QED BY <2>1, <2>2
<1>3. CASE a = m
  <2>1. incoming'[a] = incoming[a] /\ Asking(outgoing[b], y) = {}
    BY <1>2, <1>3 DEF Relays
  <2>2. Gets(doc[b], incoming[b], i) \/ \E j \in Asking(incoming[a], y) : j > k
    BY <2>1 DEF PassedTrue
  <2> QED BY <1>1, <2>2, RelaysGets
<1>4. CASE a # m
  <2>1. Ends(incoming[a], incoming'[a], f)
    BY <1>4 DEF Relays
  <2>2. PICK l \in DOMAIN incoming'[a] \ DOMAIN incoming[a] :
          /\ incoming'[a][l] = f /\ DOMAIN incoming'[a] = DOMAIN incoming[a] \cup {l}
          /\ \A n \in DOMAIN incoming[a] : l > n /\ incoming'[a][n] = incoming[a][n]
    BY <2>1 DEF Ends, Longer
  <2>3. CASE k = l /\ b # m
    <3>1. Ends(incoming[b], incoming'[b], f)
      BY <2>3 DEF Relays
    <3> QED BY <2>2, <2>3, <3>1, EndsHas DEF Gets
  <2>4. CASE k = l /\ b = m
    <3>1. Taken(outgoing[b], outgoing'[b])
      BY <2>4 DEF Relays
    <3>2. 1 \in DOMAIN outgoing[b] /\ i \in ItemsOf(outgoing[b][1], y)
      BY <2>2, <2>4, <3>1 DEF Taken
    <3>3. i \in doc[b].items \/ \E j \in Asking(outgoing[b], y) : j > 1
      BY <3>2 DEF SentTrue
    <3>4. \A j \in Asking(outgoing[b], y) : j > 1 => j - 1 \in Asking(outgoing'[b], y)
      BY <3>1, LeftThere
    <3> QED BY <3>3, <3>4 DEF Gets
  <2>5. CASE k # l /\ Asking(outgoing[b], y) = {}
    <3>1. k \in DOMAIN incoming[a] /\ i \in ItemsOf(incoming[a][k], y)
      BY <2>2, <2>5
    <3>2. Gets(doc[b], incoming[b], i) \/ \E j \in Asking(incoming[a], y) : j > k
      BY <2>5, <3>1 DEF PassedTrue
    <3> QED BY <1>1, <3>2, RelaysGets
  <2>6. CASE k # l /\ Asking(outgoing[b], y) # {}
    <3>1. l \in Asking(incoming'[a], y) /\ l > k
      BY <1>2, <2>2, <2>6 DEF Asking
    <3> QED BY <3>1
  <2> QED BY <2>3, <2>4, <2>5, <2>6
<1> QED BY <1>3, <1>4

LEMMA RelaysTogether ==
  ASSUME Together, linked \subseteq Members, NEW m \in Members, Relays(m) PROVE Together'
<1>1. UNCHANGED <<doc, linked, opened, hushed>>
  BY DEF Relays
<1>2. ASSUME NEW n \in Members PROVE Plain(n)' /\ Alone(n)'
  <2>1. Plain(n) /\ Alone(n) /\ Plain(m)
    BY DEF Together
  <2>2. \A k \in DOMAIN outgoing'[n] : Unmarked(outgoing'[n][k])
    BY <2>1 DEF Plain, Relays, Taken
  <2>3. \A k \in DOMAIN incoming'[n] : Unmarked(incoming'[n][k])
    <3>1. Unmarked(outgoing[m][1])
      BY <2>1 DEF Plain, Relays, Taken
    <3> QED BY <2>1, <3>1 DEF Plain, Relays, Ends, Longer
  <2>4. n \notin linked => incoming'[n] = <<>>
    BY <2>1 DEF Plain, Relays
  <2>5. Alone(n)'
    <3>1. CASE n = m
      BY <1>1, <2>1, <3>1, SentRead DEF Alone, Relays
    <3>2. CASE n # m
      BY <1>1, <2>1, <3>2 DEF Alone, Relays
    <3> QED BY <3>1, <3>2
  <2> QED BY <1>1, <2>1, <2>2, <2>3, <2>4, <2>5 DEF Plain
<1>3. ASSUME NEW a \in Members, NEW b \in Members, a # b PROVE Passed(a, b)' /\ Mutual(a, b)'
  <2>1. Passed(a, b) /\ Mutual(a, b) /\ Alone(b)
    BY <1>3 DEF Together
  <2>2. Passed(a, b)'
    <3> SUFFICES ASSUME a \in linked, b \in linked, b \in opened
                 PROVE  PassedTrue(incoming'[a], doc[b], outgoing'[b], incoming'[b])
      BY <1>1 DEF Passed
    <3> QED BY <1>3, <2>1, RelaysPassed DEF Passed, Alone
  <2>3. Mutual(a, b)'
    <3> SUFFICES ASSUME a \in linked, b \in linked, a \in opened, b \in opened
                 PROVE  /\ NamedTrue(hushed, doc[a], outgoing'[a], incoming'[a],
                                     doc[b], outgoing'[b], incoming'[b])
                        /\ SharedTrue(doc[a], outgoing'[a], incoming'[a],
                                      doc[b], outgoing'[b], incoming'[b])
      BY <1>1 DEF Mutual
    <3> QED BY <1>3, <2>1, RelaysNamed, RelaysShared DEF Mutual
  <2> QED BY <2>2, <2>3
<1> QED BY <1>2, <1>3 DEF Together

-------------------------------------------------------------------------------
(* Every action is such a step. *)

LEMMA SendOne ==
  ASSUME WireSound, NEW m \in Members, NEW f, Send(m, <<f>>)
  PROVE  /\ Longer(outgoing[m], outgoing'[m])
         /\ \A k \in NewOut(m) : outgoing'[m][k] = f
         /\ \E k \in NewOut(m) : outgoing'[m][k] = f
         /\ \A n \in Members \ {m} : outgoing'[n] = outgoing[n]
<1> DEFINE q == outgoing[m]
           r == outgoing'[m]
<1>1. q \in Seq(SoundFrames) /\ r = q \o <<f>> /\ \A n \in Members \ {m} : outgoing'[n] = outgoing[n]
  BY DEF WireSound, Send
<1> HIDE DEF q, r
<1>2. /\ Len(q) \in Nat /\ DOMAIN q = 1..Len(q) /\ DOMAIN r = 1..(Len(q) + 1)
      /\ \A k \in 1..Len(q) : r[k] = q[k]
      /\ r[Len(q) + 1] = f
  BY <1>1
<1>3. Longer(q, r)
  BY <1>2 DEF Longer
<1>4. DOMAIN r \ DOMAIN q = {Len(q) + 1}
  BY <1>2
<1> QED BY <1>1, <1>2, <1>3, <1>4 DEF q, r, NewOut

LEMMA SendTwo ==
  ASSUME WireSound, NEW m \in Members, NEW f, NEW g, Send(m, <<f, g>>)
  PROVE  /\ Longer(outgoing[m], outgoing'[m])
         /\ \A k \in NewOut(m) : outgoing'[m][k] = f \/ outgoing'[m][k] = g
         /\ \E k \in NewOut(m) : outgoing'[m][k] = g
         /\ \A n \in Members \ {m} : outgoing'[n] = outgoing[n]
<1> DEFINE q == outgoing[m]
           r == outgoing'[m]
<1>1. q \in Seq(SoundFrames) /\ r = q \o <<f, g>> /\ \A n \in Members \ {m} : outgoing'[n] = outgoing[n]
  BY DEF WireSound, Send
<1> HIDE DEF q, r
<1>2. /\ Len(q) \in Nat /\ DOMAIN q = 1..Len(q) /\ DOMAIN r = 1..(Len(q) + 2)
      /\ \A k \in 1..Len(q) : r[k] = q[k]
      /\ r[Len(q) + 1] = f /\ r[Len(q) + 2] = g
  BY <1>1
<1>3. Longer(q, r)
  BY <1>2 DEF Longer
<1>4. DOMAIN r \ DOMAIN q = {Len(q) + 1, Len(q) + 2}
  BY <1>2
<1> QED BY <1>1, <1>2, <1>3, <1>4 DEF q, r, NewOut

LEMMA SendIntroduces ==
  ASSUME WireSound, NEW m \in Members, NEW d, doc'[m].tag = d.tag,
         Send(m, <<Step1(d)>>) \/ Send(m, <<Baseline(d), Step1(d)>>)
  PROVE  Introduces(m) /\ \A n \in Members \ {m} : outgoing'[n] = outgoing[n]
<1> DEFINE f == Baseline(d)
           g == Step1(d)
<1>1. f.kind = "baseline" /\ g.kind = "step1" /\ g.tag = d.tag
  BY DEF Baseline, Step1
<1> HIDE DEF f, g
<1>2. /\ Longer(outgoing[m], outgoing'[m])
      /\ \A k \in NewOut(m) : outgoing'[m][k] = f \/ outgoing'[m][k] = g
      /\ \E k \in NewOut(m) : outgoing'[m][k] = g
      /\ \A n \in Members \ {m} : outgoing'[n] = outgoing[n]
  <2>1. CASE Send(m, <<Step1(d)>>)
    BY <2>1, SendOne DEF g
  <2>2. CASE Send(m, <<Baseline(d), Step1(d)>>)
    BY <2>2, SendTwo DEF f, g
  <2> QED BY <2>1, <2>2
<1> QED BY <1>1, <1>2 DEF Introduces, Asking, NewOut

LEMMA SeedsOf ==
  ASSUME NEW tag
  PROVE  LET d == Seeded(tag) IN d.tag = tag /\ d.items = Seeds(tag.id) /\ d.gone = {}
BY DEF Seeded, Seeds

LEMMA NothingNew ==
  ASSUME NEW m, outgoing'[m] = outgoing[m] PROVE Longer(outgoing[m], outgoing'[m]) /\ NewOut(m) = {}
BY LongerSame DEF NewOut

LEMMA OpenTogether == ASSUME NoteInv, Together, NEW m \in Members, Open(m) PROVE Together'
<1>1. PICK d : /\ \E tag : d = Seeded(tag)
               /\ doc' = [doc EXCEPT ![m] = d] /\ opened' = opened \cup {m}
               /\ Send(m, <<Baseline(d), Step1(d)>>)
               /\ UNCHANGED <<linked, incoming, noteHistory>>
  BY DEF Open
<1>2. /\ WireSound /\ doc \in [Members -> SoundDocs]
  BY DEF NoteInv
<1>3. /\ doc'[m] = d /\ \A n \in Members \ {m} : doc'[n] = doc[n]
      /\ UNCHANGED <<linked, incoming, hushed>>
  BY <1>1, <1>2 DEF noteHistory
<1>4. d.items = Seeds(d.tag.id) /\ d.gone = {}
  BY <1>1, SeedsOf
<1>5. Introduces(m) /\ \A n \in Members \ {m} : outgoing'[n] = outgoing[n]
  BY <1>1, <1>2, <1>3, SendIntroduces
<1>6. Only(m) /\ Renews(m)
  BY <1>1, <1>3, <1>4, <1>5 DEF Only, Renews
<1> QED BY <1>3, <1>6, RenewsTogether

LEMMA CloseTogether == ASSUME NoteInv, Together, NEW m \in Members, Close(m) PROVE Together'
<1>1. /\ opened' = opened \ {m} /\ doc' = [doc EXCEPT ![m] = Seeded(NullTag)]
      /\ UNCHANGED <<linked, outgoing, incoming, hushed>>
      /\ doc \in [Members -> SoundDocs]
  BY DEF Close, wireVars, noteHistory, NoteInv
<1>2. /\ doc'[m] = Seeded(NullTag) /\ \A n \in Members \ {m} : doc'[n] = doc[n]
  BY <1>1
<1>3. doc'[m].gone = {} /\ Seeds(doc'[m].tag.id) \subseteq doc'[m].items
  BY <1>2, SeedsOf
<1>4. Only(m)
  BY <1>1, <1>2 DEF Only
<1> QED BY <1>1, <1>3, <1>4, ClosesTogether

(* What is typed is sent. *)
LEMMA TypeTogether == ASSUME NoteInv, Together, NEW m \in Members, Type(m) PROVE Together'
<1> DEFINE line == <<m, typed[m] + 1>>
           text == Text(m) \cup {line}
           d == Edited(m, text)
           new == d.items \ doc[m].items
           x == doc[m].tag.id
           f == Updated(d, new)
<1>1. /\ SeatsTyped /\ WireSound /\ OwnNumbered(m) /\ doc \in [Members -> SoundDocs]
      /\ m \in opened /\ typed[m] < MaxTyped
      /\ doc' = [doc EXCEPT ![m] = d] /\ Send(m, <<f>>)
      /\ UNCHANGED <<opened, linked, incoming, hushed>>
  BY DEF NoteInv, SeatSound, Type, noteHistory
<1>2. text \in SUBSET Lines
  <2>1. Text(m) \in SUBSET Lines /\ typed[m] \in 0..MaxTyped /\ MaxTyped \in Nat
    BY <1>1, DocParts, NoteAssumption DEF SeatsTyped
  <2>2. typed[m] + 1 \in 1..MaxTyped
    BY <1>1, <2>1
  <2> QED BY <2>1, <2>2 DEF Lines
<1>3. Text(m) \ text = {}
  OBVIOUS
<1> HIDE DEF text
<1>4. /\ d.tag = doc[m].tag /\ doc[m].items \subseteq d.items
      /\ \A i \in d.gone \ doc[m].gone : i.line \in Text(m) \ text
  BY <1>1, <1>2, EditedSound
<1>5. d.gone = {}
  BY <1>3, <1>4 DEF Together, Plain
<1> HIDE DEF d
<1>6. doc'[m] = d /\ \A n \in Members \ {m} : doc'[n] = doc[n]
  BY <1>1
<1>7. ItemsOf(f, x) = new /\ Unmarked(f) /\ new \subseteq d.items
  BY <1>4 DEF ItemsOf, Unmarked, Updated
<1> HIDE DEF f
<1>8. /\ Longer(outgoing[m], outgoing'[m])
      /\ \A k \in NewOut(m) : outgoing'[m][k] = f
      /\ \E k \in NewOut(m) : outgoing'[m][k] = f
      /\ \A n \in Members \ {m} : outgoing'[n] = outgoing[n]
  BY <1>1, SendOne
<1>9. \A i \in new : Bringing(outgoing'[m], x, i) # {}
  BY <1>7, <1>8 DEF Bringing, NewOut
<1>10. Grows(m)
  BY <1>1, <1>4, <1>5, <1>6, <1>7, <1>8, <1>9 DEF Grows
<1>11. Only(m)
  BY <1>1, <1>6, <1>8 DEF Only
<1> QED BY <1>1, <1>10, <1>11, GrowsTogether

(* Only saves that change no document are left. *)
LEMMA SaveWriteTogether ==
  ASSUME NoteInv, Together, NEW m \in Members, SaveWrite(m), ~aligned' PROVE Together'
<1>1. /\ doc' = [doc EXCEPT ![m] = Edited(m, Text(m))]
      /\ UNCHANGED <<opened, linked, outgoing, incoming, hushed>>
      /\ doc \in [Members -> SoundDocs]
  BY DEF SaveWrite, wireVars, NoteInv
<1>2. /\ doc[m] = [tag |-> doc[m].tag, items |-> doc[m].items, gone |-> doc[m].gone]
  BY <1>1 DEF SoundDocs, DocsOver
<1>3. Len(SetToSeq({})) = 0
  BY FS_EmptySet, Listed
<1>4. /\ Edited(m, Text(m)).tag = doc[m].tag /\ Edited(m, Text(m)).items = doc[m].items
      /\ Edited(m, Text(m)).gone = doc[m].gone
  <2>1. Text(m) \ Text(m) = {} /\ 1..0 = {}
    OBVIOUS
  <2> QED BY <1>2, <1>3, <2>1 DEF Edited
<1>5. /\ doc'[m].tag = doc[m].tag /\ doc'[m].items = doc[m].items /\ doc'[m].gone = doc[m].gone
      /\ \A n \in Members \ {m} : doc'[n] = doc[n]
  BY <1>1, <1>4
<1>6. m \in opened
  BY DEF NoteInv, SeatsTyped, SeatSound, Fits, SaveWrite
<1>7. doc'[m].gone = {}
  BY <1>5 DEF Together, Plain
<1>8. Grows(m)
  BY <1>1, <1>5, <1>7, NothingNew DEF Grows
<1>9. Only(m)
  BY <1>1, <1>5 DEF Only
<1> QED BY <1>1, <1>6, <1>8, <1>9, GrowsTogether

LEMMA LinkTogether == ASSUME NoteInv, Together, NEW m \in Members, Link(m) PROVE Together'
<1>1. /\ m \notin linked /\ linked' = linked \cup {m}
      /\ incoming' = [incoming EXCEPT ![m] = <<>>] /\ incoming \in [Members -> Seq(SoundFrames)]
      /\ IF m \in opened THEN Send(m, <<Baseline(doc[m]), Step1(doc[m])>>) ELSE UNCHANGED outgoing
      /\ UNCHANGED <<doc, opened, hushed>> /\ WireSound
  BY DEF NoteInv, Link, docVars, noteHistory, WireSound
<1>2. /\ IF m \in opened THEN Introduces(m) ELSE outgoing'[m] = outgoing[m]
      /\ \A n \in Members \ {m} : outgoing'[n] = outgoing[n]
  BY <1>1, SendIntroduces
<1>3. incoming'[m] = <<>> /\ \A n \in Members \ {m} : incoming'[n] = incoming[n]
  BY <1>1
<1>4. Only(m)
  BY <1>1, <1>2, <1>3 DEF Only
<1> QED BY <1>1, <1>2, <1>3, <1>4, LinksTogether

LEMMA RelayTogether == ASSUME NoteInv, Together, NEW m \in Members, Relay(m) PROVE Together'
<1> DEFINE f == Head(outgoing[m])
<1>1. /\ m \in linked /\ outgoing[m] # <<>> /\ outgoing' = [outgoing EXCEPT ![m] = Tail(@)]
      /\ incoming' = [n \in Members |-> IF n \in linked \ {m} THEN Append(incoming[n], f)
                                        ELSE incoming[n]]
      /\ UNCHANGED <<doc, opened, linked, hushed>>
      /\ outgoing \in [Members -> Seq(SoundFrames)] /\ incoming \in [Members -> Seq(SoundFrames)]
      /\ linked \subseteq Members
  BY DEF NoteInv, SeatsTyped, WireSound, Relay, docVars, noteHistory
<1>2. /\ Taken(outgoing[m], Tail(outgoing[m])) /\ f = outgoing[m][1]
  BY <1>1, TakenTail
<1>3. outgoing'[m] = Tail(outgoing[m]) /\ \A n \in Members \ {m} : outgoing'[n] = outgoing[n]
  BY <1>1
<1>4. \A n \in Members : Ends(incoming[n], Append(incoming[n], f), f)
  BY <1>1, EndsAppend
<1> HIDE DEF f
<1>5. Relays(m)
  BY <1>1, <1>2, <1>3, <1>4 DEF Relays
<1> QED BY <1>1, <1>5, RelaysTogether

(* What receiving leaves alone of what the invariant is about. *)
LEMMA ReceiveReads ==
  ASSUME NoteInv, NEW m \in Members, Receive(m)
  PROVE  /\ Taken(incoming[m], incoming'[m]) /\ Head(incoming[m]) = incoming[m][1]
         /\ \A n \in Members \ {m} : incoming'[n] = incoming[n]
         /\ UNCHANGED <<opened, linked>>
<1>1. /\ incoming \in [Members -> Seq(SoundFrames)] /\ incoming[m] # <<>>
      /\ incoming' = [incoming EXCEPT ![m] = Tail(@)]
      /\ UNCHANGED <<opened, linked>>
  BY DEF NoteInv, WireSound, Receive
<1>2. Taken(incoming[m], Tail(incoming[m])) /\ Head(incoming[m]) = incoming[m][1]
  BY <1>1, TakenTail
<1> QED BY <1>1, <1>2

(* A new document, to which the seeds of its baseline belong. *)
LEMMA AdoptTogether ==
  ASSUME NoteInv, Together, NEW m \in Members, Receive(m), NEW f, AdoptBaseline(m, f)
  PROVE  Together'
<1>1. PICK d : /\ \E tag : d = Seeded(tag)
               /\ doc' = [doc EXCEPT ![m] = d]
               /\ Send(m, <<Step1(d)>>) \/ Send(m, <<Baseline(d), Step1(d)>>)
               /\ UNCHANGED hushed
  BY DEF AdoptBaseline
<1>2. WireSound /\ doc \in [Members -> SoundDocs]
  BY DEF NoteInv
<1>3. doc'[m] = d /\ \A n \in Members \ {m} : doc'[n] = doc[n]
  BY <1>1, <1>2
<1>4. d.items = Seeds(d.tag.id) /\ d.gone = {}
  BY <1>1, SeedsOf
<1>5. Introduces(m) /\ \A n \in Members \ {m} : outgoing'[n] = outgoing[n]
  BY <1>1, <1>2, <1>3, SendIntroduces
<1>6. Only(m) /\ Renews(m)
  BY <1>1, <1>3, <1>4, <1>5, ReceiveReads DEF Only, Renews
<1> QED BY <1>6, ReceiveReads, RenewsTogether

(* The answer to another baseline is the member's own, or there is none. *)
LEMMA ReplyTogether ==
  ASSUME NoteInv, Together, NEW m \in opened, Receive(m), incoming[m][1].tag.id # doc[m].tag.id,
         ReplyBaseline(m)
  PROVE  Together'
<1> DEFINE f == Baseline(doc[m])
           x == doc[m].tag.id
<1>1. m \in Members /\ WireSound
  BY DEF NoteInv, SeatsTyped
<1>2. f.kind = "baseline" /\ f.tag.id = x
  BY DEF Baseline
<1>3. doc' = doc /\ (hushed => hushed')
  BY DEF ReplyBaseline
<1>4. /\ m \in replied => hushed' /\ outgoing' = outgoing
      /\ m \notin replied => Send(m, <<f>>)
  BY DEF ReplyBaseline
<1> HIDE DEF f
<1>5. ItemsOf(f, x) = {} /\ Unmarked(f)
  BY <1>2 DEF ItemsOf, Unmarked
<1>6. /\ Longer(outgoing[m], outgoing'[m])
      /\ \A k \in NewOut(m) : outgoing'[m][k] = f
      /\ hushed' \/ \E k \in NewOut(m) : outgoing'[m][k] = f
      /\ \A n \in Members \ {m} : outgoing'[n] = outgoing[n]
  <2>1. CASE m \in replied
    BY <2>1, <1>4, NothingNew
  <2>2. CASE m \notin replied
    BY <2>2, <1>1, <1>4, SendOne
  <2> QED BY <2>1, <2>2
<1>7. hushed' \/ Naming(outgoing'[m], x) # {}
  BY <1>2, <1>6 DEF Naming, NewOut
<1>8. doc[m].gone = {} /\ ItemsOf(incoming[m][1], x) = {}
  BY <1>1 DEF Together, Plain, ItemsOf
<1>9. Taken(incoming[m], incoming'[m])
  BY <1>1, ReceiveReads
<1>10. Grows(m)
  BY <1>3, <1>5, <1>6, <1>7, <1>8, <1>9 DEF Grows
<1>11. Only(m)
  BY <1>1, <1>3, <1>6, ReceiveReads DEF Only
<1> QED BY <1>1, <1>10, <1>11, ReceiveReads, GrowsTogether

(* Asked, it sends all it has. *)
LEMMA AnswerTogether ==
  ASSUME NoteInv, Together, NEW m \in opened, Receive(m), incoming[m][1].kind = "step1",
         incoming[m][1].tag.id = doc[m].tag.id,
         Send(m, <<Step2(doc[m])>>), UNCHANGED <<doc, hushed>>
  PROVE  Together'
<1> DEFINE f == Step2(doc[m])
           x == doc[m].tag.id
<1>1. m \in Members /\ WireSound
  BY DEF NoteInv, SeatsTyped
<1>2. doc[m].gone = {}
  BY <1>1 DEF Together, Plain
<1>3. ItemsOf(f, x) = doc[m].items /\ Unmarked(f)
  BY <1>2 DEF Step2, ItemsOf, Unmarked
<1> HIDE DEF f
<1>4. Send(m, <<f>>)
  BY DEF f
<1>5. /\ Longer(outgoing[m], outgoing'[m])
      /\ \A k \in NewOut(m) : outgoing'[m][k] = f
      /\ \E k \in NewOut(m) : outgoing'[m][k] = f
      /\ \A n \in Members \ {m} : outgoing'[n] = outgoing[n]
  BY <1>1, <1>4, SendOne
<1>6. \A i \in doc[m].items : Bringing(outgoing'[m], x, i) # {}
  BY <1>3, <1>5 DEF Bringing, NewOut
<1>7. Taken(incoming[m], incoming'[m]) /\ ItemsOf(incoming[m][1], x) = {}
  BY <1>1, ReceiveReads DEF ItemsOf
<1>8. Grows(m)
  BY <1>2, <1>3, <1>5, <1>6, <1>7 DEF Grows
<1>9. Only(m)
  BY <1>1, <1>5, ReceiveReads DEF Only
<1> QED BY <1>1, <1>8, <1>9, ReceiveReads, GrowsTogether

(* What it is brought it takes. *)
LEMMA JoinTogether ==
  ASSUME NoteInv, Together, NEW m \in opened, Receive(m), NEW f, f = incoming[m][1],
         f.kind \in {"step2", "update"}, f.tag.id = doc[m].tag.id,
         doc' = [doc EXCEPT ![m].items = @ \cup f.items, ![m].gone = @ \cup f.gone],
         UNCHANGED <<outgoing, hushed>>
  PROVE  Together'
<1> DEFINE x == doc[m].tag.id
<1>1. m \in Members /\ doc \in [Members -> SoundDocs]
  BY DEF NoteInv, SeatsTyped
<1>2. Taken(incoming[m], incoming'[m])
  BY <1>1, ReceiveReads
<1>3. doc[m].gone = {} /\ f.gone = {}
  <2>1. 1 \in DOMAIN incoming[m] /\ Plain(m)
    BY <1>1, <1>2 DEF Taken, Together
  <2> QED BY <2>1 DEF Plain, Unmarked
<1>4. /\ doc'[m].tag = doc[m].tag /\ doc'[m].items = doc[m].items \cup f.items
      /\ doc'[m].gone = doc[m].gone \cup f.gone
      /\ \A n \in Members \ {m} : doc'[n] = doc[n]
  BY <1>1 DEF SoundDocs, DocsOver
<1>5. ItemsOf(f, x) = f.items
  BY DEF ItemsOf
<1>6. Longer(outgoing[m], outgoing'[m]) /\ NewOut(m) = {}
  BY NothingNew
<1>7. Grows(m)
  BY <1>2, <1>3, <1>4, <1>5, <1>6 DEF Grows
<1>8. Only(m)
  BY <1>1, <1>4, ReceiveReads DEF Only
<1> QED BY <1>1, <1>7, <1>8, ReceiveReads, GrowsTogether

LEMMA ReceiveTogether == ASSUME NoteInv, Together, NEW m \in Members, Receive(m) PROVE Together'
<1> DEFINE f == Head(incoming[m])
<1>1. /\ f = incoming[m][1] /\ Taken(incoming[m], incoming'[m])
      /\ \A n \in Members \ {m} : incoming'[n] = incoming[n]
      /\ UNCHANGED <<opened, linked>>
  BY ReceiveReads
<1>2. f.kind \in {"baseline", "step1", "step2", "update"}
  <2>1. incoming[m] \in Seq(SoundFrames) /\ incoming[m] # <<>>
    BY DEF NoteInv, WireSound, Receive
  <2> QED BY <2>1 DEF SoundFrames, FramesOver
<1>3. CASE m \notin opened
  <2>1. UNCHANGED <<doc, hushed, outgoing>>
    BY <1>3 DEF Receive
  <2>2. Only(m)
    BY <1>1, <2>1 DEF Only
  <2> QED BY <1>1, <1>3, <2>1, <2>2, DropsTogether
<1>4. CASE m \in opened /\ f.kind = "baseline"
  <2>1. ReceiveBaseline(m, f)
    BY <1>4 DEF Receive
  <2>2. \/ AdoptBaseline(m, f)
        \/ f.tag.id # doc[m].tag.id /\ ReplyBaseline(m)
        \/ UNCHANGED <<doc, hushed, outgoing>> /\ f.tag.id = doc[m].tag.id
    BY <2>1 DEF ReceiveBaseline
  <2>3. CASE UNCHANGED <<doc, hushed, outgoing>> /\ f.tag.id = doc[m].tag.id
    <3>1. Longer(outgoing[m], outgoing'[m]) /\ NewOut(m) = {}
      BY <2>3, NothingNew
    <3>2. doc[m].gone = {} /\ ItemsOf(f, doc[m].tag.id) = {}
      BY <1>4 DEF Together, Plain, ItemsOf
    <3>3. Grows(m)
      BY <1>1, <1>4, <2>3, <3>1, <3>2 DEF Grows
    <3>4. Only(m)
      BY <1>1, <2>3 DEF Only
    <3> QED BY <1>1, <1>4, <3>3, <3>4, GrowsTogether
  <2> QED BY <1>1, <1>4, <2>2, <2>3, AdoptTogether, ReplyTogether
<1>5. CASE m \in opened /\ f.kind # "baseline"
  <2>1. ReceiveSync(m, f)
    BY <1>5 DEF Receive
  <2>2. \/ f.tag.id # doc[m].tag.id /\ ReplyBaseline(m)
        \/ /\ f.tag.id = doc[m].tag.id /\ f.kind = "step1"
           /\ Send(m, <<Step2(doc[m])>>) /\ UNCHANGED <<doc, hushed>>
        \/ /\ f.tag.id = doc[m].tag.id /\ f.kind # "step1"
           /\ doc' = [doc EXCEPT ![m].items = @ \cup f.items, ![m].gone = @ \cup f.gone]
           /\ UNCHANGED <<outgoing, hushed>>
    BY <2>1 DEF ReceiveSync
  <2> QED BY <1>1, <1>2, <1>5, <2>2, ReplyTogether, AnswerTogether, JoinTogether
<1> QED BY <1>3, <1>4, <1>5

-------------------------------------------------------------------------------
LEMMA TogetherStarts == NoteInit => Together
<1> SUFFICES ASSUME NoteInit PROVE Together
  OBVIOUS
<1>1. /\ opened = {} /\ linked = {}
      /\ \A m \in Members : doc[m] = Seeded(NullTag) /\ outgoing[m] = <<>> /\ incoming[m] = <<>>
  BY DEF NoteInit
<1>2. \A m \in Members : Plain(m) /\ Alone(m)
  BY <1>1, SeedsOf DEF Plain, Alone
<1> QED BY <1>1, <1>2 DEF Together, Passed, Mutual

LEMMA TogetherStep == NoteInv /\ TogetherInv /\ [NoteNext]_noteVars => TogetherInv'
<1> SUFFICES ASSUME NoteInv, TogetherInv, [NoteNext]_noteVars, ~parted', ~aligned'
             PROVE  Together'
  BY DEF TogetherInv
<1>1. ASSUME UNCHANGED <<doc, opened, linked, outgoing, incoming, hushed>>, Together PROVE Together'
  <2>1. \A m \in Members : Plain(m)' /\ Alone(m)'
    BY <1>1 DEF Together, Plain, Alone
  <2>2. \A m, n \in Members : m # n => Passed(m, n)' /\ Mutual(m, n)'
    BY <1>1 DEF Together, Passed, Mutual
  <2> QED BY <2>1, <2>2 DEF Together
<1>2. CASE UNCHANGED noteVars
  <2>1. ~parted /\ ~aligned
    BY <1>2 DEF noteVars, noteHistory
  <2> QED BY <1>1, <1>2, <2>1 DEF noteVars, docVars, wireVars, noteHistory, TogetherInv
<1>3. CASE NoteNext
  <2>1. PICK m \in Members :
          \/ Load(m) \/ Open(m) \/ Close(m) \/ Type(m)
          \/ SaveRead(m) \/ SaveWrite(m) \/ SaveFail(m)
          \/ Link(m) \/ Unlink(m) \/ Relay(m)
          \/ Receive(m) \/ ReplyAgain(m)
    BY <1>3 DEF NoteNext
  <2>2. ~Unlink(m)
    BY DEF Unlink
  <2>3. ~parted /\ ~aligned
    <3>1. UNCHANGED noteHistory \/ (UNCHANGED parted /\ (aligned => aligned'))
      BY <2>1, <2>2 DEF Load, Open, Close, Type, SaveRead, SaveWrite, SaveFail, Link, Relay,
                        Receive, ReplyAgain
    <3> QED BY <3>1 DEF noteHistory
  <2>4. Together
    BY <2>3 DEF TogetherInv
  <2>5. CASE Load(m) \/ SaveRead(m) \/ SaveFail(m) \/ ReplyAgain(m)
    <3>1. UNCHANGED <<doc, opened, wireVars, hushed>>
      BY <2>5 DEF Load, SaveRead, SaveFail, ReplyAgain, docVars, noteHistory
    <3> QED BY <1>1, <2>4, <3>1 DEF wireVars
  <2> QED BY <2>1, <2>2, <2>4, <2>5, OpenTogether, CloseTogether, TypeTogether,
             SaveWriteTogether, LinkTogether, RelayTogether, ReceiveTogether
<1> QED BY <1>2, <1>3

(* What a document has, every other of the same baseline has, is sent or   *)
(* has asked for; and two of different baselines are to hear of it: for    *)
(* any members, lines, documents and queues, until a connection ends or a  *)
(* save changes a document silently (note_collab.rs:403).                  *)
THEOREM TogetherTracked == NoteSpec => []TogetherInv
<1>1. NoteInit => TogetherInv
  BY TogetherStarts DEF TogetherInv
<1> QED BY <1>1, TogetherStep, NotesTracked, PTL DEF NoteSpec

(* Members that have the note open and stay connected come to see the same *)
(* text, whenever and with whatever text each of them opened it, unless a  *)
(* baseline went unanswered or a save changed a document silently          *)
(* (note_collab.rs:403); for any members, lines, documents and queues.     *)
THEOREM MembersAgree == NoteSpec => []TogetherAgree
<1>1. TogetherInv => TogetherAgree
  <2> SUFFICES ASSUME Together, Settled, ~hushed, NEW m \in Members, NEW n \in Members, m # n
               PROVE  Text(m) = Text(n)
    BY DEF TogetherInv, TogetherAgree
  <2>1. /\ m \in linked \cap opened /\ n \in linked \cap opened
        /\ outgoing[m] = <<>> /\ incoming[m] = <<>> /\ outgoing[n] = <<>> /\ incoming[n] = <<>>
    BY DEF Settled
  <2>2. \A x : Naming(<<>>, x) = {} /\ Asking(<<>>, x) = {} /\ \A i : Bringing(<<>>, x, i) = {}
    BY DEF Naming, Asking, Bringing
  <2>3. doc[m].tag.id = doc[n].tag.id
    BY <2>1, <2>2 DEF Together, Mutual, NamedTrue
  <2>4. \A i : i \in doc[m].items <=> i \in doc[n].items
    BY <2>1, <2>2, <2>3 DEF Together, Mutual, SharedTrue, Gets
  <2>5. doc[m].gone = {} /\ doc[n].gone = {}
    BY DEF Together, Plain
  <2>6. doc[m].items = doc[n].items
    BY <2>4
  <2> QED BY <2>5, <2>6 DEF Text, TextOf
<1> QED BY <1>1, TogetherTracked, PTL

===============================================================================
