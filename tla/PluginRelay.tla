------------------------------ MODULE PluginRelay -----------------------------
(***************************************************************************)
(* The reliable tier of plugin messages in a collaboration space: the      *)
(* server's room (atelyx-server ws.rs) and one pump per member             *)
(* (atelyx-core collab.rs).                                                *)
(*                                                                         *)
(* The room numbers broadcast frames, caches the latest ones and queues    *)
(* them on the outbound ring of every other connection; a connection that  *)
(* rejoins asks for what it missed.  A connection lives on both sides on   *)
(* its own: the pump may drop it long before the server notices (30s       *)
(* heartbeat) and join again meanwhile, and the server may drop it first.  *)
(* When the last connection leaves, the room goes, with its sequence       *)
(* counter and cache.                                                      *)
(*                                                                         *)
(* Presence, patches, note syncs, unicast plugin messages and the like     *)
(* take no number: here they only occupy the ring (Other).  Left out: the  *)
(* socket's own buffer, which is part of the ring; the resync notice, on   *)
(* which the pump's plugin part does nothing; commands buffered before the *)
(* hello-ack, which are sent on Ready in order, so publishing is delayed   *)
(* until then.                                                             *)
(***************************************************************************)
EXTENDS Integers, Sequences, FiniteSets, Functions, PluginPump

CONSTANTS
  Clients,       \* members running a pump
  Kinds,         \* kinds of broadcast frames: subset of {"text", "bin"}
  CacheMax,      \* PLUGIN_CACHE_MAX_ENTRIES
  RingMax,       \* capacity of a connection's outbound ring
  BytePressure,  \* may the cache's byte budget evict frames early?
  RoomMayEmpty,  \* may the last connection leave the room?
  MaxConns,      \* bound: connections opened in a behaviour
  MaxPublished,  \* bound: frames published in a behaviour
  MaxOther,      \* bound: frames without a number queued in a behaviour
  UpMax          \* bound: frames published on a connection and not yet read

ASSUME ClientsAssumption == 0 \notin Clients
ASSUME KindsAssumption   == Kinds \subseteq {"text", "bin"}
ASSUME CacheAssumption   == CacheMax \in Nat \ {0}
ASSUME RingAssumption    == RingMax \in Nat \ {0}
ASSUME FlagsAssumption   == BytePressure \in BOOLEAN /\ RoomMayEmpty \in BOOLEAN
ASSUME BoundsAssumption  == MaxConns \in Nat /\ MaxPublished \in Nat /\ MaxOther \in Nat /\ UpMax \in Nat

VARIABLES
  \* the server
  nextPeer,   \* NEXT_PEER_ID
  owner,      \* owner[p]: the client that opened connection p
  peers,      \* connections in the room
  room,       \* [epoch, seq, cache]; epoch counts the room's incarnations
  \* the connections
  ring,       \* ring[p]: frames queued to p's client
  up,         \* up[p]: frames p's client sent and the server has not read
  \* the members
  conn,       \* conn[c]: c's connection, 0 when it has none
  ready,      \* ready[c]: hello-ack received on this connection
  pump,       \* pump[c]: the pump's plugin bookkeeping
  \* history
  published,  \* frames published so far
  others,     \* frames without a number queued so far
  sent,       \* every frame the server has broadcast
  log,        \* log[c]: frames handed to c's shell, in order
  course      \* course[c]: how c's cursor came about, see CourseInit

serverVars == <<nextPeer, owner, peers, room, sent>>
clientVars == <<conn, ready, pump, log, course>>
vars == <<nextPeer, owner, peers, room, ring, up, conn, ready, pump, published, others, sent, log, course>>

PeerIds == 1..MaxConns

(* Where the cursor of a pump comes from: the room incarnation of its      *)
(* first join and of the latest one, the header it started at, the numbers *)
(* it gave up.  `skewed' is set when the pump meets a rebuilt room and     *)
(* takes it for the old one, or notices and keeps frames of the old one in *)
(* its stash all the same.                                                 *)
CourseInit == [start |-> 0, era |-> 0, base |-> 0, givenUp |-> {}, skewed |-> FALSE]

Hello   == [type : {"hello-ack"}, pluginSeq : Nat, epoch : Nat]  \* epoch: not on the wire
Ack     == [type : {"plugin-msg-ack"}, seq : Nat]
Message == [type : {"plugin-msg"}, frame : Frame]
Other   == [type : {"other"}]

Publication == [type : {"plugin-msg"}, kind : {"text", "bin"}]
ReplayAfter == [type : {"plugin-replay"}, after : Nat]

-------------------------------------------------------------------------------
(* Queues. *)

(* A full ring drops its oldest frame (broadcast channel, Lagged). *)
Enqueue(q, m) == IF Len(q) < RingMax THEN Append(q, m) ELSE Append(Tail(q), m)

EnqueueAll(q, ms) ==
  LET all == q \o ms
  IN  IF Len(all) <= RingMax THEN all
      ELSE SubSeq(all, Len(all) - RingMax + 1, Len(all))

(* Is anyone reading p's ring?  The frames of the others are not tracked. *)
Heard(p) == \E c \in Clients : conn[c] = p

(* What c's pump sends reaches the server while the server reads p. *)
Uplink(p, m) == up' = IF p \in peers THEN [up EXCEPT ![p] = Append(@, m)] ELSE up

-------------------------------------------------------------------------------
(* The server: joining and leaving. *)

(* run_room_connection up to the message loop: a fresh peer id, entry into *)
(* the room (created when absent) and the hello-ack with the room's        *)
(* sequence header, all under the hub lock.                                *)
Join(c) ==
  /\ conn[c] = 0
  /\ nextPeer <= MaxConns
  /\ nextPeer' = nextPeer + 1
  /\ owner' = [owner EXCEPT ![nextPeer] = c]
  /\ peers' = peers \cup {nextPeer}
  /\ ring' = [ring EXCEPT ![nextPeer] =
       <<[type |-> "hello-ack", pluginSeq |-> room.seq, epoch |-> room.epoch]>>]
  /\ conn' = [conn EXCEPT ![c] = nextPeer]
  /\ ready' = [ready EXCEPT ![c] = FALSE]
  /\ UNCHANGED <<room, sent, up, pump, published, others, log, course>>

(* Mutant of Rebuilt: the cache outlives the room.                         *)
RebuiltAround(r) == [r EXCEPT !.epoch = @ + 1, !.seq = 0]

(* The room after its last connection left: gone; the next one to enter    *)
(* creates another.                                                        *)
Rebuilt(r) == [epoch |-> r.epoch + 1, seq |-> 0, cache |-> <<>>]

(* The server's read loop for p ends (close, error, heartbeat, kick): what *)
(* it has not read is lost; what is queued to p is still sent.             *)
Leave(p) ==
  /\ p \in peers
  /\ RoomMayEmpty \/ peers # {p}
  /\ peers' = peers \ {p}
  /\ room' = IF peers = {p} THEN Rebuilt(room) ELSE room
  /\ up' = [up EXCEPT ![p] = <<>>]
  /\ UNCHANGED <<nextPeer, owner, sent, ring, clientVars, published, others>>

-------------------------------------------------------------------------------
(* The server: frames from p. *)

(* cache_plugin_frame: append, then evict the oldest while over the entry  *)
(* limit; the byte budget may evict more.                                  *)
Cached(cache, f) ==
  LET all  == Append(cache, f)
      most == IF Len(all) > CacheMax THEN Len(all) - CacheMax ELSE 0
  IN  {SubSeq(all, k + 1, Len(all)) : k \in IF BytePressure THEN most..Len(all) ELSE {most}}

(* replayed_frames, as the messages they are queued as, in the order of    *)
(* the cache, which is that of the numbers.                                *)
Replayed(cache, after, p) ==
  LET missed == InSeqOrder({f \in Range(cache) : f.seq > after /\ f.sender # p})
  IN  [i \in DOMAIN missed |-> [type |-> "plugin-msg", frame |-> missed[i]]]

(* The plugin-msg branch without target (text, and its binary twin):       *)
(* number, cache, queue to the others, acknowledge to the sender.          *)
HandlePublication(p) ==
  LET f == [epoch |-> room.epoch, seq |-> room.seq + 1, sender |-> p, kind |-> Head(up[p]).kind]
  IN  /\ Head(up[p]) \in Publication
      /\ \E cache \in Cached(room.cache, f) :
            room' = [room EXCEPT !.seq = @ + 1, !.cache = cache]
      /\ sent' = sent \cup {f}
      /\ ring' = [q \in PeerIds |->
                    IF q \notin peers \/ ~Heard(q) THEN ring[q]
                    ELSE IF q = p THEN Enqueue(ring[q], [type |-> "plugin-msg-ack", seq |-> f.seq])
                    ELSE Enqueue(ring[q], [type |-> "plugin-msg", frame |-> f])]

(* The plugin-replay branch. *)
HandleReplay(p) ==
  /\ Head(up[p]) \in ReplayAfter
  /\ ring' = IF Heard(p)
             THEN [ring EXCEPT ![p] = EnqueueAll(@, Replayed(room.cache, Head(up[p]).after, p))]
             ELSE ring
  /\ UNCHANGED <<room, sent>>

ServerRecv(p) ==
  /\ p \in peers
  /\ up[p] # <<>>
  /\ HandlePublication(p) \/ HandleReplay(p)
  /\ up' = [up EXCEPT ![p] = Tail(@)]
  /\ UNCHANGED <<nextPeer, owner, peers, clientVars, published, others>>

(* Any frame without a number is queued to p: forwarded presence, patches  *)
(* and note syncs, peers lists, landed patches, renames, pongs.            *)
QueueOther(p) ==
  /\ p \in peers
  /\ Heard(p)
  /\ others < MaxOther
  /\ others' = others + 1
  /\ ring' = [ring EXCEPT ![p] = Enqueue(@, [type |-> "other"])]
  /\ UNCHANGED <<serverVars, up, clientVars, published>>

-------------------------------------------------------------------------------
(* A member. *)

(* The shell broadcasts a plugin message. *)
Publish(c, kind) ==
  /\ ready[c]
  /\ conn[c] \in peers
  /\ published < MaxPublished
  /\ Len(up[conn[c]]) < UpMax
  /\ published' = published + 1
  /\ up' = [up EXCEPT ![conn[c]] = Append(@, [type |-> "plugin-msg", kind |-> kind])]
  /\ UNCHANGED <<serverVars, ring, clientVars, others>>

(* The session ends on the client's side (read or write error, half-open). *)
Drop(c) ==
  /\ conn[c] # 0
  /\ ring' = [ring EXCEPT ![conn[c]] = <<>>]
  /\ conn' = [conn EXCEPT ![c] = 0]
  /\ ready' = [ready EXCEPT ![c] = FALSE]
  /\ UNCHANGED <<serverVars, up, pump, published, others, log, course>>

(* The frames a handler hands over, appended to the log in seq order. *)
HandOver(c, frames) ==
  log' = [log EXCEPT ![c] = @ \o InSeqOrder(frames)]

(* hello-ack: realign the cursor; on a rejoin ask for what was missed. *)
RecvHello(c, m) ==
  /\ m \in Hello
  /\ pump' = [pump EXCEPT ![c] = HelloAcked(@, m.pluginSeq)]
  /\ ready' = [ready EXCEPT ![c] = TRUE]
  /\ IF pump[c].joined
     THEN Uplink(conn[c], [type |-> "plugin-replay", after |-> ReplayFrom(pump'[c])])
     ELSE UNCHANGED up
  /\ course' = [course EXCEPT ![c] =
       IF ~pump[c].joined
       THEN [@ EXCEPT !.start = m.epoch, !.era = m.epoch, !.base = m.pluginSeq]
       ELSE IF ResetBy(pump[c], m.pluginSeq)
       THEN [@ EXCEPT !.era = m.epoch, !.base = 0, !.givenUp = {},
                      !.skewed = pump'[c].pending # {}]
       ELSE [@ EXCEPT !.era = m.epoch,
                      !.skewed = course[c].skewed \/ course[c].era # m.epoch]]
  /\ UNCHANGED log

(* A broadcast frame; a binary one is counted and not handed over. *)
RecvFrame(c, m) ==
  /\ m \in Message
  /\ IF ready[c]
     THEN IF m.frame.kind = "text"
          THEN /\ pump' = [pump EXCEPT ![c] = Broadcasted(@, m.frame)]
               /\ HandOver(c, HandedByBroadcast(pump[c], m.frame))
          ELSE /\ pump' = [pump EXCEPT ![c] = BinarySeen(@, m.frame.seq)]
               /\ HandOver(c, HandedByBinary(pump[c], m.frame.seq))
     ELSE UNCHANGED <<pump, log>>
  /\ UNCHANGED <<ready, up, course>>

(* The receipt for c's own broadcast. *)
RecvAck(c, m) ==
  /\ m \in Ack
  /\ IF ready[c]
     THEN /\ pump' = [pump EXCEPT ![c] = Acked(@, m.seq)]
          /\ HandOver(c, HandedByAck(pump[c], m.seq))
     ELSE UNCHANGED <<pump, log>>
  /\ UNCHANGED <<ready, up, course>>

(* A frame the plugin bookkeeping does not look at. *)
RecvOther(c, m) == m \in Other /\ UNCHANGED <<ready, up, pump, log, course>>

ClientRecv(c) ==
  /\ conn[c] # 0
  /\ ring[conn[c]] # <<>>
  /\ LET m == Head(ring[conn[c]])
     IN  RecvHello(c, m) \/ RecvFrame(c, m) \/ RecvAck(c, m) \/ RecvOther(c, m)
  /\ ring' = [ring EXCEPT ![conn[c]] = Tail(@)]
  /\ UNCHANGED <<serverVars, conn, published, others>>

(* The grace deadline expires in run_session. *)
GapTimer(c) ==
  /\ conn[c] # 0
  /\ pump[c].armed
  /\ \/ /\ ~ready[c]
        /\ pump' = [pump EXCEPT ![c] = Disarmed(@)]
        /\ UNCHANGED <<up, log, course>>
     \/ /\ ready[c] /\ ~pump[c].replayed
        /\ pump' = [pump EXCEPT ![c] = ReplayAsked(@)]
        /\ Uplink(conn[c], [type |-> "plugin-replay", after |-> ReplayFrom(pump[c])])
        /\ UNCHANGED <<log, course>>
     \/ /\ ready[c] /\ pump[c].replayed
        /\ pump' = [pump EXCEPT ![c] = GaveUp(@)]
        /\ HandOver(c, pump[c].pending)
        /\ course' = [course EXCEPT ![c].givenUp =
             @ \cup ((pump[c].delivered + 1 .. pump'[c].delivered) \ Known(pump[c]))]
        /\ UNCHANGED up
  /\ UNCHANGED <<serverVars, ring, conn, ready, published, others>>

-------------------------------------------------------------------------------

Init ==
  /\ nextPeer = 1
  /\ owner = [p \in PeerIds |-> 0]
  /\ peers = {}
  /\ room = [epoch |-> 1, seq |-> 0, cache |-> <<>>]
  /\ ring = [p \in PeerIds |-> <<>>]
  /\ up = [p \in PeerIds |-> <<>>]
  /\ conn = [c \in Clients |-> 0]
  /\ ready = [c \in Clients |-> FALSE]
  /\ pump = [c \in Clients |-> PumpInit]
  /\ published = 0
  /\ others = 0
  /\ sent = {}
  /\ log = [c \in Clients |-> <<>>]
  /\ course = [c \in Clients |-> CourseInit]

Next ==
  \/ \E c \in Clients : Join(c)
  \/ \E p \in PeerIds : Leave(p)
  \/ \E p \in PeerIds : ServerRecv(p)
  \/ \E p \in PeerIds : QueueOther(p)
  \/ \E c \in Clients, kind \in Kinds : Publish(c, kind)
  \/ \E c \in Clients : Drop(c)
  \/ \E c \in Clients : ClientRecv(c)
  \/ \E c \in Clients : GapTimer(c)

Spec == Init /\ [][Next]_vars

(* The server's and the pump's tasks run, and the pump's timer fires.      *)
Fairness ==
  /\ \A c \in Clients : WF_vars(ClientRecv(c)) /\ WF_vars(GapTimer(c))
  /\ \A p \in PeerIds : WF_vars(ServerRecv(p))

FairSpec == Spec /\ Fairness

-------------------------------------------------------------------------------
(* Properties. *)

RoomTypeOK ==
  /\ nextPeer \in 1..MaxConns + 1
  /\ peers \subseteq PeerIds
  /\ room \in [epoch : Nat, seq : Nat, cache : Seq(Frame)]

PumpTypeOK == pump \in [Clients -> Pumps] /\ ready \in [Clients -> BOOLEAN]

(* Every variable has its type; what the pumps and the room keep, what is  *)
(* on its way between them (a replay request never asks from below zero)   *)
(* and the history.                                                        *)
TypeOK ==
  /\ owner \in [PeerIds -> Clients \cup {0}]
  /\ RoomTypeOK
  /\ PumpTypeOK
  /\ ring \in [PeerIds -> Seq(Hello \cup Ack \cup Message \cup Other)]
  /\ up \in [PeerIds -> Seq(Publication \cup ReplayAfter)]
  /\ conn \in [Clients -> PeerIds \cup {0}]
  /\ published \in 0..MaxPublished /\ others \in 0..MaxOther
  /\ sent \subseteq Frame
  /\ log \in [Clients -> Seq(Frame)]
  /\ course \in [Clients -> [start : Nat, era : Nat, base : Nat,
                             givenUp : SUBSET Nat, skewed : BOOLEAN]]

(* The cache is the unbroken tail of the room's numbering: a replay can    *)
(* only miss what was evicted, never a number in the middle.               *)
CacheIsTail ==
  /\ Len(room.cache) <= CacheMax
  /\ \A i \in 1..Len(room.cache) :
        /\ room.cache[i].seq = room.seq - Len(room.cache) + i
        /\ room.cache[i].epoch = room.epoch

(* A pump that is ready and holds stashed frames has its deadline armed:   *)
(* no gap waits without a timer, whatever reconnects cleared before.       *)
StashArmed == \A c \in Clients : ready[c] /\ pump[c].pending # {} => pump[c].armed

(* A number below the cursor is a frame the shell has seen, a binary or an *)
(* own frame, or one given up after the grace -- unless the pump took a    *)
(* rebuilt room, or frames stashed in the one before, for the old one.     *)
CursorSound ==
  \A c \in Clients : ~course[c].skewed =>
    \A n \in course[c].base + 1 .. pump[c].delivered :
      \/ n \in course[c].givenUp
      \/ \E f \in sent :
            /\ f.epoch = course[c].era /\ f.seq = n
            /\ f \in Range(log[c]) \/ f.kind = "bin" \/ owner[f.sender] = c

(* A shell sees the frames of one room in ascending order, none twice. *)
InOrder ==
  \A c \in Clients : \A i, j \in 1..Len(log[c]) :
    i < j /\ log[c][i].epoch = log[c][j].epoch => log[c][i].seq < log[c][j].seq

(* What others broadcast while a member was away, and the room still       *)
(* caches, is not behind the member's cursor unseen.                       *)
MissedArrives ==
  \A c \in Clients : \A f \in Range(room.cache) :
    /\ ready[c] /\ conn[c] \in peers
    /\ f.kind = "text" /\ owner[f.sender] # c
    /\ f.epoch > course[c].start \/ f.seq > course[c].base
    /\ f.seq <= pump[c].delivered
    => f \in Range(log[c]) \/ f.seq \in course[c].givenUp

(* Order and at-most-once together: the relay implements PluginFeed.       *)
Feed == INSTANCE PluginFeed WITH
  sent <- room.seq,
  seen <- [c \in Clients |-> [i \in 1..Len(log[c]) |-> log[c][i].seq]]

ImplementsFeed == Feed!Spec

(* A stash is emptied, or its pump loses the connection. *)
StashDrains ==
  \A c \in Clients : pump[c].pending # {} ~> (pump[c].pending = {} \/ conn[c] = 0)

(* A member that stays connected catches up with the room, but for numbers *)
(* it knows to be nobody's business: nothing it can no longer get holds    *)
(* its cursor back forever.                                                *)
CatchesUp ==
  \A c \in Clients :
    conn[c] \in peers ~> \/ pump[c].delivered + 1..room.seq \subseteq pump[c].void
                         \/ conn[c] \notin peers

===============================================================================
