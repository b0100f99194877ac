--------------------------- MODULE EphemeralChannel ---------------------------
(***************************************************************************)
(* States that members show each other while they are there (cursors,      *)
(* selections, locks): EphemeralChannel (ephemeral.rs), driven by the      *)
(* shell (space_actions.rs) and carried by the server room (ws.rs), which  *)
(* keeps none of it.                                                       *)
(*                                                                         *)
(* A member is a writer of its own state and a reader of the others'; the  *)
(* two roles share nothing but the connection, so they are apart here.     *)
(* A frame carries the whole state and a clock, or null when the member    *)
(* leaves.  The pump of a writer without a connection keeps its frames and *)
(* sends them in the next one; only during the handshake it drops them.  A *)
(* writer that reconnects may be in the room twice for a while, and the    *)
(* server may read the two connections in any order; a reader's outbound   *)
(* ring drops its oldest frames when it is full.                           *)
(*                                                                         *)
(* Time goes in steps of 15 s: a state is sent again in the step after it  *)
(* was sent (KEEPALIVE), an entry may expire after two (TIMEOUT), must     *)
(* after three, and what is in flight arrives within a step.               *)
(***************************************************************************)
EXTENDS Naturals, Sequences

CONSTANTS
  Writers, Readers,
  States,    \* what a writer can show
  Absent,    \* no state: null in a frame, None in the code's fields
  MaxClock,  \* bound: frames of a writer
  MaxPeers,  \* bound: connections of writers
  RingSize   \* frames that wait for a slow reader

ASSUME EphemeralAssumption ==
  /\ MaxClock \in Nat /\ MaxPeers \in Nat /\ RingSize \in Nat \ {0}
  /\ Absent \notin States

VARIABLES
  local,    \* local[w]: local_state
  sent,     \* sent[w]: local_sent
  clock,    \* clock[w]
  recent,   \* recent[w]: the last frame is not MIN_INTERVAL old
  due,      \* due[w]: a step has passed since the last frame
  conn,     \* conn[w]: peer id of the connection of w, 0 when it has none
  greeting, \* writers whose new connection is in its handshake
  held,     \* held[w]: frames the pump keeps for the next connection (buf)
  peers,    \* peer ids given out
  room,     \* peers in the room
  uplink,   \* uplink[p]: frames the server has yet to read from p
  up,       \* readers that are connected
  inbox,    \* inbox[r]: the ring of r
  roster,   \* roster[r]: the list of peers r knows
  entry,    \* entry[r][w]: [state, clock, peer, age], or Absent
  seen,     \* seen[r][w]: greatest clock seen, kept when the entry goes
  heard     \* history: heard[r][w]: greatest clock ever delivered to r

writerVars == <<local, sent, clock, recent, due>>
linkVars == <<greeting, held>>
netVars == <<conn, linkVars, peers, room, uplink>>
readerVars == <<up, inbox, roster, entry, seen, heard>>
ephemeralVars == <<writerVars, netVars, readerVars>>

PeerIdents == 1..MaxPeers

(* Bound: whatever may make another frame necessary happens while a writer *)
(* still has one.                                                          *)
Spare == \A w \in Writers : clock[w] < MaxClock

-------------------------------------------------------------------------------
(* The ring of a reader. *)

Newest(q) == IF Len(q) > RingSize THEN Tail(q) ELSE q

Queued(f) == [r \in Readers |-> IF r \in up THEN Newest(Append(inbox[r], f)) ELSE inbox[r]]

NoOverrun == \A r \in up : Len(inbox[r]) < RingSize

Peers(list) == [kind |-> "peers", list |-> list]

-------------------------------------------------------------------------------
(* Writers. *)

Frame(w, state) == [client |-> w, clock |-> clock[w] + 1, state |-> state]

(* Where the pump puts a frame. *)
Dispatched(w, f) ==
  \/ conn[w] # 0 /\ uplink' = [uplink EXCEPT ![conn[w]] = Append(@, f)] /\ UNCHANGED held
  \/ conn[w] = 0 /\ w \in greeting /\ UNCHANGED <<uplink, held>>
  \/ conn[w] = 0 /\ w \notin greeting /\ held' = [held EXCEPT ![w] = Append(@, f)] /\ UNCHANGED uplink

(* emit(): the next clock. *)
Emit(w, state) ==
  /\ clock[w] < MaxClock
  /\ clock' = [clock EXCEPT ![w] = @ + 1]
  /\ sent' = [sent EXCEPT ![w] = state]
  /\ recent' = [recent EXCEPT ![w] = TRUE]
  /\ due' = [due EXCEPT ![w] = FALSE]
  /\ Dispatched(w, Frame(w, state))
  /\ UNCHANGED <<conn, greeting, peers, room, readerVars>>

(* Within MIN_INTERVAL of the last frame a change is only recorded. *)
SetLocalState(w, state) ==
  /\ local[w] # state
  /\ clock[w] < MaxClock
  /\ local' = [local EXCEPT ![w] = state]
  /\ IF recent[w] THEN UNCHANGED <<clock, sent, recent, due, netVars, readerVars>>
     ELSE Emit(w, state)

(* The interval is over. *)
Cool(w) ==
  /\ recent[w]
  /\ recent' = [recent EXCEPT ![w] = FALSE]
  /\ UNCHANGED <<local, sent, clock, due, netVars, readerVars>>

Flush(w) ==
  /\ local[w] \notin {Absent, sent[w]}
  /\ ~recent[w]
  /\ Emit(w, local[w])
  /\ UNCHANGED local

(* Mutant of Keepalive: an idle member sends nothing. *)
KeepaliveNever(w) ==
  /\ conn[w] # 0
  /\ due[w]
  /\ due' = [due EXCEPT ![w] = FALSE]
  /\ UNCHANGED <<local, sent, clock, recent, netVars, readerVars>>

(* Only in a connection (space_connected; that the shell hears of its end  *)
(* a little later is left out).                                            *)
Keepalive(w) ==
  /\ conn[w] # 0
  /\ due[w]
  /\ local[w] # Absent
  /\ Emit(w, local[w])
  /\ UNCHANGED local

LeaveView(w) ==
  /\ local[w] # Absent
  /\ local' = [local EXCEPT ![w] = Absent]
  /\ Emit(w, Absent)

(* The connection of w ends; what the server has not read it may still     *)
(* read.                                                                   *)
Disconnect(w) ==
  /\ conn[w] # 0
  /\ conn' = [conn EXCEPT ![w] = 0]
  /\ UNCHANGED <<writerVars, linkVars, peers, room, uplink, readerVars>>

(* The socket is up, hello is under way ... *)
Dial(w) ==
  /\ conn[w] = 0 /\ w \notin greeting
  /\ peers < MaxPeers
  /\ greeting' = greeting \cup {w}
  /\ UNCHANGED <<writerVars, conn, held, peers, room, uplink, readerVars>>

Redial(w) ==
  /\ w \in greeting
  /\ greeting' = greeting \ {w}
  /\ UNCHANGED <<writerVars, conn, held, peers, room, uplink, readerVars>>

(* ... and w is in the room: everyone gets the roster, the pump sends what *)
(* it kept, and the shell its state again (SpaceEvent::Ready).             *)
Connect(w) ==
  /\ w \in greeting
  /\ peers < MaxPeers
  /\ Spare
  /\ greeting' = greeting \ {w}
  /\ held' = [held EXCEPT ![w] = <<>>]
  /\ peers' = peers + 1
  /\ conn' = [conn EXCEPT ![w] = peers']
  /\ room' = room \cup {peers'}
  /\ inbox' = Queued(Peers(room'))
  /\ IF local[w] = Absent
     THEN uplink' = [uplink EXCEPT ![peers'] = held[w]] /\ UNCHANGED writerVars
     ELSE /\ uplink' = [uplink EXCEPT ![peers'] = Append(held[w], Frame(w, local[w]))]
          /\ clock' = [clock EXCEPT ![w] = @ + 1]
          /\ sent' = [sent EXCEPT ![w] = local[w]]
          /\ recent' = [recent EXCEPT ![w] = TRUE]
          /\ due' = [due EXCEPT ![w] = FALSE]
          /\ UNCHANGED local
  /\ UNCHANGED <<up, roster, entry, seen, heard>>

-------------------------------------------------------------------------------
(* The server. *)

(* The server puts the peer id on a frame. *)
Stamped(p, f) ==
  [kind |-> "state", client |-> f.client, peer |-> p, clock |-> f.clock, state |-> f.state]

Forward(p) ==
  /\ p \in room
  /\ uplink[p] # <<>>
  /\ NoOverrun \/ Spare
  /\ uplink' = [uplink EXCEPT ![p] = Tail(@)]
  /\ inbox' = Queued(Stamped(p, Head(uplink[p])))
  /\ UNCHANGED <<writerVars, conn, linkVars, peers, room, up, roster, entry, seen, heard>>

(* The server ends a connection whose client has gone. *)
LeaveRoom(p) ==
  /\ p \in room
  /\ \A w \in Writers : conn[w] # p
  /\ NoOverrun \/ Spare
  /\ room' = room \ {p}
  /\ uplink' = [uplink EXCEPT ![p] = <<>>]
  /\ inbox' = Queued(Peers(room'))
  /\ UNCHANGED <<writerVars, conn, linkVars, peers, up, roster, entry, seen, heard>>

-------------------------------------------------------------------------------
(* Readers. *)

Shown(r, w) == entry[r][w] # Absent

(* Mutant of Apply: the clock is compared with the entry's.                *)
ApplyToEntry(r, f) ==
  LET w == f.client IN
  /\ heard' = [heard EXCEPT ![r][w] = IF f.clock > @ THEN f.clock ELSE @]
  /\ IF Shown(r, w) /\ f.clock < entry[r][w].clock THEN UNCHANGED <<entry, seen>>
     ELSE /\ seen' = [seen EXCEPT ![r][w] = f.clock]
          /\ entry' = [entry EXCEPT ![r][w] =
                         IF f.state = Absent THEN Absent
                         ELSE [state |-> f.state, clock |-> f.clock, peer |-> f.peer, age |-> 0]]
  /\ UNCHANGED roster

(* apply_remote(). *)
Apply(r, f) ==
  LET w == f.client IN
  /\ heard' = [heard EXCEPT ![r][w] = IF f.clock > @ THEN f.clock ELSE @]
  /\ IF f.clock < seen[r][w] THEN UNCHANGED <<entry, seen>>
     ELSE /\ seen' = [seen EXCEPT ![r][w] = f.clock]
          /\ entry' = [entry EXCEPT ![r][w] =
                         IF f.state = Absent THEN Absent
                         ELSE [state |-> f.state, clock |-> f.clock, peer |-> f.peer, age |-> 0]]
  /\ UNCHANGED roster

(* drop_peer() for each peer that is on the list no more. *)
ApplyPeers(r, f) ==
  /\ roster' = [roster EXCEPT ![r] = f.list]
  /\ entry' = [entry EXCEPT ![r] = [w \in Writers |->
                 IF Shown(r, w) /\ entry[r][w].peer \in roster[r] \ f.list THEN Absent
                 ELSE entry[r][w]]]
  /\ UNCHANGED <<seen, heard>>

Read(r) ==
  /\ r \in up
  /\ inbox[r] # <<>>
  /\ inbox' = [inbox EXCEPT ![r] = Tail(@)]
  /\ IF Head(inbox[r]).kind = "peers" THEN ApplyPeers(r, Head(inbox[r]))
     ELSE Apply(r, Head(inbox[r]))
  /\ UNCHANGED <<writerVars, netVars, up>>

(* clear_remotes(): the entries go, the clocks stay. *)
ReaderDown(r) ==
  /\ r \in up
  /\ Spare
  /\ up' = up \ {r}
  /\ inbox' = [inbox EXCEPT ![r] = <<>>]
  /\ entry' = [entry EXCEPT ![r] = [w \in Writers |-> Absent]]
  /\ UNCHANGED <<writerVars, netVars, roster, seen, heard>>

ReaderUp(r) ==
  /\ r \notin up
  /\ Spare
  /\ up' = up \cup {r}
  /\ inbox' = [inbox EXCEPT ![r] = <<Peers(room)>>]
  /\ UNCHANGED <<writerVars, netVars, roster, entry, seen, heard>>

(* remotes(): entries older than TIMEOUT go. *)
Expire(r, w) ==
  /\ Shown(r, w)
  /\ entry[r][w].age >= 2
  /\ entry' = [entry EXCEPT ![r][w] = Absent]
  /\ UNCHANGED <<writerVars, netVars, up, inbox, roster, seen, heard>>

-------------------------------------------------------------------------------

(* 15 s pass: nothing that is due in them is left undone. *)
Tick ==
  /\ \A w \in Writers : ~(due[w] /\ conn[w] # 0 /\ local[w] # Absent)
  /\ \A r \in up : inbox[r] = <<>>
  /\ \A p \in room : uplink[p] = <<>>
  /\ \A r \in Readers, w \in Writers : Shown(r, w) => entry[r][w].age < 3
  /\ due' = [w \in Writers |-> TRUE]
  /\ entry' = [r \in Readers |-> [w \in Writers |->
                 IF Shown(r, w) THEN [entry[r][w] EXCEPT !.age = @ + 1] ELSE Absent]]
  /\ UNCHANGED <<local, sent, clock, recent, netVars, up, inbox, roster, seen, heard>>

EphemeralInit ==
  /\ local = [w \in Writers |-> Absent]
  /\ sent = [w \in Writers |-> Absent]
  /\ clock = [w \in Writers |-> 0]
  /\ recent = [w \in Writers |-> FALSE]
  /\ due = [w \in Writers |-> TRUE]
  /\ conn = [w \in Writers |-> 0]
  /\ greeting = {}
  /\ held = [w \in Writers |-> <<>>]
  /\ peers = 0
  /\ room = {}
  /\ uplink = [p \in PeerIdents |-> <<>>]
  /\ up = {}
  /\ inbox = [r \in Readers |-> <<>>]
  /\ roster = [r \in Readers |-> {}]
  /\ entry = [r \in Readers |-> [w \in Writers |-> Absent]]
  /\ seen = [r \in Readers |-> [w \in Writers |-> 0]]
  /\ heard = [r \in Readers |-> [w \in Writers |-> 0]]

EphemeralNext ==
  \/ \E w \in Writers, s \in States : SetLocalState(w, s)
  \/ \E w \in Writers : Cool(w) \/ Flush(w) \/ Keepalive(w) \/ LeaveView(w)
  \/ \E w \in Writers : Dial(w) \/ Redial(w) \/ Connect(w) \/ Disconnect(w)
  \/ \E p \in PeerIdents : Forward(p) \/ LeaveRoom(p)
  \/ \E r \in Readers : Read(r) \/ ReaderDown(r) \/ ReaderUp(r)
  \/ \E r \in Readers, w \in Writers : Expire(r, w)
  \/ Tick

EphemeralSpec == EphemeralInit /\ [][EphemeralNext]_ephemeralVars

(* What goes on by itself: queues are read, the clock runs, the shell's    *)
(* tick flushes, keeps alive and expires.  Nobody need connect, change or  *)
(* leave.                                                                  *)
Running ==
  \/ \E w \in Writers : Cool(w) \/ Flush(w) \/ Keepalive(w)
  \/ \E p \in PeerIdents : Forward(p) \/ LeaveRoom(p)
  \/ \E r \in Readers : Read(r)
  \/ \E r \in Readers, w \in Writers : Expire(r, w)
  \/ Tick

EphemeralFair == WF_ephemeralVars(Running)

-------------------------------------------------------------------------------
(* Properties. *)

(* Every variable has its type.                                            *)
EphemeralTypeOK ==
  /\ local \in [Writers -> States \cup {Absent}]
  /\ sent \in [Writers -> States \cup {Absent}]
  /\ clock \in [Writers -> 0..MaxClock]
  /\ recent \in [Writers -> BOOLEAN] /\ due \in [Writers -> BOOLEAN]
  /\ conn \in [Writers -> 0..MaxPeers]
  /\ greeting \subseteq {w \in Writers : conn[w] = 0}
  /\ \A w \in Writers : held[w] # <<>> => conn[w] = 0
  /\ peers \in 0..MaxPeers
  /\ room \subseteq 1..peers
  /\ up \subseteq Readers
  /\ \A r \in Readers : Len(inbox[r]) <= RingSize
  /\ roster \in [Readers -> SUBSET PeerIdents]
  /\ seen \in [Readers -> [Writers -> 0..MaxClock]]
  /\ heard \in [Readers -> [Writers -> 0..MaxClock]]

(* A late frame brings nothing back: whatever a reader shows of a writer   *)
(* is the latest it ever got from it, on whichever connection and however  *)
(* often the entry went and came (ephemeral.rs:46-47, 191-192).            *)
LateStaysOut ==
  \A r \in Readers, w \in Writers : Shown(r, w) => entry[r][w].clock = heard[r][w]

(* What is true of a writer: its state, or that there is none to show. *)
Truth(w) == IF local[w] # Absent /\ conn[w] # 0 THEN local[w] ELSE Absent

(* A reader that is connected comes to show what is true, whatever was     *)
(* lost, held back or missed by joining late: the present state of a       *)
(* writer that is there, and nothing of one that left or lost its          *)
(* connection, be the last frame or the roster lost (ephemeral.rs:14, 116, *)
(* 184; lib.rs:3148).                                                      *)
TruthShown ==
  \A r \in Readers, w \in Writers :
    []<>(r \in up => Truth(w) = IF Shown(r, w) THEN entry[r][w].state ELSE Absent)

===============================================================================
