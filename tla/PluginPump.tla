------------------------------ MODULE PluginPump ------------------------------
(***************************************************************************)
(* The client pump's bookkeeping for room plugin frames, as operators on a *)
(* pump record (the `plugin_*' fields of PumpState, atelyx-core            *)
(* collab.rs).  Every broadcast plugin frame of a room carries the room's  *)
(* next sequence number.  The pump hands frames to the shell in that       *)
(* order, stashes what arrives early, and counts the numbers that will     *)
(* never be handed over (its own frames, binary frames) as void.           *)
(*                                                                         *)
(* An operator returns the pump after a handler; the operator next to it   *)
(* (Flushed, HandedBy...) returns the set of frames the handler hands to   *)
(* the shell, in ascending order of seq.  The grace deadline is a Boolean: *)
(* `armed' says that plugin_gap_deadline is Some.  How long it lasts (3s,  *)
(* or at once when 64 frames are stashed) is left out, so an armed timer   *)
(* may fire at any moment.                                                 *)
(***************************************************************************)
EXTENDS Integers, FiniteSetsExt

(* A numbered broadcast: `epoch' tells the incarnations of a room apart and *)
(* is not on the wire; the sender is a connection of the server.           *)
Frame == [epoch : Nat, seq : Nat, sender : Nat, kind : {"text", "bin"}]

Pumps == {s \in [delivered : Nat, joined : BOOLEAN, pending : SUBSET Frame,
                  void : SUBSET Nat, armed : BOOLEAN, replayed : BOOLEAN] :
            IsFiniteSet(s.pending) /\ IsFiniteSet(s.void)}

(* The part of PumpState that concerns plugin frames. *)
PumpInit ==
  [ delivered |-> 0,      \* seq up to which frames were handed over
    joined    |-> FALSE,  \* a hello-ack was seen before
    pending   |-> {},     \* frames that arrived ahead of a gap (a map by seq)
    void      |-> {},     \* numbers that are counted and not handed over
    armed     |-> FALSE,  \* the gap's grace deadline is set
    replayed  |-> FALSE ] \* this gap has had its replay request

Seqs(frames) == {f.seq : f \in frames}

(* Frames with different numbers, as a map by seq is read. *)
InSeqOrder(frames) ==
  CHOOSE q \in [1..Cardinality(frames) -> frames] :
    \A i, j \in DOMAIN q : i < j => q[i].seq < q[j].seq

-------------------------------------------------------------------------------
(* flush_plugin_contiguous: walk on from the cursor while the next number  *)
(* is void or stashed.                                                     *)

Known(s) == s.void \cup Seqs(s.pending)

Reach(s) ==
  Max({s.delivered} \cup
      {n \in Known(s) : n > s.delivered /\ (s.delivered + 1)..n \subseteq Known(s)})

(* A number that is both void and stashed is walked over as void, so its   *)
(* frame stays in the stash.                                               *)
Flushed(s) == {f \in s.pending : f.seq \in (s.delivered + 1)..Reach(s) /\ f.seq \notin s.void}

FlushContiguous(s) ==
  LET rest == s.pending \ Flushed(s)
  IN  [s EXCEPT !.delivered = Reach(s),
                !.void      = @ \ ((s.delivered + 1)..Reach(s)),
                !.pending   = rest,
                !.armed     = @ /\ rest # {},
                !.replayed  = @ /\ rest # {}]

-------------------------------------------------------------------------------
(* hello-ack with the room's sequence header. *)

ResetBy(s, header) == s.joined /\ header < s.delivered

(* Mutant of HelloAcked: every join starts at the header, rejoins too.     *)
HelloAckedAtHeader(s, header) ==
  LET kept == {f \in s.pending : f.seq <= header}
  IN  [s EXCEPT !.delivered = header, !.joined = TRUE, !.pending = kept,
                !.void = {n \in @ : n > header}, !.armed = kept # {}]

HelloAcked(s, header) ==
  LET cursor == IF ~s.joined THEN Max({s.delivered, header})
                ELSE IF ResetBy(s, header) THEN 0
                ELSE s.delivered
      kept   == {f \in s.pending : f.seq <= header}
  IN  [ delivered |-> cursor,
        joined    |-> TRUE,
        pending   |-> kept,
        void      |-> {n \in s.void : ~ResetBy(s, header) /\ n > cursor},
        armed     |-> kept # {},
        replayed  |-> s.joined /\ kept # {} ]

-------------------------------------------------------------------------------
(* deliver_plugin_broadcast: a text frame with a sequence number. *)

Stash(s, f) ==
  [s EXCEPT !.pending = {g \in @ : g.seq # f.seq} \cup {f}, !.armed = TRUE]

Advance(s, f) == [s EXCEPT !.delivered = f.seq]

(* Mutant of Broadcasted: a frame seen before is stashed again.            *)
BroadcastedTwice(s, f) ==
  IF f.seq # s.delivered + 1 THEN Stash(s, f) ELSE FlushContiguous(Advance(s, f))

Broadcasted(s, f) ==
  IF f.seq <= s.delivered THEN s
  ELSE IF f.seq > s.delivered + 1 THEN Stash(s, f)
  ELSE FlushContiguous(Advance(s, f))

HandedByBroadcast(s, f) ==
  IF f.seq = s.delivered + 1 THEN {f} \cup Flushed(Advance(s, f)) ELSE {}

-------------------------------------------------------------------------------
(* plugin-msg-ack and binary frames: a number with nothing to hand over.   *)
(* An ack always walks on; a binary frame at or below the cursor is        *)
(* ignored.                                                                *)

WithVoid(s, n) == IF n > s.delivered THEN [s EXCEPT !.void = @ \cup {n}] ELSE s

Acked(s, n) == FlushContiguous(WithVoid(s, n))

HandedByAck(s, n) == Flushed(WithVoid(s, n))

BinarySeen(s, n) == IF n > s.delivered THEN Acked(s, n) ELSE s

HandedByBinary(s, n) == IF n > s.delivered THEN HandedByAck(s, n) ELSE {}

-------------------------------------------------------------------------------
(* The grace deadline fires inside run_session. *)

(* Before the hello-ack of this connection: the deadline is left over. *)
Disarmed(s) == [s EXCEPT !.armed = FALSE]

(* The `after' of a replay request, on a rejoin and for a gap.             *)
(* Mutant: one less.                                                       *)
ReplayFromBefore(s) == s.delivered - 1

ReplayFrom(s) == s.delivered

(* First expiry: ask the room for a replay once, and wait again.           *)
(* Mutant: the deadline is not set again.                                  *)
ReplayAskedDisarmed(s) == [s EXCEPT !.replayed = TRUE, !.armed = FALSE]

ReplayAsked(s) == [s EXCEPT !.replayed = TRUE]

(* Mutant of GaveUp: the cursor stays where it is.                         *)
GaveUpInPlace(s) == [s EXCEPT !.pending = {}, !.armed = FALSE, !.replayed = FALSE]

(* Second expiry (flush_plugin_gap): hand over what is stashed. *)
GaveUp(s) ==
  LET last == IF s.pending = {} THEN s.delivered ELSE Max(Seqs(s.pending))
  IN  [s EXCEPT !.delivered = last,
                !.pending   = {},
                !.void      = {n \in @ : n > last},
                !.armed     = FALSE,
                !.replayed  = FALSE]

===============================================================================
