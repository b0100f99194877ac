--------------------------- MODULE PluginRelayProofs --------------------------
(***************************************************************************)
(* Facts about the operators of PluginPump (each handler keeps the type of *)
(* the pump's bookkeeping, walks on as far as it can, hands over only      *)
(* frames beyond the cursor, and what it hands over can be put in order),  *)
(* and invariants of PluginRelay, proved for any members, any frames and   *)
(* any bounds: types, the deadline of a stash, the room's cache, that no   *)
(* cursor goes over what its member has not seen, and that a room that     *)
(* stays implements PluginFeed.                                            *)
(***************************************************************************)
EXTENDS PluginRelay, FiniteSetTheorems, SequenceTheorems, WellFoundedInduction, TLAPS

-------------------------------------------------------------------------------
(* The pump. *)

HasMax(T) == \E m \in T : \A y \in T : m >= y

(* A finite nonempty set of integers has a greatest element.  A minimal    *)
(* counterexample T, in the order of strict inclusion, would have an       *)
(* element x whose removal leaves a set that has one.                      *)
LEMMA FiniteHasMax ==
  ASSUME NEW S \in SUBSET Int, IsFiniteSet(S), S # {}
  PROVE  HasMax(S)
<1> DEFINE R == StrictSubsetOrdering(Int)
           F == FiniteSubsetsOf(Int)
           Bad == {T \in F : T # {} /\ ~HasMax(T)}
<1>1. IsWellFoundedOn(R, F)
  BY FS_StrictSubsetOrderingWellFounded
<1>2. SUFFICES ASSUME Bad # {} PROVE FALSE
  BY DEF FiniteSubsetsOf
<1>3. PICK T \in Bad : \A U \in Bad : ~(<<U, T>> \in R)
  <2> HIDE DEF R, F
  <2> QED BY <1>1, <1>2, WFMin
<1>4. PICK x \in T : TRUE
  OBVIOUS
<1> DEFINE U == T \ {x}
<1>5. T \in SUBSET Int /\ IsFiniteSet(T)
  BY DEF FiniteSubsetsOf
<1>6. IsFiniteSet(U) /\ U \in SUBSET Int
  BY <1>5, FS_Subset
<1>7. U \notin Bad
  BY <1>3, <1>4, <1>5, <1>6 DEF StrictSubsetOrdering, FiniteSubsetsOf
<1>8. CASE U = {}
  <2>1. T = {x}
    BY <1>8
  <2> QED BY <2>1, <1>4, <1>5 DEF HasMax
<1>9. CASE U # {}
  <2>1. PICK m \in U : \A y \in U : m >= y
    BY <1>9, <1>7, <1>6 DEF HasMax, FiniteSubsetsOf
  <2>2. CASE x >= m
    BY <2>1, <2>2, <1>4, <1>5 DEF HasMax
  <2>3. CASE ~(x >= m)
    BY <2>1, <2>3, <1>4, <1>5 DEF HasMax
  <2> QED BY <2>2, <2>3
<1> QED BY <1>8, <1>9

(* What the library's Max picks from a finite nonempty set. *)
LEMMA MaxProps ==
  ASSUME NEW S \in SUBSET Int, IsFiniteSet(S), S # {}
  PROVE  Max(S) \in S /\ \A y \in S : Max(S) >= y
BY FiniteHasMax DEF HasMax, Max

-------------------------------------------------------------------------------

LEMMA SeqsType ==
  ASSUME NEW frames \in SUBSET Frame, IsFiniteSet(frames)
  PROVE  Seqs(frames) \in SUBSET Nat /\ IsFiniteSet(Seqs(frames))
<1>1. Seqs(frames) \in SUBSET Nat
  BY DEF Seqs, Frame
<1>2. IsFiniteSet(Seqs(frames))
  <2> DEFINE num == [f \in frames |-> f.seq]
  <2>1. num \in Surjection(frames, Seqs(frames))
    BY DEF Seqs, Surjection
  <2> QED BY <2>1, FS_Surjection
<1> QED BY <1>1, <1>2

LEMMA KnownType ==
  ASSUME NEW s \in Pumps
  PROVE  Known(s) \in SUBSET Nat /\ IsFiniteSet(Known(s))
<1>1. /\ s.pending \in SUBSET Frame /\ IsFiniteSet(s.pending)
      /\ s.void \in SUBSET Nat /\ IsFiniteSet(s.void)
  BY DEF Pumps
<1>2. Seqs(s.pending) \in SUBSET Nat /\ IsFiniteSet(Seqs(s.pending))
  BY <1>1, SeqsType
<1> QED BY <1>1, <1>2, FS_Union DEF Known

(* Walking on goes over known numbers only, and as far as they reach. *)
LEMMA ReachProps ==
  ASSUME NEW s \in Pumps
  PROVE  /\ Reach(s) \in Nat
         /\ Reach(s) >= s.delivered
         /\ (s.delivered + 1)..Reach(s) \subseteq Known(s)
         /\ Reach(s) + 1 \notin Known(s)
<1> DEFINE d == s.delivered
           K == Known(s)
           S == {d} \cup {n \in K : n > d /\ (d + 1)..n \subseteq K}
<1>1. d \in Nat
  BY DEF Pumps
<1>2. K \in SUBSET Nat /\ IsFiniteSet(K)
  BY KnownType
<1>3. S \in SUBSET Int /\ S # {}
  BY <1>1, <1>2
<1>4. IsFiniteSet(S)
  <2>1. IsFiniteSet(K \cup {d})
    BY <1>2, FS_AddElement
  <2>2. S \in SUBSET (K \cup {d})
    OBVIOUS
  <2> QED BY <2>1, <2>2, FS_Subset
<1>5. Reach(s) = Max(S)
  BY DEF Reach
<1> DEFINE r == Reach(s)
<1>6. r \in S /\ \A y \in S : r >= y
  <2> HIDE DEF S
  <2> QED BY <1>3, <1>4, <1>5, MaxProps
<1>7. r \in Nat /\ r >= d
  BY <1>1, <1>2, <1>6
<1>8. (d + 1)..r \subseteq K
  BY <1>1, <1>6
<1>9. r + 1 \notin K
  <2> SUFFICES ASSUME r + 1 \in K PROVE FALSE
    OBVIOUS
  <2>1. (d + 1)..(r + 1) \subseteq K
    BY <1>1, <1>7, <1>8
  <2>2. r + 1 \in S
    BY <2>1, <1>1, <1>7
  <2>3. r >= r + 1
    BY <2>2, <1>6
  <2> QED BY <2>3, <1>7
<1> QED BY <1>7, <1>8, <1>9

(* flush_plugin_contiguous keeps the type, never moves the cursor back,    *)
(* keeps no deliverable number waiting, and holds on to the deadline while *)
(* frames stay in the stash.                                               *)
LEMMA FlushProps ==
  ASSUME NEW s \in Pumps
  PROVE  /\ FlushContiguous(s) \in Pumps
         /\ FlushContiguous(s).delivered >= s.delivered
         /\ FlushContiguous(s).delivered + 1 \notin Known(FlushContiguous(s))
         /\ FlushContiguous(s).pending \subseteq s.pending
         /\ s.armed /\ FlushContiguous(s).pending # {} => FlushContiguous(s).armed
<1> DEFINE t == FlushContiguous(s)
           rest == s.pending \ Flushed(s)
           left == s.void \ ((s.delivered + 1)..Reach(s))
<1>1. /\ Reach(s) \in Nat /\ Reach(s) >= s.delivered
      /\ Reach(s) + 1 \notin Known(s)
  BY ReachProps
<1>2. /\ s.pending \in SUBSET Frame /\ IsFiniteSet(s.pending)
      /\ s.void \in SUBSET Nat /\ IsFiniteSet(s.void)
      /\ s.joined \in BOOLEAN /\ s.armed \in BOOLEAN /\ s.replayed \in BOOLEAN
      /\ s = [delivered |-> s.delivered, joined |-> s.joined, pending |-> s.pending,
              void |-> s.void, armed |-> s.armed, replayed |-> s.replayed]
  BY DEF Pumps
<1>3. /\ t \in [delivered : Nat, joined : BOOLEAN, pending : SUBSET Frame,
                void : SUBSET Nat, armed : BOOLEAN, replayed : BOOLEAN]
      /\ t.delivered = Reach(s) /\ t.pending = rest /\ t.void = left
      /\ t.armed = (s.armed /\ rest # {})
  <2> DEFINE a == s.armed /\ rest # {}
             r == s.replayed /\ rest # {}
  <2>1. t = [s EXCEPT !.delivered = Reach(s), !.void = left, !.pending = rest,
                      !.armed = a, !.replayed = r]
    BY DEF FlushContiguous
  <2>2. a \in BOOLEAN /\ r \in BOOLEAN /\ rest \in SUBSET Frame /\ left \in SUBSET Nat
    BY <1>2
  <2>3. a = (s.armed /\ rest # {})
    OBVIOUS
  <2> HIDE DEF a, r, t, rest, left
  <2> QED BY <1>1, <1>2, <2>1, <2>2, <2>3
<1>4. IsFiniteSet(rest) /\ IsFiniteSet(left)
  BY <1>2, FS_Subset
<1>5. t \in Pumps
  <2> HIDE DEF t
  <2> QED BY <1>3, <1>4 DEF Pumps
<1>6. Known(t) \subseteq Known(s)
  <2> HIDE DEF t
  <2> QED BY <1>3 DEF Known, Seqs
<1> HIDE DEF t
<1> QED BY <1>1, <1>3, <1>5, <1>6 DEF t

LEMMA HelloAckedProps ==
  ASSUME NEW s \in Pumps, NEW header \in Nat
  PROVE  /\ HelloAcked(s, header) \in Pumps
         /\ HelloAcked(s, header).pending # {} => HelloAcked(s, header).armed
         /\ HelloAcked(s, header).pending \subseteq s.pending
<1> DEFINE t == HelloAcked(s, header)
<1>1. /\ s.delivered \in Nat /\ s.joined \in BOOLEAN
      /\ s.pending \in SUBSET Frame /\ IsFiniteSet(s.pending)
      /\ s.void \in SUBSET Nat /\ IsFiniteSet(s.void)
  BY DEF Pumps
<1>2. Max({s.delivered, header}) \in Nat
  <2>1. IsFiniteSet({s.delivered, header})
    <3>1. IsFiniteSet({header})
      BY FS_Singleton
    <3>2. IsFiniteSet({header} \cup {s.delivered})
      BY <3>1, FS_AddElement
    <3>3. {header} \cup {s.delivered} = {s.delivered, header}
      OBVIOUS
    <3> QED BY <3>2, <3>3
  <2>2. Max({s.delivered, header}) \in {s.delivered, header}
    <3> DEFINE M == {s.delivered, header}
    <3>1. M \in SUBSET Int /\ M # {} /\ IsFiniteSet(M)
      BY <2>1, <1>1
    <3> HIDE DEF M
    <3>2. Max(M) \in M
      BY <3>1, MaxProps
    <3> QED BY <3>2 DEF M
  <2> QED BY <2>2, <1>1
<1>3. t.delivered \in Nat
  BY <1>1, <1>2 DEF HelloAcked
<1>4. t.pending \in SUBSET s.pending /\ t.void \in SUBSET s.void
  BY DEF HelloAcked
<1>5. IsFiniteSet(t.pending) /\ IsFiniteSet(t.void)
  BY <1>1, <1>4, FS_Subset
<1>6. t.armed = (t.pending # {}) /\ t.joined = TRUE /\ t.replayed \in BOOLEAN
  BY <1>1 DEF HelloAcked
<1>7. t = [delivered |-> t.delivered, joined |-> t.joined, pending |-> t.pending,
           void |-> t.void, armed |-> t.armed, replayed |-> t.replayed]
  BY DEF HelloAcked
<1>8. t \in Pumps
  <2> HIDE DEF t
  <2> QED BY <1>1, <1>3, <1>4, <1>5, <1>6, <1>7 DEF Pumps
<1> QED BY <1>4, <1>6, <1>8

(* The handlers of one session: a stash that has its deadline keeps it.    *)
Guarded(s) == s.pending # {} => s.armed

LEMMA StashProps ==
  ASSUME NEW s \in Pumps, NEW f \in Frame
  PROVE  Stash(s, f) \in Pumps /\ Stash(s, f).armed /\ Stash(s, f).delivered = s.delivered
<1> DEFINE more == {g \in s.pending : g.seq # f.seq} \cup {f}
<1>1. s.pending \in SUBSET Frame /\ IsFiniteSet(s.pending) /\ IsFiniteSet(s.void)
  BY DEF Pumps
<1>2. more \in SUBSET Frame
  BY <1>1
<1>3. IsFiniteSet(more)
  <2>1. IsFiniteSet({g \in s.pending : g.seq # f.seq})
    BY <1>1, FS_Subset
  <2> QED BY <2>1, FS_AddElement
<1>4. Stash(s, f) = [s EXCEPT !.pending = more, !.armed = TRUE]
  BY DEF Stash
<1> HIDE DEF more
<1> QED BY <1>1, <1>2, <1>3, <1>4 DEF Pumps

LEMMA AdvanceProps ==
  ASSUME NEW s \in Pumps, NEW f \in Frame
  PROVE  /\ Advance(s, f) \in Pumps
         /\ Advance(s, f).delivered = f.seq
         /\ Advance(s, f).pending = s.pending /\ Advance(s, f).armed = s.armed
BY DEF Advance, Pumps, Frame

(* deliver_plugin_broadcast. *)
LEMMA BroadcastedProps ==
  ASSUME NEW s \in Pumps, NEW f \in Frame
  PROVE  /\ Broadcasted(s, f) \in Pumps
         /\ Guarded(s) => Guarded(Broadcasted(s, f))
         /\ Broadcasted(s, f).delivered >= s.delivered
<1>1. s.delivered \in Nat /\ f.seq \in Nat
  BY DEF Pumps, Frame
<1>2. CASE f.seq <= s.delivered
  BY <1>1, <1>2 DEF Broadcasted
<1>3. CASE f.seq > s.delivered + 1
  <2>1. Broadcasted(s, f) = Stash(s, f)
    BY <1>1, <1>3 DEF Broadcasted
  <2> QED BY <1>1, <2>1, StashProps DEF Guarded
<1>4. CASE f.seq = s.delivered + 1
  <2>1. Broadcasted(s, f) = FlushContiguous(Advance(s, f))
    BY <1>1, <1>4 DEF Broadcasted
  <2>2. FlushContiguous(Advance(s, f)).delivered \in Nat
    BY AdvanceProps, FlushProps DEF Pumps
  <2> QED BY <1>1, <1>4, <2>1, <2>2, AdvanceProps, FlushProps DEF Guarded
<1> QED BY <1>1, <1>2, <1>3, <1>4

LEMMA WithVoidProps ==
  ASSUME NEW s \in Pumps, NEW n \in Nat
  PROVE  /\ WithVoid(s, n) \in Pumps
         /\ WithVoid(s, n).pending = s.pending /\ WithVoid(s, n).armed = s.armed
         /\ WithVoid(s, n).delivered = s.delivered
<1>1. IsFiniteSet(s.void) /\ s.void \in SUBSET Nat
  BY DEF Pumps
<1>2. IsFiniteSet(s.void \cup {n}) /\ s.void \cup {n} \in SUBSET Nat
  BY <1>1, FS_AddElement
<1> QED BY <1>1, <1>2 DEF WithVoid, Pumps

(* plugin-msg-ack. *)
LEMMA AckedProps ==
  ASSUME NEW s \in Pumps, NEW n \in Nat
  PROVE  /\ Acked(s, n) \in Pumps
         /\ Guarded(s) => Guarded(Acked(s, n))
         /\ Acked(s, n).delivered >= s.delivered
         /\ Acked(s, n).delivered + 1 \notin Known(Acked(s, n))
<1> DEFINE v == WithVoid(s, n)
<1>1. /\ v \in Pumps /\ v.pending = s.pending /\ v.armed = s.armed
      /\ v.delivered = s.delivered
  BY WithVoidProps
<1>2. Acked(s, n) = FlushContiguous(v)
  BY DEF Acked
<1> HIDE DEF v
<1> QED BY <1>1, <1>2, FlushProps DEF Guarded

(* A binary frame. *)
LEMMA BinarySeenProps ==
  ASSUME NEW s \in Pumps, NEW n \in Nat
  PROVE  /\ BinarySeen(s, n) \in Pumps
         /\ Guarded(s) => Guarded(BinarySeen(s, n))
         /\ BinarySeen(s, n).delivered >= s.delivered
<1>1. s.delivered \in Nat
  BY DEF Pumps
<1>2. CASE n > s.delivered
  <2>1. BinarySeen(s, n) = Acked(s, n)
    BY <1>2 DEF BinarySeen
  <2> QED BY <2>1, AckedProps
<1>3. CASE ~(n > s.delivered)
  <2>1. BinarySeen(s, n) = s
    BY <1>3 DEF BinarySeen
  <2> QED BY <1>1, <2>1
<1> QED BY <1>2, <1>3

(* The deadline's three outcomes. *)
LEMMA DisarmedProps ==
  ASSUME NEW s \in Pumps
  PROVE  Disarmed(s) \in Pumps
BY DEF Disarmed, Pumps

LEMMA ReplayAskedProps ==
  ASSUME NEW s \in Pumps
  PROVE  /\ ReplayAsked(s) \in Pumps
         /\ Guarded(s) => Guarded(ReplayAsked(s))
BY DEF ReplayAsked, Pumps, Guarded

LEMMA GaveUpProps ==
  ASSUME NEW s \in Pumps
  PROVE  GaveUp(s) \in Pumps /\ GaveUp(s).pending = {}
<1> DEFINE last == IF s.pending = {} THEN s.delivered ELSE Max(Seqs(s.pending))
           left == {n \in s.void : n > last}
<1>1. /\ s.pending \in SUBSET Frame /\ IsFiniteSet(s.pending)
      /\ s.void \in SUBSET Nat /\ IsFiniteSet(s.void) /\ s.delivered \in Nat
  BY DEF Pumps
<1>2. last \in Nat
  <2>1. CASE s.pending = {}
    BY <1>1, <2>1
  <2>2. CASE s.pending # {}
    <3>1. Seqs(s.pending) \in SUBSET Nat /\ IsFiniteSet(Seqs(s.pending))
      BY <1>1, SeqsType
    <3>2. Seqs(s.pending) # {}
      BY <2>2 DEF Seqs
    <3>3. Max(Seqs(s.pending)) \in Seqs(s.pending)
      BY <3>1, <3>2, MaxProps
    <3> QED BY <2>2, <3>1, <3>3
  <2> QED BY <2>1, <2>2
<1>3. IsFiniteSet(left) /\ left \in SUBSET Nat
  BY <1>1, FS_Subset
<1>4. GaveUp(s) = [s EXCEPT !.delivered = last, !.pending = {}, !.void = left,
                           !.armed = FALSE, !.replayed = FALSE]
  BY DEF GaveUp
<1>5. IsFiniteSet({})
  BY FS_EmptySet
<1> HIDE DEF last, left
<1> QED BY <1>1, <1>2, <1>3, <1>4, <1>5 DEF Pumps

-------------------------------------------------------------------------------
(* The room and its members. *)

(* Unfolds Next; the steps that leave the pumps alone are taken together.  *)
LEMMA PumpSteps ==
  ASSUME NEW c \in Clients, PumpTypeOK, ClientRecv(c)
  PROVE  \/ \E m \in Hello : RecvHello(c, m)
         \/ \E m \in Message : RecvFrame(c, m)
         \/ \E m \in Ack : RecvAck(c, m)
         \/ UNCHANGED <<ready, pump>>
BY DEF ClientRecv, RecvHello, RecvFrame, RecvAck, RecvOther

LEMMA IdlePumpSteps ==
  ASSUME [Next]_vars,
         ~ \E c \in Clients : Join(c) \/ Drop(c) \/ ClientRecv(c) \/ GapTimer(c)
  PROVE  UNCHANGED <<ready, pump>>
BY DEF Next, vars, clientVars, Leave, ServerRecv, QueueOther, Publish

(* What the pumps keep has its type: cursors are naturals, the stash holds *)
(* frames, and stash and void set stay finite.                             *)
THEOREM PumpsTyped == Spec => []PumpTypeOK
<1>1. Init => PumpTypeOK
  <2>1. PumpInit \in Pumps
    BY FS_EmptySet DEF PumpInit, Pumps
  <2> QED BY <2>1 DEF Init, PumpTypeOK
<1>2. PumpTypeOK /\ [Next]_vars => PumpTypeOK'
  <2> SUFFICES ASSUME PumpTypeOK, [Next]_vars PROVE PumpTypeOK'
    OBVIOUS
  <2>1. ASSUME NEW c \in Clients, ClientRecv(c) PROVE PumpTypeOK'
    <3>1. ASSUME NEW m \in Hello, RecvHello(c, m) PROVE PumpTypeOK'
      <4>1. m.pluginSeq \in Nat /\ pump[c] \in Pumps
        BY DEF Hello, PumpTypeOK
      <4>2. HelloAcked(pump[c], m.pluginSeq) \in Pumps
        BY <4>1, HelloAckedProps
      <4> QED BY <3>1, <4>2 DEF RecvHello, PumpTypeOK
    <3>2. ASSUME NEW m \in Message, RecvFrame(c, m) PROVE PumpTypeOK'
      <4>1. m.frame \in Frame /\ m.frame.seq \in Nat /\ pump[c] \in Pumps
        BY DEF Message, Frame, PumpTypeOK
      <4>2. /\ Broadcasted(pump[c], m.frame) \in Pumps
            /\ BinarySeen(pump[c], m.frame.seq) \in Pumps
        BY <4>1, BroadcastedProps, BinarySeenProps
      <4> QED BY <3>2, <4>2 DEF RecvFrame, PumpTypeOK
    <3>3. ASSUME NEW m \in Ack, RecvAck(c, m) PROVE PumpTypeOK'
      <4>1. m.seq \in Nat /\ pump[c] \in Pumps
        BY DEF Ack, PumpTypeOK
      <4>2. Acked(pump[c], m.seq) \in Pumps
        BY <4>1, AckedProps
      <4> QED BY <3>3, <4>2 DEF RecvAck, PumpTypeOK
    <3> QED BY <2>1, <3>1, <3>2, <3>3, PumpSteps DEF PumpTypeOK
  <2>2. ASSUME NEW c \in Clients, GapTimer(c) PROVE PumpTypeOK'
    <3>1. pump[c] \in Pumps
      BY DEF PumpTypeOK
    <3>2. /\ Disarmed(pump[c]) \in Pumps
          /\ ReplayAsked(pump[c]) \in Pumps
          /\ GaveUp(pump[c]) \in Pumps
      BY <3>1, DisarmedProps, ReplayAskedProps, GaveUpProps
    <3> QED BY <2>2, <3>2 DEF GapTimer, PumpTypeOK
  <2>3. ASSUME NEW c \in Clients, Join(c) \/ Drop(c) PROVE PumpTypeOK'
    BY <2>3 DEF Join, Drop, PumpTypeOK
  <2> QED BY <2>1, <2>2, <2>3, IdlePumpSteps DEF PumpTypeOK
<1> QED BY <1>1, <1>2, PTL DEF Spec

(* A stash of a pump that is ready always has its deadline: whatever       *)
(* reconnects, resets, replays and lost frames did before, no frame waits  *)
(* for a predecessor without a timer that ends the wait.                   *)
THEOREM StashesArmed == Spec => []StashArmed
<1>1. Init => StashArmed
  BY DEF Init, StashArmed
<1>2. PumpTypeOK /\ StashArmed /\ [Next]_vars => StashArmed'
  <2> SUFFICES ASSUME PumpTypeOK, StashArmed, [Next]_vars,
                      NEW c \in Clients, ready'[c]
               PROVE  Guarded(pump'[c])
    BY DEF StashArmed, Guarded
  <2>1. pump[c] \in Pumps /\ (ready[c] => Guarded(pump[c]))
    BY DEF PumpTypeOK, StashArmed, Guarded
  <2>2. ASSUME NEW d \in Clients, ClientRecv(d) PROVE Guarded(pump'[c])
    <3>1. ASSUME NEW m \in Hello, RecvHello(d, m) PROVE Guarded(pump'[c])
      <4>1. m.pluginSeq \in Nat
        BY DEF Hello
      <4>2. Guarded(HelloAcked(pump[c], m.pluginSeq))
        BY <2>1, <4>1, HelloAckedProps DEF Guarded
      <4>3. c # d => ready[c] /\ pump'[c] = pump[c]
        BY <3>1 DEF RecvHello, PumpTypeOK
      <4>4. c = d => pump'[c] = HelloAcked(pump[c], m.pluginSeq)
        BY <3>1 DEF RecvHello, PumpTypeOK
      <4> QED BY <2>1, <4>2, <4>3, <4>4
    <3>2. ASSUME NEW m \in Message, RecvFrame(d, m) PROVE Guarded(pump'[c])
      <4>1. m.frame \in Frame /\ m.frame.seq \in Nat
        BY DEF Message, Frame
      <4>2. Guarded(pump[c])
        BY <2>1, <3>2 DEF RecvFrame
      <4>3. /\ Guarded(Broadcasted(pump[c], m.frame))
            /\ Guarded(BinarySeen(pump[c], m.frame.seq))
        BY <2>1, <4>1, <4>2, BroadcastedProps, BinarySeenProps
      <4> QED BY <3>2, <4>2, <4>3 DEF RecvFrame, PumpTypeOK
    <3>3. ASSUME NEW m \in Ack, RecvAck(d, m) PROVE Guarded(pump'[c])
      <4>1. m.seq \in Nat
        BY DEF Ack
      <4>2. Guarded(pump[c])
        BY <2>1, <3>3 DEF RecvAck
      <4>3. Guarded(Acked(pump[c], m.seq))
        BY <2>1, <4>1, <4>2, AckedProps
      <4> QED BY <3>3, <4>2, <4>3 DEF RecvAck, PumpTypeOK
    <3> QED BY <2>1, <2>2, <3>1, <3>2, <3>3, PumpSteps
  <2>3. ASSUME NEW d \in Clients, GapTimer(d) PROVE Guarded(pump'[c])
    <3>1. Guarded(pump[c])
      BY <2>1, <2>3 DEF GapTimer
    <3>2. c # d => pump'[c] = pump[c]
      BY <2>3 DEF GapTimer, PumpTypeOK
    <3>3. c = d => pump'[c] \in {ReplayAsked(pump[c]), GaveUp(pump[c])}
      BY <2>3 DEF GapTimer, PumpTypeOK
    <3>4. Guarded(ReplayAsked(pump[c])) /\ Guarded(GaveUp(pump[c]))
      BY <2>1, <3>1, ReplayAskedProps, GaveUpProps DEF Guarded
    <3> QED BY <3>1, <3>2, <3>3, <3>4
  <2>4. ASSUME NEW d \in Clients, Join(d) \/ Drop(d) PROVE Guarded(pump'[c])
    BY <2>1, <2>4 DEF Join, Drop, PumpTypeOK
  <2> QED BY <2>1, <2>2, <2>3, <2>4, IdlePumpSteps
<1> QED BY <1>1, <1>2, PumpsTyped, PTL DEF Spec

-------------------------------------------------------------------------------
(* The room's cache.                                                       *)

CacheInv == RoomTypeOK /\ CacheIsTail

(* What eviction leaves is a suffix of the frames with the new one behind  *)
(* them, no longer than the limit.                                         *)
LEMMA CachedProps ==
  ASSUME NEW cache \in Seq(Frame), Len(cache) <= CacheMax, NEW f \in Frame,
         NEW kept \in Cached(cache, f)
  PROVE  /\ kept \in Seq(Frame)
         /\ Len(kept) <= CacheMax
         /\ Len(kept) <= Len(cache) + 1
         /\ \A i \in 1..Len(kept) :
               kept[i] = IF i = Len(kept) THEN f ELSE cache[Len(cache) + 1 - Len(kept) + i]
<1> DEFINE all == Append(cache, f)
           L == Len(cache)
           most == IF Len(all) > CacheMax THEN Len(all) - CacheMax ELSE 0
<1>1. /\ all \in Seq(Frame) /\ L \in Nat /\ Len(all) = L + 1
      /\ \A i \in 1..L + 1 : all[i] = IF i = L + 1 THEN f ELSE cache[i]
  OBVIOUS
<1>2. CacheMax \in Nat
  BY CacheAssumption
<1>3. PICK k \in (IF BytePressure THEN most..Len(all) ELSE {most}) :
        kept = SubSeq(all, k + 1, Len(all))
  BY DEF Cached
<1> HIDE DEF all, L
<1>4. k \in Nat /\ k >= most /\ k <= L + 1
  BY <1>1, <1>2, <1>3
<1>5. L + 1 - k <= CacheMax
  BY <1>1, <1>2, <1>4
<1> HIDE DEF most
<1>6. /\ kept \in Seq(Frame) /\ Len(kept) = L + 1 - k
      /\ \A i \in 1..L + 1 - k : kept[i] = all[k + i]
  BY <1>1, <1>3, <1>4
<1>7. \A i \in 1..L + 1 - k : kept[i] = IF k + i = L + 1 THEN f ELSE cache[k + i]
  BY <1>1, <1>4, <1>6
<1>8. ASSUME NEW i \in 1..Len(kept)
      PROVE  kept[i] = IF i = Len(kept) THEN f ELSE cache[L + 1 - Len(kept) + i]
  <2>1. /\ i \in 1..L + 1 - k
        /\ L + 1 - Len(kept) + i = k + i
        /\ k + i = L + 1 <=> i = Len(kept)
    BY <1>1, <1>4, <1>6, SMTT(30)
  <2>2. kept[i] = IF k + i = L + 1 THEN f ELSE cache[k + i]
    BY <2>1, <1>7
  <2> QED BY <2>1, <2>2
<1> QED BY <1>1, <1>4, <1>5, <1>6, <1>8 DEF L

(* The cache is always the unbroken tail of the room's numbering, so a     *)
(* replay misses what was evicted and never a number in the middle.        *)
THEOREM CacheStaysTail == Spec => []CacheInv
<1>1. Init => CacheInv
  BY CacheAssumption, BoundsAssumption DEF Init, CacheInv, RoomTypeOK, CacheIsTail, PeerIds
<1>2. CacheInv /\ [Next]_vars => CacheInv'
  <2> SUFFICES ASSUME CacheInv, [Next]_vars PROVE CacheInv'
    OBVIOUS
  <2>1. /\ nextPeer \in 1..MaxConns + 1 /\ peers \subseteq PeerIds
        /\ room \in [epoch : Nat, seq : Nat, cache : Seq(Frame)]
        /\ MaxConns \in Nat /\ CacheMax \in Nat
    BY BoundsAssumption, CacheAssumption DEF CacheInv, RoomTypeOK
  <2>2. ASSUME NEW c \in Clients, Join(c) PROVE CacheInv'
    BY <2>1, <2>2 DEF Join, CacheInv, RoomTypeOK, CacheIsTail, PeerIds
  <2>3. ASSUME NEW p \in PeerIds, Leave(p) PROVE CacheInv'
    <3>1. CASE room' = room
      BY <2>3, <3>1 DEF Leave, CacheInv, RoomTypeOK, CacheIsTail
    <3>2. CASE room' = Rebuilt(room)
      BY <2>1, <2>3, <3>2 DEF Leave, Rebuilt, CacheInv, RoomTypeOK, CacheIsTail
    <3> QED BY <2>3, <3>1, <3>2 DEF Leave
  <2>4. ASSUME NEW p \in PeerIds, ServerRecv(p) PROVE CacheInv'
    <3>1. UNCHANGED <<nextPeer, peers>>
      BY <2>4 DEF ServerRecv
    <3>2. CASE HandlePublication(p)
      <4> DEFINE f == [epoch |-> room.epoch, seq |-> room.seq + 1, sender |-> p, kind |-> Head(up[p]).kind]
      <4>1. f \in Frame
        BY <2>1, <3>2 DEF HandlePublication, Publication, Frame, PeerIds
      <4>2. PICK kept \in Cached(room.cache, f) :
              room' = [room EXCEPT !.seq = @ + 1, !.cache = kept]
        BY <3>2 DEF HandlePublication
      <4> HIDE DEF f
      <4>3. /\ Len(room.cache) <= CacheMax
            /\ \A i \in 1..Len(room.cache) :
                  /\ room.cache[i].seq = room.seq - Len(room.cache) + i
                  /\ room.cache[i].epoch = room.epoch
        BY DEF CacheInv, CacheIsTail
      <4>4. /\ kept \in Seq(Frame) /\ Len(kept) <= CacheMax /\ Len(kept) <= Len(room.cache) + 1
            /\ \A i \in 1..Len(kept) :
                  kept[i] = IF i = Len(kept) THEN f
                            ELSE room.cache[Len(room.cache) + 1 - Len(kept) + i]
        BY <2>1, <4>1, <4>3, CachedProps
      <4>5. /\ room'.epoch = room.epoch /\ room'.seq = room.seq + 1 /\ room'.cache = kept
            /\ room' \in [epoch : Nat, seq : Nat, cache : Seq(Frame)]
        <5>1. room' = [epoch |-> room.epoch, seq |-> room.seq + 1, cache |-> kept]
          BY <2>1, <4>2
        <5>2. room.epoch \in Nat /\ room.seq + 1 \in Nat /\ kept \in Seq(Frame)
          BY <2>1, <4>4
        <5> QED BY <5>1, <5>2
      <4>6. ASSUME NEW i \in 1..Len(kept)
            PROVE  kept[i].seq = room.seq + 1 - Len(kept) + i /\ kept[i].epoch = room.epoch
        <5>1. CASE i = Len(kept)
          BY <2>1, <4>4, <5>1 DEF f
        <5>2. CASE i # Len(kept)
          <6> DEFINE j == Len(room.cache) + 1 - Len(kept) + i
          <6>1. j \in 1..Len(room.cache) /\ kept[i] = room.cache[j]
            BY <2>1, <4>4, <5>2
          <6>2. room.cache[j].seq = room.seq - Len(room.cache) + j /\ room.cache[j].epoch = room.epoch
            BY <4>3, <6>1
          <6> QED BY <2>1, <4>4, <6>1, <6>2
        <5> QED BY <5>1, <5>2
      <4>7. RoomTypeOK'
        BY <3>1, <4>5 DEF CacheInv, RoomTypeOK
      <4>8. CacheIsTail'
        BY <2>1, <4>4, <4>5, <4>6 DEF CacheIsTail
      <4> QED BY <4>7, <4>8 DEF CacheInv
    <3>3. CASE HandleReplay(p)
      BY <3>1, <3>3 DEF HandleReplay, CacheInv, RoomTypeOK, CacheIsTail
    <3> QED BY <2>4, <3>2, <3>3 DEF ServerRecv
  <2>5. CASE UNCHANGED <<nextPeer, peers, room>>
    BY <2>5 DEF CacheInv, RoomTypeOK, CacheIsTail
  <2>6. CASE \/ \E p \in PeerIds : QueueOther(p)
             \/ \E c \in Clients : Drop(c) \/ ClientRecv(c) \/ GapTimer(c)
             \/ \E c \in Clients, kind \in Kinds : Publish(c, kind)
             \/ UNCHANGED vars
    BY <2>5, <2>6 DEF QueueOther, Drop, ClientRecv, GapTimer, Publish, serverVars, vars
  <2> QED BY <2>2, <2>3, <2>4, <2>6 DEF Next
<1> QED BY <1>1, <1>2, PTL DEF Spec

(* The property of that name, from the invariant. *)
THEOREM CacheTail == Spec => []CacheIsTail
BY CacheStaysTail, PTL DEF CacheInv

-------------------------------------------------------------------------------
(* Frames in the order of their numbers.                                   *)

Distinct(frames) == \A f, g \in frames : f.seq = g.seq => f = g

Ascending(q) == \A i, j \in DOMAIN q : i < j => q[i].seq < q[j].seq

Ordered(frames) == \E q \in [1..Cardinality(frames) -> frames] : Ascending(q)

(* Frames with different numbers can be put in their order.  A minimal     *)
(* counterexample T, in the order of strict inclusion, has a frame with    *)
(* the greatest number; the others can be ordered, and it goes behind      *)
(* them.                                                                   *)
LEMMA DistinctAreOrdered ==
  ASSUME NEW S \in SUBSET Frame, IsFiniteSet(S), Distinct(S)
  PROVE  Ordered(S)
<1> DEFINE R == StrictSubsetOrdering(Frame)
           F == FiniteSubsetsOf(Frame)
           Bad == {T \in F : Distinct(T) /\ ~Ordered(T)}
<1>1. IsWellFoundedOn(R, F)
  BY FS_StrictSubsetOrderingWellFounded
<1>2. SUFFICES ASSUME Bad # {} PROVE FALSE
  BY DEF FiniteSubsetsOf
<1>3. PICK T \in Bad : \A U \in Bad : ~(<<U, T>> \in R)
  <2> HIDE DEF R, F
  <2> QED BY <1>1, <1>2, WFMin
<1>4. T \in SUBSET Frame /\ IsFiniteSet(T) /\ Distinct(T) /\ ~Ordered(T)
  BY DEF FiniteSubsetsOf
<1>5. T # {}
  <2> SUFFICES ASSUME T = {} PROVE FALSE
    OBVIOUS
  <2>1. Cardinality(T) = 0
    BY FS_EmptySet
  <2>2. [i \in 1..0 |-> 0] \in [1..0 -> T] /\ Ascending([i \in 1..0 |-> 0])
    BY DEF Ascending
  <2> QED BY <1>4, <2>1, <2>2 DEF Ordered
<1>6. Seqs(T) \in SUBSET Nat /\ IsFiniteSet(Seqs(T)) /\ Seqs(T) # {}
  BY <1>4, <1>5, SeqsType DEF Seqs
<1>7. PICK x \in T : \A g \in T : x.seq >= g.seq
  <2>1. HasMax(Seqs(T))
    BY <1>6, FiniteHasMax
  <2> QED BY <2>1 DEF HasMax, Seqs
<1> DEFINE U == T \ {x}
           n == Cardinality(U)
<1>8. /\ U \in SUBSET Frame /\ IsFiniteSet(U) /\ Distinct(U)
      /\ n \in Nat /\ Cardinality(T) = n + 1
  <2>1. Cardinality(T) \in Nat /\ IsFiniteSet(U) /\ n = Cardinality(T) - 1
    BY <1>4, FS_CardinalityType, FS_RemoveElement
  <2>2. n \in Nat
    BY <2>1, FS_CardinalityType
  <2> QED BY <1>4, <2>1, <2>2 DEF Distinct
<1>9. Ordered(U)
  <2>1. U \in F /\ T \in SUBSET Frame /\ U \subseteq T /\ U # T
    BY <1>4, <1>7, <1>8 DEF FiniteSubsetsOf
  <2>2. <<U, T>> \in R
    BY <1>8, <2>1 DEF StrictSubsetOrdering
  <2>3. U \notin Bad
    BY <1>3, <2>2
  <2> QED BY <1>8, <2>1, <2>3
<1>10. PICK q \in [1..n -> U] : Ascending(q)
  BY <1>9 DEF Ordered
<1> HIDE DEF n
<1>11. \A g \in U : g.seq < x.seq
  BY <1>4, <1>7 DEF Distinct, Frame
<1> DEFINE r == [i \in 1..n + 1 |-> IF i = n + 1 THEN x ELSE q[i]]
<1>12. r \in [1..n + 1 -> T]
  <2>1. \A i \in 1..n + 1 : i # n + 1 => i \in 1..n
    BY <1>8
  <2> QED BY <1>10, <2>1
<1>13. Ascending(r)
  <2> SUFFICES ASSUME NEW i \in 1..n + 1, NEW j \in 1..n + 1, i < j
               PROVE  r[i].seq < r[j].seq
    BY DEF Ascending
  <2>1. i \in 1..n /\ r[i] = q[i] /\ q[i] \in U
    BY <1>8, <1>10
  <2>2. CASE j = n + 1
    BY <1>11, <2>1, <2>2
  <2>3. CASE j # n + 1
    BY <1>8, <1>10, <2>1, <2>3 DEF Ascending
  <2> QED BY <2>2, <2>3
<1> QED BY <1>4, <1>8, <1>12, <1>13 DEF Ordered

(* What is handed over or replayed: the frames of the set, no others.      *)
LEMMA InSeqOrderProps ==
  ASSUME NEW S \in SUBSET Frame, IsFiniteSet(S), Distinct(S)
  PROVE  /\ InSeqOrder(S) \in Seq(Frame)
         /\ Range(InSeqOrder(S)) = S
         /\ Ascending(InSeqOrder(S))
<1> DEFINE n == Cardinality(S)
           q == InSeqOrder(S)
<1>1. n \in Nat
  BY FS_CardinalityType
<1>2. q \in [1..n -> S] /\ Ascending(q)
  BY DistinctAreOrdered DEF Ordered, Ascending, InSeqOrder
<1> HIDE DEF q, n
<1>3. q \in Injection(1..n, S)
  <2> SUFFICES ASSUME NEW i \in 1..n, NEW j \in 1..n, q[i] = q[j] PROVE i = j
    BY <1>2 DEF Injection, IsInjective
  <2>1. q[i].seq \in Nat
    BY <1>2 DEF Frame
  <2> QED BY <1>1, <1>2, <2>1 DEF Ascending
<1>4. q \in Surjection(1..n, S)
  <2>1. Cardinality(1..n) = n
    BY <1>1, FS_Interval
  <2> QED BY <1>3, <2>1, FS_Injection DEF n
<1>5. q \in Seq(Frame)
  BY <1>1, <1>2
<1>6. Range(q) = S
  BY <1>2, <1>4 DEF Surjection, Range
<1> QED BY <1>2, <1>5, <1>6 DEF q

-------------------------------------------------------------------------------
(* The stash is a map by number: no two of its frames share one, so what a *)
(* handler hands over has an order.                                        *)

StashDistinct == \A c \in Clients : Distinct(pump[c].pending)

LEMMA FlushDistinct ==
  ASSUME NEW s \in Pumps, Distinct(s.pending)
  PROVE  Distinct(FlushContiguous(s).pending)
BY FlushProps DEF Distinct

LEMMA HelloAckedDistinct ==
  ASSUME NEW s \in Pumps, NEW header \in Nat, Distinct(s.pending)
  PROVE  Distinct(HelloAcked(s, header).pending)
BY HelloAckedProps DEF Distinct

LEMMA StashDistinctProps ==
  ASSUME NEW s \in Pumps, NEW f \in Frame, Distinct(s.pending)
  PROVE  Distinct(Stash(s, f).pending)
<1>1. Stash(s, f).pending = {g \in s.pending : g.seq # f.seq} \cup {f}
  BY DEF Stash, Pumps
<1> QED BY <1>1 DEF Distinct

(* What a handler hands over, once it is known to be of the stash. *)
Handable(frames) == frames \in SUBSET Frame /\ IsFiniteSet(frames) /\ Distinct(frames)

LEMMA PartHandable ==
  ASSUME NEW s \in Pumps, Distinct(s.pending), NEW frames \in SUBSET s.pending
  PROVE  Handable(frames)
<1>1. s.pending \in SUBSET Frame /\ IsFiniteSet(s.pending)
  BY DEF Pumps
<1> QED BY <1>1, FS_Subset DEF Handable, Distinct

LEMMA NoneHandable == Handable({})
BY FS_EmptySet DEF Handable, Distinct

LEMMA BroadcastedDistinct ==
  ASSUME NEW s \in Pumps, NEW f \in Frame, Distinct(s.pending)
  PROVE  /\ Distinct(Broadcasted(s, f).pending)
         /\ Handable(HandedByBroadcast(s, f))
<1>1. s.delivered \in Nat /\ f.seq \in Nat
  BY DEF Pumps, Frame
<1>2. CASE f.seq <= s.delivered
  BY <1>1, <1>2, NoneHandable DEF Broadcasted, HandedByBroadcast
<1>3. CASE f.seq > s.delivered + 1
  BY <1>1, <1>3, NoneHandable, StashDistinctProps DEF Broadcasted, HandedByBroadcast
<1>4. CASE f.seq = s.delivered + 1
  <2> DEFINE t == Advance(s, f)
             more == Flushed(t)
  <2>1. t \in Pumps /\ t.pending = s.pending /\ t.delivered = f.seq
    BY AdvanceProps
  <2>2. Broadcasted(s, f) = FlushContiguous(t) /\ HandedByBroadcast(s, f) = {f} \cup more
    BY <1>1, <1>4 DEF Broadcasted, HandedByBroadcast
  <2> HIDE DEF t
  <2>3. Distinct(FlushContiguous(t).pending)
    BY <2>1, FlushDistinct
  <2>4. more \in SUBSET s.pending /\ \A g \in more : g.seq > f.seq
    <3>1. more \in SUBSET s.pending /\ \A g \in more : g.seq \in (f.seq + 1)..Reach(t)
      BY <2>1 DEF Flushed
    <3>2. Reach(t) \in Nat
      BY <2>1, ReachProps
    <3> QED BY <1>1, <3>1, <3>2
  <2> HIDE DEF more
  <2>5. Handable(more)
    BY <2>4, PartHandable
  <2>6. IsFiniteSet(more \cup {f})
    BY <2>5, FS_AddElement DEF Handable
  <2>7. more \cup {f} = {f} \cup more
    OBVIOUS
  <2>8. Distinct({f} \cup more)
    BY <1>1, <2>4, <2>5 DEF Handable, Distinct, Frame
  <2>9. Handable({f} \cup more)
    BY <2>5, <2>6, <2>7, <2>8 DEF Handable
  <2> QED BY <2>2, <2>3, <2>9
<1> QED BY <1>1, <1>2, <1>3, <1>4

LEMMA AckedDistinct ==
  ASSUME NEW s \in Pumps, NEW n \in Nat, Distinct(s.pending)
  PROVE  /\ Distinct(Acked(s, n).pending)
         /\ Handable(HandedByAck(s, n))
<1> DEFINE v == WithVoid(s, n)
<1>1. v \in Pumps /\ v.pending = s.pending
  BY WithVoidProps
<1>2. Acked(s, n) = FlushContiguous(v) /\ HandedByAck(s, n) = Flushed(v)
  BY DEF Acked, HandedByAck
<1> HIDE DEF v
<1>3. Flushed(v) \in SUBSET s.pending
  BY <1>1 DEF Flushed
<1> QED BY <1>1, <1>2, <1>3, FlushDistinct, PartHandable

LEMMA BinarySeenDistinct ==
  ASSUME NEW s \in Pumps, NEW n \in Nat, Distinct(s.pending)
  PROVE  /\ Distinct(BinarySeen(s, n).pending)
         /\ Handable(HandedByBinary(s, n))
BY AckedDistinct, NoneHandable DEF BinarySeen, HandedByBinary

-------------------------------------------------------------------------------
(* Types of what is on its way.                                            *)

Messages == Hello \cup Ack \cup Message \cup Other

Requests == Publication \cup ReplayAfter

LEMMA TailProps ==
  ASSUME NEW S, NEW q \in Seq(S), q # <<>>
  PROVE  /\ Head(q) \in S /\ Head(q) \in Range(q)
         /\ Tail(q) \in Seq(S) /\ Range(Tail(q)) \subseteq Range(q)
<1>1. Head(q) = q[1] /\ 1 \in DOMAIN q /\ Head(q) \in S
  OBVIOUS
<1>2. /\ Tail(q) \in Seq(S) /\ Len(Tail(q)) = Len(q) - 1
      /\ \A i \in 1..Len(Tail(q)) : Tail(q)[i] = q[i + 1]
  BY HeadTailProperties
<1>3. Range(Tail(q)) \subseteq Range(q)
  <2> SUFFICES ASSUME NEW i \in 1..Len(Tail(q)) PROVE Tail(q)[i] \in Range(q)
    BY <1>2 DEF Range
  <2>1. i + 1 \in DOMAIN q
    BY <1>2
  <2> QED BY <1>2, <2>1 DEF Range
<1> QED BY <1>1, <1>2, <1>3 DEF Range

LEMMA AppendRange ==
  ASSUME NEW S, NEW q \in Seq(S), NEW m \in S
  PROVE  Append(q, m) \in Seq(S) /\ Range(Append(q, m)) \subseteq Range(q) \cup {m}
<1>1. /\ Append(q, m) \in Seq(S) /\ Len(Append(q, m)) = Len(q) + 1
      /\ \A i \in 1..Len(q) : Append(q, m)[i] = q[i]
      /\ Append(q, m)[Len(q) + 1] = m
  BY AppendProperties
<1>2. ASSUME NEW i \in 1..Len(q) + 1 PROVE Append(q, m)[i] \in Range(q) \cup {m}
  <2>1. CASE i = Len(q) + 1
    BY <1>1, <2>1
  <2>2. CASE i # Len(q) + 1
    <3>1. i \in 1..Len(q) /\ i \in DOMAIN q
      BY <2>2
    <3> QED BY <1>1, <3>1 DEF Range
  <2> QED BY <2>1, <2>2
<1> QED BY <1>1, <1>2 DEF Range

LEMMA EnqueueProps ==
  ASSUME NEW S, NEW q \in Seq(S), NEW m \in S
  PROVE  Enqueue(q, m) \in Seq(S) /\ Range(Enqueue(q, m)) \subseteq Range(q) \cup {m}
<1>1. CASE Len(q) < RingMax
  BY <1>1, AppendRange DEF Enqueue
<1>2. CASE ~(Len(q) < RingMax)
  <2>1. q # <<>>
    BY <1>2, RingAssumption
  <2>2. Tail(q) \in Seq(S) /\ Range(Tail(q)) \subseteq Range(q)
    BY <2>1, TailProps
  <2>3. Enqueue(q, m) = Append(Tail(q), m)
    BY <1>2 DEF Enqueue
  <2> DEFINE t == Tail(q)
  <2> HIDE DEF t
  <2>4. Append(t, m) \in Seq(S) /\ Range(Append(t, m)) \subseteq Range(t) \cup {m}
    BY <2>2, AppendRange DEF t
  <2> QED BY <2>2, <2>3, <2>4 DEF t
<1> QED BY <1>1, <1>2

LEMMA EnqueueAllProps ==
  ASSUME NEW S, NEW q \in Seq(S), NEW ms \in Seq(S)
  PROVE  /\ EnqueueAll(q, ms) \in Seq(S)
         /\ Range(EnqueueAll(q, ms)) \subseteq Range(q) \cup Range(ms)
<1> DEFINE all == q \o ms
           from == Len(all) - RingMax + 1
           cut == SubSeq(all, from, Len(all))
<1>1. all \in Seq(S) /\ Len(all) \in Nat /\ DOMAIN all = 1..Len(all)
  BY ConcatProperties, LenProperties
<1>2. Range(all) = Range(q) \cup Range(ms)
  BY RangeConcatenation
<1>3. CASE Len(all) <= RingMax
  BY <1>1, <1>2, <1>3 DEF EnqueueAll
<1>4. CASE ~(Len(all) <= RingMax)
  <2>1. EnqueueAll(q, ms) = cut
    BY <1>4 DEF EnqueueAll
  <2> HIDE DEF all
  <2>2. from \in Int /\ Len(all) \in Int /\ from >= 1
    BY <1>1, <1>4, RingAssumption
  <2>3. \A i \in from..Len(all) : i \in DOMAIN all /\ all[i] \in S /\ all[i] \in Range(all)
    BY <1>1, <2>2 DEF Range
  <2>4. /\ cut \in Seq(S)
        /\ \A i \in 1..Len(all) - from + 1 : cut[i] = all[from + i - 1]
        /\ Len(cut) = IF from <= Len(all) THEN Len(all) - from + 1 ELSE 0
    <3> HIDE DEF from
    <3> QED BY <2>2, <2>3, SubSeqProperties
  <2> HIDE DEF cut
  <2>5. Range(cut) \subseteq Range(all)
    <3> SUFFICES ASSUME NEW i \in 1..Len(cut) PROVE cut[i] \in Range(all)
      BY <2>4 DEF Range
    <3>1. i \in 1..Len(all) - from + 1 /\ from + i - 1 \in from..Len(all)
      BY <1>1, <2>2, <2>4
    <3> QED BY <2>3, <2>4, <3>1
  <2> QED BY <1>2, <2>1, <2>4, <2>5
<1> QED BY <1>3, <1>4

LinkTypes ==
  /\ owner \in [PeerIds -> Clients \cup {0}]
  /\ ring \in [PeerIds -> Seq(Messages)]
  /\ up \in [PeerIds -> Seq(Requests)]
  /\ conn \in [Clients -> PeerIds \cup {0}]
  /\ published \in 0..MaxPublished /\ others \in 0..MaxOther
  /\ sent \subseteq Frame

(* The frames of the cache that a rejoining member missed.                 *)
Missed(after, p) == {f \in Range(room.cache) : f.seq > after /\ f.sender # p}

LEMMA MissedProps ==
  ASSUME CacheInv, NEW after, NEW p
  PROVE  Handable(Missed(after, p))
<1> DEFINE q == room.cache
<1>1. q \in Seq(Frame) /\ room.seq \in Nat
  BY DEF CacheInv, RoomTypeOK
<1>2. DOMAIN q = 1..Len(q) /\ Len(q) \in Nat /\ \A i \in 1..Len(q) : q[i] \in Frame
  BY <1>1
<1>3. IsFiniteSet(Range(q))
  <2>1. q \in Surjection(1..Len(q), Range(q))
    BY <1>1, <1>2 DEF Surjection, Range
  <2> HIDE DEF q
  <2>2. IsFiniteSet(1..Len(q))
    <3>1. 1 \in Int /\ Len(q) \in Int
      BY <1>2
    <3> QED BY <3>1, FS_Interval
  <2> QED BY <2>1, <2>2, FS_Surjection
<1>4. Range(q) \in SUBSET Frame
  BY <1>2 DEF Range
<1>5. Distinct(Range(q))
  <2> SUFFICES ASSUME NEW i \in 1..Len(q), NEW j \in 1..Len(q), q[i].seq = q[j].seq
               PROVE  i = j
    BY <1>2 DEF Distinct, Range
  <2>1. q[i].seq = room.seq - Len(q) + i /\ q[j].seq = room.seq - Len(q) + j
    BY DEF CacheInv, CacheIsTail
  <2>2. room.seq \in Int /\ Len(q) \in Int /\ i \in Int /\ j \in Int
    BY <1>1, <1>2
  <2>3. room.seq - Len(q) + i = room.seq - Len(q) + j
    BY <2>1
  <2>4. \A a, b, x, y \in Int : a - b + x = a - b + y => x = y
    OBVIOUS
  <2> QED BY <2>2, <2>3, <2>4
<1>6. Missed(after, p) \in SUBSET Range(q)
  BY DEF Missed
<1> HIDE DEF q
<1> QED BY <1>3, <1>4, <1>5, <1>6, FS_Subset DEF Handable, Distinct

LEMMA ReplayedProps ==
  ASSUME CacheInv, NEW after, NEW p
  PROVE  /\ Replayed(room.cache, after, p) \in Seq(Messages)
         /\ \A m \in Range(Replayed(room.cache, after, p)) :
               m \in Message /\ m.frame \in Range(room.cache) /\ m.frame.sender # p
<1> DEFINE q == InSeqOrder(Missed(after, p))
           r == [i \in DOMAIN q |-> [type |-> "plugin-msg", frame |-> q[i]]]
<1>1. Replayed(room.cache, after, p) = r
  BY DEF Replayed, Missed
<1>2. q \in Seq(Frame) /\ Range(q) = Missed(after, p)
  BY MissedProps, InSeqOrderProps DEF Handable
<1> HIDE DEF q
<1>3. DOMAIN q = 1..Len(q) /\ Len(q) \in Nat
  BY <1>2
<1>4. \A i \in 1..Len(q) : q[i] \in Frame /\ q[i] \in Range(room.cache) /\ q[i].sender # p
  <2> TAKE i \in 1..Len(q)
  <2>1. q[i] \in Frame /\ q[i] \in Range(q)
    BY <1>2, <1>3 DEF Range
  <2>2. q[i] \in Missed(after, p)
    BY <1>2, <2>1
  <2> QED BY <2>1, <2>2 DEF Missed
<1>5. r \in [1..Len(q) -> Message]
  BY <1>3, <1>4 DEF Message
<1>6. r \in Seq(Messages)
  BY <1>3, <1>5 DEF Messages
<1>7. \A m \in Range(r) : m \in Message /\ m.frame \in Range(room.cache) /\ m.frame.sender # p
  BY <1>3, <1>4, <1>5 DEF Range
<1> QED BY <1>1, <1>6, <1>7

LEMMA LinkSteps ==
  ASSUME LinkTypes, CacheInv, PumpTypeOK', [Next]_vars
  PROVE  LinkTypes'
<1> USE DEF LinkTypes
<1>1. /\ nextPeer \in Nat /\ nextPeer >= 1 /\ MaxConns \in Nat /\ MaxPublished \in Nat /\ MaxOther \in Nat
      /\ room.seq \in Nat /\ room.epoch \in Nat
  BY BoundsAssumption DEF CacheInv, RoomTypeOK
<1>2. ASSUME NEW c \in Clients, Join(c) PROVE LinkTypes'
  <2> DEFINE m == [type |-> "hello-ack", pluginSeq |-> room.seq, epoch |-> room.epoch]
  <2>1. nextPeer \in PeerIds
    BY <1>1, <1>2 DEF Join, PeerIds
  <2>2. <<m>> \in Seq(Messages)
    BY <1>1 DEF Messages, Hello
  <2>3. ring' = [ring EXCEPT ![nextPeer] = <<m>>]
    BY <1>2 DEF Join
  <2> HIDE DEF m
  <2>4. ring' \in [PeerIds -> Seq(Messages)]
    BY <2>1, <2>2, <2>3
  <2> QED BY <1>2, <2>1, <2>4 DEF Join
<1>3. ASSUME NEW p \in PeerIds, Leave(p) PROVE LinkTypes'
  BY <1>3 DEF Leave, clientVars
<1>4. ASSUME NEW p \in PeerIds, ServerRecv(p) PROVE LinkTypes'
  <2>1. up[p] \in Seq(Requests) /\ up[p] # <<>>
    BY <1>4 DEF ServerRecv
  <2>2. Tail(up[p]) \in Seq(Requests)
    BY <2>1, TailProps
  <2>3. up' \in [PeerIds -> Seq(Requests)]
    BY <1>4, <2>2 DEF ServerRecv
  <2>4. UNCHANGED <<owner, conn, published, others>>
    BY <1>4 DEF ServerRecv, clientVars
  <2>5. CASE HandlePublication(p)
    <3> DEFINE f == [epoch |-> room.epoch, seq |-> room.seq + 1, sender |-> p, kind |-> Head(up[p]).kind]
    <3>1. f \in Frame
      <4>1. Head(up[p]).kind \in {"text", "bin"}
        BY <2>5 DEF HandlePublication, Publication
      <4>2. p \in Nat
        BY <1>1 DEF PeerIds
      <4> QED BY <1>1, <4>1, <4>2 DEF Frame
    <3>2. sent' = sent \cup {f}
      BY <2>5 DEF HandlePublication
    <3>3. ring' = [q \in PeerIds |->
                    IF q \notin peers \/ ~Heard(q) THEN ring[q]
                    ELSE IF q = p THEN Enqueue(ring[q], [type |-> "plugin-msg-ack", seq |-> f.seq])
                    ELSE Enqueue(ring[q], [type |-> "plugin-msg", frame |-> f])]
      BY <2>5 DEF HandlePublication
    <3> HIDE DEF f
    <3>4. /\ [type |-> "plugin-msg-ack", seq |-> f.seq] \in Messages
          /\ [type |-> "plugin-msg", frame |-> f] \in Messages
      BY <3>1 DEF Messages, Ack, Message, Frame
    <3>5. \A q \in PeerIds : \A m \in Messages : Enqueue(ring[q], m) \in Seq(Messages)
      BY EnqueueProps
    <3>6. ring' \in [PeerIds -> Seq(Messages)]
      BY <3>3, <3>4, <3>5
    <3> QED BY <2>3, <2>4, <3>1, <3>2, <3>6
  <2>6. CASE HandleReplay(p)
    <3> DEFINE ms == Replayed(room.cache, Head(up[p]).after, p)
    <3>1. ms \in Seq(Messages)
      BY ReplayedProps
    <3>2. ring' = ring \/ ring' = [ring EXCEPT ![p] = EnqueueAll(ring[p], ms)]
      BY <2>6 DEF HandleReplay
    <3> HIDE DEF ms
    <3>3. EnqueueAll(ring[p], ms) \in Seq(Messages)
      BY <3>1, EnqueueAllProps
    <3> QED BY <2>3, <2>4, <2>6, <3>2, <3>3 DEF HandleReplay
  <2> QED BY <1>4, <2>5, <2>6 DEF ServerRecv
<1>5. ASSUME NEW p \in PeerIds, QueueOther(p) PROVE LinkTypes'
  <2>1. [type |-> "other"] \in Messages
    BY DEF Messages, Other
  <2>2. Enqueue(ring[p], [type |-> "other"]) \in Seq(Messages)
    BY <2>1, EnqueueProps
  <2> QED BY <1>1, <1>5, <2>2 DEF QueueOther, serverVars, clientVars
<1>6. ASSUME NEW c \in Clients, NEW kind \in Kinds, Publish(c, kind) PROVE LinkTypes'
  <2> DEFINE m == [type |-> "plugin-msg", kind |-> kind]
  <2>1. m \in Requests
    BY KindsAssumption DEF Requests, Publication
  <2>2. conn[c] \in PeerIds
    BY <1>6 DEF Publish, CacheInv, RoomTypeOK
  <2>3. Append(up[conn[c]], m) \in Seq(Requests)
    BY <2>1, <2>2
  <2>4. up' = [up EXCEPT ![conn[c]] = Append(@, m)]
    BY <1>6 DEF Publish
  <2> HIDE DEF m
  <2>5. up' \in [PeerIds -> Seq(Requests)]
    BY <2>3, <2>4
  <2>6. published' \in 0..MaxPublished
    BY <1>1, <1>6 DEF Publish
  <2> QED BY <1>6, <2>5, <2>6 DEF Publish, serverVars, clientVars
<1>7. ASSUME NEW c \in Clients, Drop(c) PROVE LinkTypes'
  <2>1. <<>> \in Seq(Messages)
    OBVIOUS
  <2> QED BY <1>7, <2>1 DEF Drop, serverVars
<1>8. ASSUME NEW c \in Clients, NEW m \in ReplayAfter, Uplink(conn[c], m) PROVE up' \in [PeerIds -> Seq(Requests)]
  BY <1>8 DEF Uplink, Requests, CacheInv, RoomTypeOK
<1>9. ASSUME NEW c \in Clients PROVE [type |-> "plugin-replay", after |-> ReplayFrom(pump'[c])] \in ReplayAfter
  BY DEF ReplayFrom, ReplayAfter, PumpTypeOK, Pumps
<1>10. ASSUME NEW c \in Clients, ClientRecv(c) PROVE LinkTypes'
  <2>1. conn[c] \in PeerIds /\ ring[conn[c]] # <<>>
    BY <1>10 DEF ClientRecv
  <2>2. Tail(ring[conn[c]]) \in Seq(Messages)
    BY <2>1, TailProps
  <2>3. ring' \in [PeerIds -> Seq(Messages)]
    BY <1>10, <2>2 DEF ClientRecv
  <2>4. up' \in [PeerIds -> Seq(Requests)]
    BY <1>8, <1>9, <1>10 DEF ClientRecv, RecvHello, RecvFrame, RecvAck, RecvOther
  <2> QED BY <1>10, <2>3, <2>4 DEF ClientRecv, serverVars
<1>11. ASSUME NEW c \in Clients, GapTimer(c) PROVE LinkTypes'
  <2>1. up' \in [PeerIds -> Seq(Requests)]
    <3>1. ASSUME ready[c] /\ ~pump[c].replayed, pump' = [pump EXCEPT ![c] = ReplayAsked(@)],
                 Uplink(conn[c], [type |-> "plugin-replay", after |-> ReplayFrom(pump[c])])
          PROVE  up' \in [PeerIds -> Seq(Requests)]
      <4>1. ReplayFrom(pump[c]) \in Nat
        BY <3>1 DEF ReplayFrom, ReplayAsked, PumpTypeOK, Pumps
      <4> QED BY <1>8, <3>1, <4>1 DEF ReplayAfter
    <3> QED BY <1>11, <3>1 DEF GapTimer
  <2> QED BY <1>11, <2>1 DEF GapTimer, serverVars
<1> QED BY <1>2, <1>3, <1>4, <1>5, <1>6, <1>7, <1>10, <1>11 DEF Next, vars

THEOREM LinksTyped == Spec => []LinkTypes
<1>1. Init => LinkTypes
  BY BoundsAssumption DEF Init, LinkTypes
<1>2. LinkTypes /\ CacheInv /\ PumpTypeOK' /\ [Next]_vars => LinkTypes'
  BY LinkSteps
<1> QED BY <1>1, <1>2, CacheStaysTail, PumpsTyped, PTL DEF Spec

-------------------------------------------------------------------------------
(* Types of what the shells have seen.                                     *)

Courses == [start : Nat, era : Nat, base : Nat, givenUp : SUBSET Nat, skewed : BOOLEAN]

TalkTypes == log \in [Clients -> Seq(Frame)] /\ course \in [Clients -> Courses]

TalkInv == TalkTypes /\ StashDistinct

LEMMA HandOverProps ==
  ASSUME log \in [Clients -> Seq(Frame)], NEW c \in Clients,
         NEW frames, Handable(frames), HandOver(c, frames)
  PROVE  /\ log' \in [Clients -> Seq(Frame)]
         /\ Range(log'[c]) = Range(log[c]) \cup frames
         /\ \A d \in Clients : d # c => log'[d] = log[d]
<1> DEFINE q == InSeqOrder(frames)
<1>1. q \in Seq(Frame) /\ Range(q) = frames
  BY InSeqOrderProps DEF Handable
<1>2. log' = [log EXCEPT ![c] = log[c] \o q]
  BY DEF HandOver
<1> HIDE DEF q
<1>3. log[c] \o q \in Seq(Frame) /\ Range(log[c] \o q) = Range(log[c]) \cup Range(q)
  BY <1>1, RangeConcatenation
<1> QED BY <1>1, <1>2, <1>3

LEMMA GaveUpPending ==
  ASSUME NEW s \in Pumps, Distinct(s.pending)
  PROVE  Handable(s.pending)
BY PartHandable

LEMMA TalkSteps ==
  ASSUME TalkInv, LinkTypes, PumpTypeOK, PumpTypeOK', [Next]_vars
  PROVE  TalkInv'
<1>1. /\ pump \in [Clients -> Pumps] /\ \A c \in Clients : Distinct(pump[c].pending)
      /\ log \in [Clients -> Seq(Frame)] /\ course \in [Clients -> Courses]
  BY DEF PumpTypeOK, TalkInv, TalkTypes, StashDistinct
<1>2. ASSUME NEW c \in Clients, NEW s \in Pumps, pump' = [pump EXCEPT ![c] = s], Distinct(s.pending)
      PROVE  StashDistinct'
  BY <1>1, <1>2 DEF StashDistinct
<1>3. ASSUME NEW c \in Clients, ClientRecv(c) PROVE TalkInv'
  <2> DEFINE m == Head(ring[conn[c]])
  <2>1. m \in Messages
    BY <1>3, TailProps DEF ClientRecv, LinkTypes
  <2>2. RecvHello(c, m) \/ RecvFrame(c, m) \/ RecvAck(c, m) \/ RecvOther(c, m)
    BY <1>3 DEF ClientRecv
  <2> HIDE DEF m
  <2>3. pump[c] \in Pumps /\ Distinct(pump[c].pending)
    BY <1>1
  <2>4. CASE RecvHello(c, m)
    <3>1. m.pluginSeq \in Nat /\ m.epoch \in Nat
      BY <2>4 DEF RecvHello, Hello
    <3>2. StashDistinct'
      BY <1>2, <2>3, <2>4, <3>1, HelloAckedProps, HelloAckedDistinct DEF RecvHello
    <3>3. course[c] \in Courses /\ course[c].skewed \in BOOLEAN
      BY <1>1 DEF Courses
    <3>4. course' = [course EXCEPT ![c] =
            IF ~pump[c].joined
            THEN [course[c] EXCEPT !.start = m.epoch, !.era = m.epoch, !.base = m.pluginSeq]
            ELSE IF ResetBy(pump[c], m.pluginSeq)
            THEN [course[c] EXCEPT !.era = m.epoch, !.base = 0, !.givenUp = {},
                                   !.skewed = pump'[c].pending # {}]
            ELSE [course[c] EXCEPT !.era = m.epoch,
                                   !.skewed = course[c].skewed \/ course[c].era # m.epoch]]
      BY <2>4 DEF RecvHello
    <3>5. /\ [course[c] EXCEPT !.start = m.epoch, !.era = m.epoch, !.base = m.pluginSeq] \in Courses
          /\ \A b \in BOOLEAN :
               /\ [course[c] EXCEPT !.era = m.epoch, !.base = 0, !.givenUp = {}, !.skewed = b] \in Courses
               /\ [course[c] EXCEPT !.era = m.epoch, !.skewed = b] \in Courses
      BY <3>1, <3>3 DEF Courses
    <3>6. course' \in [Clients -> Courses]
      BY <1>1, <3>4, <3>5
    <3> QED BY <1>1, <2>4, <3>2, <3>6 DEF RecvHello, TalkInv, TalkTypes
  <2>5. CASE RecvFrame(c, m)
    <3>1. m.frame \in Frame /\ m.frame.seq \in Nat
      BY <2>5 DEF RecvFrame, Message, Frame
    <3>2. course' = course
      BY <2>5 DEF RecvFrame
    <3>3. CASE ready[c] /\ m.frame.kind = "text"
      <4>1. /\ pump' = [pump EXCEPT ![c] = Broadcasted(pump[c], m.frame)]
            /\ HandOver(c, HandedByBroadcast(pump[c], m.frame))
        BY <2>5, <3>3 DEF RecvFrame
      <4>2. /\ Distinct(Broadcasted(pump[c], m.frame).pending)
            /\ Handable(HandedByBroadcast(pump[c], m.frame))
            /\ Broadcasted(pump[c], m.frame) \in Pumps
        BY <2>3, <3>1, BroadcastedDistinct, BroadcastedProps
      <4> QED BY <1>1, <1>2, <3>2, <4>1, <4>2, HandOverProps DEF TalkInv, TalkTypes
    <3>4. CASE ready[c] /\ m.frame.kind # "text"
      <4>1. /\ pump' = [pump EXCEPT ![c] = BinarySeen(pump[c], m.frame.seq)]
            /\ HandOver(c, HandedByBinary(pump[c], m.frame.seq))
        BY <2>5, <3>4 DEF RecvFrame
      <4>2. /\ Distinct(BinarySeen(pump[c], m.frame.seq).pending)
            /\ Handable(HandedByBinary(pump[c], m.frame.seq))
            /\ BinarySeen(pump[c], m.frame.seq) \in Pumps
        BY <2>3, <3>1, BinarySeenDistinct, BinarySeenProps
      <4> QED BY <1>1, <1>2, <3>2, <4>1, <4>2, HandOverProps DEF TalkInv, TalkTypes
    <3>5. CASE ~ready[c]
      BY <2>5, <3>2, <3>5 DEF RecvFrame, TalkInv, TalkTypes, StashDistinct
    <3> QED BY <3>3, <3>4, <3>5
  <2>6. CASE RecvAck(c, m)
    <3>1. m.seq \in Nat /\ course' = course
      BY <2>6 DEF RecvAck, Ack
    <3>2. CASE ready[c]
      <4>1. /\ pump' = [pump EXCEPT ![c] = Acked(pump[c], m.seq)]
            /\ HandOver(c, HandedByAck(pump[c], m.seq))
        BY <2>6, <3>2 DEF RecvAck
      <4>2. /\ Distinct(Acked(pump[c], m.seq).pending)
            /\ Handable(HandedByAck(pump[c], m.seq))
            /\ Acked(pump[c], m.seq) \in Pumps
        BY <2>3, <3>1, AckedDistinct, AckedProps
      <4> QED BY <1>1, <1>2, <3>1, <4>1, <4>2, HandOverProps DEF TalkInv, TalkTypes
    <3>3. CASE ~ready[c]
      BY <2>6, <3>1, <3>3 DEF RecvAck, TalkInv, TalkTypes, StashDistinct
    <3> QED BY <3>2, <3>3
  <2>7. CASE RecvOther(c, m)
    BY <1>3, <2>7 DEF ClientRecv, RecvOther, TalkInv, TalkTypes, StashDistinct
  <2> QED BY <2>2, <2>4, <2>5, <2>6, <2>7
<1>4. ASSUME NEW c \in Clients, GapTimer(c) PROVE TalkInv'
  <2>1. pump[c] \in Pumps /\ Distinct(pump[c].pending)
    BY <1>1
  <2>2. CASE pump' = [pump EXCEPT ![c] = Disarmed(@)] /\ UNCHANGED <<log, course>>
    <3>1. Disarmed(pump[c]) \in Pumps /\ Disarmed(pump[c]).pending = pump[c].pending
      BY <2>1, DisarmedProps DEF Disarmed, Pumps
    <3> QED BY <1>1, <1>2, <2>1, <2>2, <3>1 DEF TalkInv, TalkTypes
  <2>3. CASE pump' = [pump EXCEPT ![c] = ReplayAsked(@)] /\ UNCHANGED <<log, course>>
    <3>1. ReplayAsked(pump[c]) \in Pumps /\ ReplayAsked(pump[c]).pending = pump[c].pending
      BY <2>1, ReplayAskedProps DEF ReplayAsked, Pumps
    <3> QED BY <1>1, <1>2, <2>1, <2>3, <3>1 DEF TalkInv, TalkTypes
  <2>4. CASE /\ pump' = [pump EXCEPT ![c] = GaveUp(@)]
             /\ HandOver(c, pump[c].pending)
             /\ course' = [course EXCEPT ![c].givenUp =
                  @ \cup ((pump[c].delivered + 1 .. pump'[c].delivered) \ Known(pump[c]))]
    <3>1. GaveUp(pump[c]) \in Pumps /\ GaveUp(pump[c]).pending = {}
      BY <2>1, GaveUpProps
    <3>2. Distinct(GaveUp(pump[c]).pending)
      BY <3>1 DEF Distinct
    <3>3. StashDistinct'
      BY <1>2, <2>4, <3>1, <3>2
    <3>4. log' \in [Clients -> Seq(Frame)]
      BY <1>1, <2>1, <2>4, GaveUpPending, HandOverProps
    <3> DEFINE more == (pump[c].delivered + 1 .. pump'[c].delivered) \ Known(pump[c])
    <3>5. more \in SUBSET Nat
      BY <2>1 DEF Pumps, PumpTypeOK
    <3>6. course' = [course EXCEPT ![c].givenUp = @ \cup more]
      BY <2>4
    <3> HIDE DEF more
    <3>7. course' \in [Clients -> Courses]
      BY <1>1, <3>5, <3>6 DEF Courses
    <3> QED BY <3>3, <3>4, <3>7 DEF TalkInv, TalkTypes
  <2> QED BY <1>4, <2>2, <2>3, <2>4 DEF GapTimer
<1>5. CASE UNCHANGED <<pump, log, course>>
  BY <1>5 DEF TalkInv, TalkTypes, StashDistinct
<1>6. CASE ~ \E c \in Clients : ClientRecv(c) \/ GapTimer(c)
  <2>1. UNCHANGED <<pump, log, course>>
    BY <1>6 DEF Next, vars, clientVars, Join, Leave, ServerRecv, QueueOther, Publish, Drop
  <2> QED BY <1>5, <2>1
<1> QED BY <1>3, <1>4, <1>6

THEOREM TalkTyped == Spec => []TalkInv
<1>1. Init => TalkInv
  BY DEF Init, TalkInv, TalkTypes, StashDistinct, Distinct, PumpInit, CourseInit, Courses
<1>2. TalkInv /\ LinkTypes /\ PumpTypeOK /\ PumpTypeOK' /\ [Next]_vars => TalkInv'
  BY TalkSteps
<1> QED BY <1>1, <1>2, LinksTyped, PumpsTyped, PTL DEF Spec

(* Every variable has its type, for any members, any rings and any bounds: *)
(* a replay asks from a natural number, and what was handed to a shell is  *)
(* a sequence of frames whatever the stash was emptied of.                 *)
THEOREM RelayTyped == Spec => []TypeOK
<1>1. LinkTypes /\ PumpTypeOK /\ CacheInv /\ TalkInv => TypeOK
  BY DEF LinkTypes, CacheInv, TalkInv, TalkTypes, Courses, TypeOK, Messages, Requests
<1> QED BY <1>1, LinksTyped, PumpsTyped, CacheStaysTail, TalkTyped, PTL

-------------------------------------------------------------------------------
(* Where the cursor has been.                                              *)

(* Who has which connection, and who sent which frame. *)
Registry ==
  /\ peers \subseteq 1..nextPeer - 1
  /\ \A c \in Clients : conn[c] # 0 => conn[c] < nextPeer /\ owner[conn[c]] = c
  /\ \A f \in sent : f.sender \in PeerIds /\ f.sender < nextPeer
  /\ Range(room.cache) \subseteq sent
  /\ \A c \in Clients : ready[c] => conn[c] # 0 /\ pump[c].joined

(* Number n of the room's incarnation e is nothing c has to be handed. *)
Quiet(c, e, n) ==
  \E f \in sent : f.epoch = e /\ f.seq = n /\ (f.kind = "bin" \/ owner[f.sender] = c)

(* The same, or it is one of the frames seen. *)
Reached(c, e, n, seen) ==
  \E f \in sent : /\ f.epoch = e /\ f.seq = n
                  /\ f \in seen \/ f.kind = "bin" \/ owner[f.sender] = c

(* A message to c is about the incarnation e. *)
Carries(m, c, e) ==
  /\ m \in Hello => m.epoch = e
  /\ m \in Message => m.frame \in sent /\ m.frame.epoch = e
  /\ m \in Ack => Quiet(c, e, m.seq)

(* A connection lives with one incarnation of the room, and what is queued *)
(* on it is about no other.                                                *)
OnWire(c, e) ==
  /\ conn[c] \in peers => room.epoch = e
  /\ ready[c] => course[c].era = e
  /\ \A m \in Range(ring[conn[c]]) : Carries(m, c, e)

WireInv == \A c \in Clients : conn[c] # 0 => \E e \in Nat : OnWire(c, e)

(* What a pump keeps for later is of the incarnation e. *)
Stocked(c, e, s) ==
  /\ \A n \in s.void : Quiet(c, e, n)
  /\ \A f \in s.pending : f \in sent /\ f.epoch = e

(* The inductive form of CursorSound: a number that is void is rightly so, *)
(* and what is stashed is of the room the cursor counts.                   *)
Tracked(c) ==
  /\ ~pump[c].joined => pump[c].delivered = 0 /\ pump[c].pending = {} /\ pump[c].void = {}
  /\ ~course[c].skewed =>
       /\ Stocked(c, course[c].era, pump[c])
       /\ \A n \in course[c].base + 1 .. pump[c].delivered :
             n \in course[c].givenUp \/ Reached(c, course[c].era, n, Range(log[c]))

CursorInv == Registry /\ WireInv /\ \A c \in Clients : Tracked(c)

(* The handlers. *)

LEMMA FlushFields ==
  ASSUME NEW s \in Pumps
  PROVE  /\ FlushContiguous(s).delivered = Reach(s) /\ FlushContiguous(s).joined = s.joined
         /\ FlushContiguous(s).void \subseteq s.void
         /\ FlushContiguous(s).pending \subseteq s.pending
<1>1. s = [delivered |-> s.delivered, joined |-> s.joined, pending |-> s.pending,
           void |-> s.void, armed |-> s.armed, replayed |-> s.replayed]
  BY DEF Pumps
<1> DEFINE rest == s.pending \ Flushed(s)
           left == s.void \ ((s.delivered + 1)..Reach(s))
           a == s.armed /\ rest # {}
           r == s.replayed /\ rest # {}
<1>2. FlushContiguous(s) = [s EXCEPT !.delivered = Reach(s), !.void = left, !.pending = rest,
                                     !.armed = a, !.replayed = r]
  BY DEF FlushContiguous
<1>3. rest \subseteq s.pending /\ left \subseteq s.void
  OBVIOUS
<1> HIDE DEF rest, left, a, r
<1> QED BY <1>1, <1>2, <1>3

(* t comes of s by a handler that hands over the frames. *)
Moves(c, e, s, t, frames) ==
  /\ t.joined = s.joined
  /\ Stocked(c, e, t)
  /\ \A n \in s.delivered + 1 .. t.delivered : Reached(c, e, n, frames)

LEMMA KnownReached ==
  ASSUME NEW c, NEW e, NEW s \in Pumps, Stocked(c, e, s), NEW n \in s.void \cup Seqs(s.pending),
         NEW seen, \A f \in s.pending : f.seq = n /\ n \notin s.void => f \in seen
  PROVE  Reached(c, e, n, seen)
<1>1. CASE n \in s.void
  BY <1>1 DEF Stocked, Quiet, Reached
<1>2. CASE n \notin s.void
  BY <1>2 DEF Stocked, Seqs, Reached
<1> QED BY <1>1, <1>2

LEMMA FlushMoves ==
  ASSUME NEW c, NEW e, NEW s \in Pumps, Stocked(c, e, s)
  PROVE  Moves(c, e, s, FlushContiguous(s), Flushed(s))
<1>1. Stocked(c, e, FlushContiguous(s))
  BY FlushFields DEF Stocked
<1>2. ASSUME NEW n \in s.delivered + 1 .. Reach(s) PROVE Reached(c, e, n, Flushed(s))
  <2>1. n \in s.void \cup Seqs(s.pending)
    BY <1>2, ReachProps DEF Known
  <2>2. \A f \in s.pending : f.seq = n /\ n \notin s.void => f \in Flushed(s)
    BY <1>2 DEF Flushed
  <2> QED BY <2>1, <2>2, KnownReached
<1> QED BY <1>1, <1>2, FlushFields DEF Moves

LEMMA BroadcastedMoves ==
  ASSUME NEW c, NEW e, NEW s \in Pumps, Stocked(c, e, s),
         NEW f \in Frame, f \in sent, f.epoch = e
  PROVE  Moves(c, e, s, Broadcasted(s, f), HandedByBroadcast(s, f))
<1>1. s.delivered \in Nat /\ f.seq \in Nat
  BY DEF Pumps, Frame
<1>2. CASE f.seq <= s.delivered
  BY <1>1, <1>2 DEF Broadcasted, Moves
<1>3. CASE f.seq > s.delivered + 1
  <2>1. Broadcasted(s, f) = Stash(s, f)
    BY <1>1, <1>3 DEF Broadcasted
  <2>2. /\ Stash(s, f).pending = {g \in s.pending : g.seq # f.seq} \cup {f}
        /\ Stash(s, f).void = s.void /\ Stash(s, f).joined = s.joined
        /\ Stash(s, f).delivered = s.delivered
    BY DEF Stash, Pumps
  <2> QED BY <1>1, <2>1, <2>2 DEF Moves, Stocked
<1>4. CASE f.seq = s.delivered + 1
  <2> DEFINE t == Advance(s, f)
  <2>1. /\ t \in Pumps /\ t.pending = s.pending /\ t.delivered = f.seq
        /\ t.void = s.void /\ t.joined = s.joined
    BY AdvanceProps DEF Advance, Pumps
  <2>2. Broadcasted(s, f) = FlushContiguous(t) /\ HandedByBroadcast(s, f) = {f} \cup Flushed(t)
    BY <1>1, <1>4 DEF Broadcasted, HandedByBroadcast
  <2> HIDE DEF t
  <2>3. Moves(c, e, t, FlushContiguous(t), Flushed(t))
    BY <2>1, FlushMoves DEF Stocked
  <2>4. FlushContiguous(t).delivered \in Nat
    BY <2>1, FlushProps DEF Pumps
  <2>5. ASSUME NEW n \in s.delivered + 1 .. FlushContiguous(t).delivered
        PROVE  Reached(c, e, n, {f} \cup Flushed(t))
    <3>1. CASE n = f.seq
      BY <3>1 DEF Reached
    <3>2. CASE n # f.seq
      <4>1. n \in t.delivered + 1 .. FlushContiguous(t).delivered
        BY <1>1, <1>4, <2>1, <2>4, <3>2
      <4> QED BY <2>3, <4>1 DEF Moves, Reached
    <3> QED BY <3>1, <3>2
  <2> QED BY <2>1, <2>2, <2>3, <2>5 DEF Moves
<1> QED BY <1>1, <1>2, <1>3, <1>4

LEMMA AckedMoves ==
  ASSUME NEW c, NEW e, NEW s \in Pumps, Stocked(c, e, s), NEW n \in Nat, Quiet(c, e, n)
  PROVE  Moves(c, e, s, Acked(s, n), HandedByAck(s, n))
<1> DEFINE v == WithVoid(s, n)
<1>1. /\ v \in Pumps /\ v.pending = s.pending /\ v.delivered = s.delivered
      /\ v.joined = s.joined /\ v.void \subseteq s.void \cup {n}
  BY WithVoidProps DEF WithVoid, Pumps
<1>2. Acked(s, n) = FlushContiguous(v) /\ HandedByAck(s, n) = Flushed(v)
  BY DEF Acked, HandedByAck
<1> HIDE DEF v
<1>3. Stocked(c, e, v)
  BY <1>1 DEF Stocked
<1>4. Moves(c, e, v, FlushContiguous(v), Flushed(v))
  BY <1>1, <1>3, FlushMoves
<1> QED BY <1>1, <1>2, <1>4 DEF Moves

LEMMA BinarySeenMoves ==
  ASSUME NEW c, NEW e, NEW s \in Pumps, Stocked(c, e, s), NEW n \in Nat, Quiet(c, e, n)
  PROVE  Moves(c, e, s, BinarySeen(s, n), HandedByBinary(s, n))
<1>1. CASE n > s.delivered
  BY <1>1, AckedMoves DEF BinarySeen, HandedByBinary
<1>2. CASE ~(n > s.delivered)
  <2>1. s.delivered \in Nat
    BY DEF Pumps
  <2> QED BY <1>2, <2>1 DEF BinarySeen, HandedByBinary, Moves
<1> QED BY <1>1, <1>2

(* The room and its members. *)

LEMMA JoinedKept ==
  ASSUME NEW s \in Pumps
  PROVE  /\ \A f \in Frame : Broadcasted(s, f).joined = s.joined
         /\ \A n \in Nat : Acked(s, n).joined = s.joined /\ BinarySeen(s, n).joined = s.joined
         /\ \A h \in Nat : HelloAcked(s, h).joined
         /\ Disarmed(s).joined = s.joined /\ ReplayAsked(s).joined = s.joined
         /\ GaveUp(s).joined = s.joined
<1>1. \A n \in Nat : Acked(s, n).joined = s.joined
  <2> TAKE n \in Nat
  <2>1. WithVoid(s, n) \in Pumps /\ WithVoid(s, n).joined = s.joined
    BY WithVoidProps DEF WithVoid, Pumps
  <2> QED BY <2>1, FlushFields DEF Acked
<1>2. \A f \in Frame : Broadcasted(s, f).joined = s.joined
  <2> TAKE f \in Frame
  <2>1. Advance(s, f) \in Pumps /\ Advance(s, f).joined = s.joined
    BY AdvanceProps DEF Advance, Pumps
  <2>2. FlushContiguous(Advance(s, f)).joined = s.joined
    BY <2>1, FlushFields
  <2>3. Stash(s, f).joined = s.joined
    BY DEF Stash, Pumps
  <2> QED BY <2>2, <2>3 DEF Broadcasted
<1> QED BY <1>1, <1>2 DEF BinarySeen, HelloAcked, Disarmed, ReplayAsked, GaveUp, Pumps

Typed == LinkTypes /\ PumpTypeOK /\ CacheInv /\ TalkInv

(* The step of one member leaves the pumps of the others alone. *)
LEMMA OwnPump ==
  ASSUME Typed, NEW c \in Clients, NEW d \in Clients, d # c,
         ClientRecv(d) \/ GapTimer(d)
  PROVE  /\ pump'[c] = pump[c] /\ ready'[c] = ready[c] /\ course'[c] = course[c]
         /\ log'[c] = log[c]
BY DEF Typed, PumpTypeOK, TalkInv, TalkTypes, ClientRecv, GapTimer, RecvHello, RecvFrame,
       RecvAck, RecvOther, HandOver

(* Only a hello-ack makes a pump ready, and it has joined then. *)
LEMMA ReadyJoined ==
  ASSUME Typed, Registry, NEW c \in Clients, NEW d \in Clients, ClientRecv(d) \/ GapTimer(d), ready'[c]
  PROVE  conn[c] # 0 /\ pump'[c].joined
<1>1. pump[c] \in Pumps /\ pump \in [Clients -> Pumps] /\ ready \in [Clients -> BOOLEAN]
  BY DEF Typed, PumpTypeOK
<1>2. CASE d # c
  BY <1>2, OwnPump DEF Registry
<1>3. CASE d = c /\ GapTimer(c)
  <2>1. ready[c] /\ pump'[c] \in {Disarmed(pump[c]), ReplayAsked(pump[c]), GaveUp(pump[c])}
    BY <1>1, <1>3 DEF GapTimer
  <2> QED BY <1>1, <2>1, JoinedKept DEF Registry
<1>4. CASE d = c /\ ClientRecv(c)
  <2> DEFINE m == Head(ring[conn[c]])
  <2>1. conn[c] # 0 /\ (RecvHello(c, m) \/ RecvFrame(c, m) \/ RecvAck(c, m) \/ RecvOther(c, m))
    BY <1>4 DEF ClientRecv
  <2> HIDE DEF m
  <2>2. CASE RecvHello(c, m)
    <3>1. m.pluginSeq \in Nat /\ pump'[c] = HelloAcked(pump[c], m.pluginSeq)
      BY <1>1, <2>2 DEF RecvHello, Hello
    <3> QED BY <1>1, <2>1, <3>1, JoinedKept
  <2>3. CASE RecvFrame(c, m)
    <3>1. /\ m.frame \in Frame /\ m.frame.seq \in Nat /\ ready[c]
          /\ pump'[c] \in {pump[c], Broadcasted(pump[c], m.frame), BinarySeen(pump[c], m.frame.seq)}
      BY <1>1, <2>3 DEF RecvFrame, Message, Frame
    <3> QED BY <1>1, <3>1, JoinedKept DEF Registry
  <2>4. CASE RecvAck(c, m)
    <3>1. m.seq \in Nat /\ ready[c] /\ pump'[c] \in {pump[c], Acked(pump[c], m.seq)}
      BY <1>1, <2>4 DEF RecvAck, Ack
    <3> QED BY <1>1, <3>1, JoinedKept DEF Registry
  <2>5. CASE RecvOther(c, m)
    BY <2>5 DEF RecvOther, Registry
  <2> QED BY <2>1, <2>2, <2>3, <2>4, <2>5
<1> QED BY <1>2, <1>3, <1>4

LEMMA RegistryKept ==
  ASSUME Typed, Registry, [Next]_vars
  PROVE  Registry'
<1>1. /\ nextPeer \in Nat /\ nextPeer >= 1 /\ peers \subseteq PeerIds /\ MaxConns \in Nat
      /\ owner \in [PeerIds -> Clients \cup {0}] /\ conn \in [Clients -> PeerIds \cup {0}]
      /\ room.cache \in Seq(Frame) /\ 0 \notin Clients
      /\ ready \in [Clients -> BOOLEAN]
  BY BoundsAssumption, ClientsAssumption
     DEF Typed, CacheInv, RoomTypeOK, LinkTypes, PumpTypeOK
<1>2. ASSUME NEW c \in Clients, Join(c) PROVE Registry'
  <2>1. /\ peers' = peers \cup {nextPeer} /\ nextPeer' = nextPeer + 1 /\ nextPeer \in PeerIds
        /\ owner' = [owner EXCEPT ![nextPeer] = c] /\ conn' = [conn EXCEPT ![c] = nextPeer]
        /\ ready' = [ready EXCEPT ![c] = FALSE]
        /\ UNCHANGED <<room, sent, pump>>
    BY <1>1, <1>2 DEF Join, PeerIds
  <2>2. \A d \in Clients : conn'[d] # 0 => conn'[d] < nextPeer' /\ owner'[conn'[d]] = d
    <3> TAKE d \in Clients
    <3>1. CASE d = c
      BY <1>1, <2>1, <3>1
    <3>2. CASE d # c
      <4>1. conn'[d] = conn[d] /\ conn[d] \in PeerIds \cup {0}
        BY <1>1, <2>1, <3>2
      <4>2. conn[d] # 0 => conn[d] < nextPeer /\ owner[conn[d]] = d
        BY DEF Registry
      <4>3. conn[d] # 0 => conn[d] # nextPeer /\ owner'[conn[d]] = owner[conn[d]]
        BY <1>1, <2>1, <4>1, <4>2 DEF PeerIds
      <4> QED BY <1>1, <2>1, <4>1, <4>2, <4>3 DEF PeerIds
    <3> QED BY <3>1, <3>2
  <2>3. peers' \subseteq 1..nextPeer' - 1
    BY <1>1, <2>1 DEF Registry
  <2>4. \A f \in sent' : f.sender \in PeerIds /\ f.sender < nextPeer'
    BY <1>1, <2>1 DEF Registry, PeerIds
  <2>5. \A d \in Clients : ready'[d] => conn'[d] # 0 /\ pump'[d].joined
    BY <1>1, <2>1 DEF Registry
  <2> QED BY <2>1, <2>2, <2>3, <2>4, <2>5 DEF Registry
<1>3. ASSUME NEW p \in PeerIds, Leave(p) PROVE Registry'
  <2>1. Range(room'.cache) \subseteq sent
    <3>1. CASE room' = room
      BY <3>1 DEF Registry
    <3>2. CASE room' = Rebuilt(room)
      BY <3>2 DEF Rebuilt, Range
    <3> QED BY <1>3, <3>1, <3>2 DEF Leave
  <2> QED BY <1>3, <2>1 DEF Leave, Registry, clientVars
<1>4. ASSUME NEW p \in PeerIds, ServerRecv(p) PROVE Registry'
  <2>1. UNCHANGED <<nextPeer, owner, peers, conn, ready, pump>> /\ p \in peers
    BY <1>4 DEF ServerRecv, clientVars
  <2>2. CASE HandlePublication(p)
    <3> DEFINE f == [epoch |-> room.epoch, seq |-> room.seq + 1, sender |-> p, kind |-> Head(up[p]).kind]
    <3>1. sent' = sent \cup {f} /\ f.sender = p
      BY <2>2 DEF HandlePublication
    <3>2. PICK kept \in Cached(room.cache, f) : room' = [room EXCEPT !.seq = @ + 1, !.cache = kept]
      BY <2>2 DEF HandlePublication
    <3>3. f \in Frame
      <4>1. Head(up[p]).kind \in {"text", "bin"}
        BY <2>2 DEF HandlePublication, Publication
      <4> QED BY <1>1, <4>1 DEF Typed, CacheInv, RoomTypeOK, Frame, PeerIds
    <3> HIDE DEF f
    <3>4. Len(room.cache) <= CacheMax
      BY DEF Typed, CacheInv, CacheIsTail
    <3>5. /\ kept \in Seq(Frame) /\ Len(kept) <= Len(room.cache) + 1
          /\ \A i \in 1..Len(kept) :
                kept[i] = IF i = Len(kept) THEN f
                          ELSE room.cache[Len(room.cache) + 1 - Len(kept) + i]
      <4>1. room.cache \in Seq(Frame)
        BY <1>1
      <4> QED BY <3>2, <3>3, <3>4, <4>1, CachedProps
    <3>6. Range(kept) \subseteq Range(room.cache) \cup {f}
      <4> SUFFICES ASSUME NEW i \in 1..Len(kept) PROVE kept[i] \in Range(room.cache) \cup {f}
        BY <3>5 DEF Range
      <4>1. CASE i = Len(kept)
        BY <3>5, <4>1
      <4>2. CASE i # Len(kept)
        <5>1. Len(room.cache) + 1 - Len(kept) + i \in DOMAIN room.cache
          BY <1>1, <3>5, <4>2
        <5> QED BY <3>5, <4>2, <5>1 DEF Range
      <4> QED BY <4>1, <4>2
    <3>7. room'.cache = kept
      BY <3>2 DEF Typed, CacheInv, RoomTypeOK
    <3>8. p \in PeerIds /\ p < nextPeer
      BY <1>1, <2>1 DEF Registry
    <3> QED BY <2>1, <3>1, <3>6, <3>7, <3>8 DEF Registry
  <2>3. CASE HandleReplay(p)
    BY <2>1, <2>3 DEF HandleReplay, Registry
  <2> QED BY <1>4, <2>2, <2>3 DEF ServerRecv
<1>5. ASSUME NEW c \in Clients, Drop(c) PROVE Registry'
  BY <1>1, <1>5 DEF Drop, serverVars, Registry
<1>6. ASSUME NEW d \in Clients, ClientRecv(d) \/ GapTimer(d) PROVE Registry'
  <2>1. UNCHANGED <<nextPeer, owner, peers, room, sent, conn>>
    BY <1>6 DEF ClientRecv, GapTimer, serverVars
  <2>2. \A c \in Clients : ready'[c] => conn'[c] # 0 /\ pump'[c].joined
    BY <1>6, <2>1, ReadyJoined
  <2> QED BY <2>1, <2>2 DEF Registry
<1>7. CASE UNCHANGED <<serverVars, conn, ready, pump>>
  BY <1>7 DEF Registry, serverVars
<1>8. CASE \/ \E p \in PeerIds : QueueOther(p)
           \/ \E c \in Clients, kind \in Kinds : Publish(c, kind)
           \/ UNCHANGED vars
  BY <1>7, <1>8 DEF QueueOther, Publish, vars, serverVars, clientVars
<1> QED BY <1>2, <1>3, <1>4, <1>5, <1>6, <1>8 DEF Next

(* Frames stay sent, and their senders' connections have one owner. *)
LEMMA SentStays ==
  ASSUME Typed, Registry, [Next]_vars
  PROVE  /\ sent \subseteq sent'
         /\ \A p \in PeerIds : p < nextPeer => owner'[p] = owner[p]
<1>1. nextPeer \in Nat /\ owner \in [PeerIds -> Clients \cup {0}]
  BY BoundsAssumption DEF Typed, CacheInv, RoomTypeOK, LinkTypes
<1>2. ASSUME NEW c \in Clients, Join(c)
      PROVE  sent \subseteq sent' /\ \A p \in PeerIds : p < nextPeer => owner'[p] = owner[p]
  BY <1>1, <1>2 DEF Join
<1>3. CASE \E p \in PeerIds : ServerRecv(p)
  BY <1>3 DEF ServerRecv, HandlePublication, HandleReplay
<1>4. CASE ~ \/ \E c \in Clients : Join(c)
             \/ \E p \in PeerIds : ServerRecv(p)
  BY <1>4 DEF Next, vars, serverVars, Leave, QueueOther, Publish, Drop, ClientRecv, GapTimer
<1> QED BY <1>2, <1>3, <1>4

LEMMA SentFor ==
  ASSUME Typed, Registry, [Next]_vars, NEW c, NEW e
  PROVE  /\ \A n : Quiet(c, e, n) => Quiet(c, e, n)'
         /\ \A n, seen : Reached(c, e, n, seen) =>
              \E f \in sent' : /\ f.epoch = e /\ f.seq = n
                               /\ f \in seen \/ f.kind = "bin" \/ owner'[f.sender] = c
         /\ \A m : Carries(m, c, e) => Carries(m, c, e)'
<1>1. sent \subseteq sent' /\ \A f \in sent : owner'[f.sender] = owner[f.sender]
  BY SentStays DEF Registry
<1>2. \A n : Quiet(c, e, n) => Quiet(c, e, n)'
  BY <1>1 DEF Quiet
<1> QED BY <1>1, <1>2 DEF Reached, Carries

(* A connection of a member, and what is queued on it. *)
LEMMA WireKept ==
  ASSUME Typed, Registry, WireInv, [Next]_vars
  PROVE  WireInv'
<1>1. /\ nextPeer \in Nat /\ nextPeer >= 1 /\ peers \subseteq PeerIds /\ MaxConns \in Nat
      /\ conn \in [Clients -> PeerIds \cup {0}] /\ ring \in [PeerIds -> Seq(Messages)]
      /\ ready \in [Clients -> BOOLEAN] /\ course \in [Clients -> Courses]
      /\ room.epoch \in Nat /\ room.seq \in Nat
      /\ peers \subseteq 1..nextPeer - 1
      /\ \A c \in Clients : conn[c] # 0 => conn[c] < nextPeer /\ owner[conn[c]] = c
  BY BoundsAssumption
     DEF Typed, CacheInv, RoomTypeOK, LinkTypes, PumpTypeOK, TalkInv, TalkTypes, Registry
<1> SUFFICES ASSUME NEW c \in Clients, conn'[c] # 0
             PROVE  \E e \in Nat : OnWire(c, e)'
  BY DEF WireInv
<1>2. ASSUME NEW e \in Nat, OnWire(c, e), conn'[c] = conn[c],
             conn[c] \in peers' => conn[c] \in peers /\ room'.epoch = room.epoch,
             ready'[c] => course'[c].era = e,
             \A m \in Range(ring'[conn[c]]) : m \in Range(ring[conn[c]]) \/ Carries(m, c, e)'
      PROVE  OnWire(c, e)'
  <2>1. \A m \in Range(ring'[conn'[c]]) : Carries(m, c, e)'
    BY <1>2, SentFor DEF OnWire
  <2> QED BY <1>2, <2>1 DEF OnWire
<1>3. ASSUME conn[c] # 0 PROVE \E e \in Nat : OnWire(c, e)
  BY <1>3 DEF WireInv
<1>4. ASSUME NEW d \in Clients, Join(d) PROVE \E e \in Nat : OnWire(c, e)'
  <2>1. /\ peers' = peers \cup {nextPeer} /\ nextPeer \in PeerIds
        /\ conn' = [conn EXCEPT ![d] = nextPeer] /\ ready' = [ready EXCEPT ![d] = FALSE]
        /\ UNCHANGED <<room, course>>
        /\ ring' = [ring EXCEPT ![nextPeer] =
             <<[type |-> "hello-ack", pluginSeq |-> room.seq, epoch |-> room.epoch]>>]
    BY <1>1, <1>4 DEF Join, PeerIds
  <2>2. CASE c = d
    <3>1. PICK h, e : /\ h = [type |-> "hello-ack", pluginSeq |-> room.seq, epoch |-> e]
                      /\ e = room.epoch
      OBVIOUS
    <3>2. conn'[c] = nextPeer /\ ring'[conn'[c]] = <<h>> /\ ~ready'[c]
      BY <1>1, <2>1, <2>2, <3>1
    <3>3. Carries(h, c, e)'
      BY <3>1 DEF Carries, Hello, Message, Ack
    <3>4. \A m \in Range(ring'[conn'[c]]) : Carries(m, c, e)'
      BY <3>2, <3>3 DEF Range
    <3>5. OnWire(c, e)'
      BY <2>1, <3>1, <3>2, <3>4 DEF OnWire
    <3> QED BY <1>1, <3>1, <3>5
  <2>3. CASE c # d
    <3>1. conn'[c] = conn[c] /\ conn[c] # 0 /\ conn[c] # nextPeer
      BY <1>1, <2>1, <2>3
    <3>2. PICK e \in Nat : OnWire(c, e)
      BY <1>3, <3>1
    <3>3. OnWire(c, e)'
      BY <1>1, <1>2, <2>1, <2>3, <3>1, <3>2 DEF OnWire
    <3> QED BY <3>3
  <2> QED BY <2>2, <2>3
<1>5. ASSUME NEW p \in PeerIds, Leave(p) PROVE \E e \in Nat : OnWire(c, e)'
  <2>1. /\ peers' = peers \ {p} /\ UNCHANGED <<ring, conn, ready, course>>
        /\ peers = {p} \/ room' = room
    BY <1>5 DEF Leave, clientVars
  <2>2. PICK e \in Nat : OnWire(c, e)
    BY <1>3, <2>1
  <2>3. OnWire(c, e)'
    BY <1>2, <2>1, <2>2 DEF OnWire
  <2> QED BY <2>3
<1>6. ASSUME NEW p \in PeerIds, ServerRecv(p) PROVE \E e \in Nat : OnWire(c, e)'
  <2>1. UNCHANGED <<peers, conn, ready, course, owner>> /\ p \in peers
    BY <1>6 DEF ServerRecv, clientVars
  <2>2. PICK e \in Nat : OnWire(c, e)
    BY <1>3, <2>1
  <2> DEFINE q == conn[c]
  <2>3. q \in PeerIds /\ ring[q] \in Seq(Messages) /\ owner[q] = c
    BY <1>1, <2>1
  <2>4. CASE HandlePublication(p)
    <3>8. PICK f, a, b :
            /\ f = [epoch |-> room.epoch, seq |-> room.seq + 1, sender |-> p, kind |-> Head(up[p]).kind]
            /\ a = [type |-> "plugin-msg-ack", seq |-> f.seq]
            /\ b = [type |-> "plugin-msg", frame |-> f]
      OBVIOUS
    <3>1. /\ sent' = sent \cup {f} /\ room'.epoch = room.epoch
          /\ ring'[q] \in {ring[q], Enqueue(ring[q], IF q = p THEN a ELSE b)}
          /\ q \notin peers => ring'[q] = ring[q]
      BY <2>3, <2>4, <3>8 DEF HandlePublication, Typed, CacheInv, RoomTypeOK
    <3>2. f \in Frame
      <4>1. Head(up[p]).kind \in {"text", "bin"}
        BY <2>4 DEF HandlePublication, Publication
      <4> QED BY <1>1, <3>8, <4>1 DEF Frame, PeerIds
    <3>3. f.epoch = room.epoch /\ f.sender = p
      BY <3>8
    <3>4. a \in Messages /\ b \in Messages /\ a \notin Hello \cup Message /\ b \notin Hello \cup Ack
      BY <3>2, <3>8 DEF Messages, Hello, Ack, Message, Frame
    <3>5. b.frame = f /\ a.seq = f.seq
      BY <3>8
    <3>6. \A m \in Range(ring'[q]) : m \in Range(ring[q]) \/ Carries(m, c, e)'
      <4>1. CASE ring'[q] = ring[q]
        BY <4>1
      <4>2. CASE q \in peers /\ q = p /\ ring'[q] = Enqueue(ring[q], a)
        <5>1. room.epoch = e
          BY <2>2, <4>2 DEF OnWire
        <5>2. Quiet(c, e, a.seq)'
          BY <2>1, <2>3, <3>1, <3>3, <3>5, <4>2, <5>1 DEF Quiet
        <5>3. Carries(a, c, e)'
          BY <3>4, <5>2 DEF Carries
        <5> QED BY <2>3, <3>4, <4>2, <5>3, EnqueueProps
      <4>3. CASE q \in peers /\ ring'[q] = Enqueue(ring[q], b)
        <5>1. room.epoch = e
          BY <2>2, <4>3 DEF OnWire
        <5>2. Carries(b, c, e)'
          BY <3>1, <3>3, <3>4, <3>5, <5>1 DEF Carries
        <5> QED BY <2>3, <3>4, <4>3, <5>2, EnqueueProps
      <4> QED BY <3>1, <4>1, <4>2, <4>3
    <3>7. OnWire(c, e)'
      BY <1>2, <2>1, <2>2, <3>1, <3>6 DEF OnWire
    <3> QED BY <3>7
  <2>5. CASE HandleReplay(p)
    <3> DEFINE ms == Replayed(room.cache, Head(up[p]).after, p)
    <3>1. /\ UNCHANGED <<room, sent>> /\ ring'[q] \in {ring[q], EnqueueAll(ring[q], ms)}
          /\ q # p => ring'[q] = ring[q]
      BY <1>1, <2>3, <2>5 DEF HandleReplay
    <3>2. ms \in Seq(Messages) /\ \A m \in Range(ms) : m \in Message /\ m.frame \in Range(room.cache)
      BY ReplayedProps DEF Typed
    <3> HIDE DEF ms
    <3>3. \A f \in Range(room.cache) : f \in sent /\ f.epoch = room.epoch
      BY DEF Registry, Typed, CacheInv, CacheIsTail, RoomTypeOK, Range
    <3>4. \A m \in Range(ring'[q]) : m \in Range(ring[q]) \/ Carries(m, c, e)'
      <4>1. CASE ring'[q] = ring[q]
        BY <4>1
      <4>2. CASE q = p /\ ring'[q] = EnqueueAll(ring[q], ms)
        <5>1. room.epoch = e
          BY <2>1, <2>2, <4>2 DEF OnWire
        <5>2. \A m \in Message : m \notin Hello \cup Ack
          BY DEF Message, Hello, Ack
        <5>3. \A m \in Range(ms) : Carries(m, c, e)'
          BY <3>1, <3>2, <3>3, <5>1, <5>2 DEF Carries
        <5> QED BY <2>3, <3>2, <4>2, <5>3, EnqueueAllProps
      <4> QED BY <3>1, <4>1, <4>2
    <3>5. OnWire(c, e)'
      BY <1>2, <2>1, <2>2, <3>1, <3>4 DEF OnWire
    <3> QED BY <3>5
  <2> QED BY <1>6, <2>4, <2>5 DEF ServerRecv
<1>7. ASSUME NEW p \in PeerIds, QueueOther(p) PROVE \E e \in Nat : OnWire(c, e)'
  <2> DEFINE o == [type |-> "other"]
  <2>1. UNCHANGED <<peers, room, conn, ready, course>> /\ ring' = [ring EXCEPT ![p] = Enqueue(@, o)]
    BY <1>7 DEF QueueOther, serverVars, clientVars
  <2>2. o \in Messages /\ o \notin Hello \cup Ack \cup Message
    BY DEF Messages, Other, Hello, Ack, Message
  <2> HIDE DEF o
  <2>3. PICK e \in Nat : OnWire(c, e)
    BY <1>3, <2>1
  <2>4. conn[c] \in PeerIds /\ ring[conn[c]] \in Seq(Messages) /\ conn'[c] = conn[c]
    BY <1>1, <2>1
  <2>5. Range(ring'[conn[c]]) \subseteq Range(ring[conn[c]]) \cup {o}
    BY <1>1, <2>1, <2>2, <2>4, EnqueueProps
  <2>6. Carries(o, c, e)'
    BY <2>2 DEF Carries
  <2>7. OnWire(c, e)'
    BY <1>2, <2>1, <2>3, <2>4, <2>5, <2>6 DEF OnWire
  <2> QED BY <2>7
<1>8. ASSUME NEW d \in Clients, Drop(d) PROVE \E e \in Nat : OnWire(c, e)'
  <2>1. /\ UNCHANGED <<peers, room, course>> /\ conn' = [conn EXCEPT ![d] = 0]
        /\ ring' = [ring EXCEPT ![conn[d]] = <<>>] /\ ready' = [ready EXCEPT ![d] = FALSE]
        /\ conn[d] # 0
    BY <1>8 DEF Drop, serverVars
  <2>2. d # c
    BY <1>1, <2>1
  <2>3. conn'[c] = conn[c] /\ ready'[c] = ready[c] /\ ring'[conn[c]] = ring[conn[c]]
    BY <1>1, <2>1, <2>2
  <2>4. PICK e \in Nat : OnWire(c, e)
    BY <1>3, <2>3
  <2>5. OnWire(c, e)'
    BY <1>2, <2>1, <2>3, <2>4 DEF OnWire
  <2> QED BY <2>5
<1>9. ASSUME NEW d \in Clients, ClientRecv(d) PROVE \E e \in Nat : OnWire(c, e)'
  <2>1. UNCHANGED <<peers, room, conn>> /\ conn[d] # 0 /\ ring[conn[d]] # <<>>
        /\ ring' = [ring EXCEPT ![conn[d]] = Tail(@)]
    BY <1>9 DEF ClientRecv, serverVars
  <2>2. PICK e \in Nat : OnWire(c, e)
    BY <1>3, <2>1
  <2>3. CASE d # c
    <3>1. ring'[conn[c]] = ring[conn[c]] /\ ready'[c] = ready[c] /\ course'[c] = course[c]
      BY <1>1, <1>9, <2>1, <2>3, OwnPump
    <3>2. OnWire(c, e)'
      BY <1>2, <2>1, <2>2, <3>1 DEF OnWire
    <3> QED BY <3>2
  <2>4. CASE d = c
    <3> DEFINE m == Head(ring[conn[c]])
    <3>1. /\ m \in Range(ring[conn[c]])
          /\ Range(Tail(ring[conn[c]])) \subseteq Range(ring[conn[c]])
          /\ ring'[conn[c]] = Tail(ring[conn[c]])
      BY <1>1, <2>1, <2>4, TailProps
    <3>2. RecvHello(c, m) \/ RecvFrame(c, m) \/ RecvAck(c, m) \/ RecvOther(c, m)
      BY <1>9, <2>4 DEF ClientRecv
    <3>3. Carries(m, c, e)
      BY <2>2, <3>1 DEF OnWire
    <3> HIDE DEF m
    <3>4. ready'[c] => course'[c].era = e
      <4>1. CASE RecvHello(c, m)
        <5>1. m.epoch = e
          BY <3>3, <4>1 DEF RecvHello, Carries
        <5>2. course'[c].era = m.epoch
          BY <1>1, <4>1 DEF RecvHello, Courses
        <5> QED BY <5>1, <5>2
      <4>2. CASE RecvFrame(c, m) \/ RecvAck(c, m) \/ RecvOther(c, m)
        <5>1. ready' = ready /\ course' = course
          BY <4>2 DEF RecvFrame, RecvAck, RecvOther
        <5> QED BY <2>2, <5>1 DEF OnWire
      <4> QED BY <3>2, <4>1, <4>2
    <3>5. OnWire(c, e)'
      BY <1>2, <2>1, <2>2, <3>1, <3>4 DEF OnWire
    <3> QED BY <3>5
  <2> QED BY <2>3, <2>4
<1>10. ASSUME NEW d \in Clients, GapTimer(d) PROVE \E e \in Nat : OnWire(c, e)'
  <2>1. UNCHANGED <<peers, room, conn, ready, ring>>
    BY <1>10 DEF GapTimer, serverVars
  <2>2. PICK e \in Nat : OnWire(c, e)
    BY <1>3, <2>1
  <2>3. course'[c].era = course[c].era
    <3> DEFINE more == (pump[d].delivered + 1 .. pump'[d].delivered) \ Known(pump[d])
    <3>1. course' = course \/ course' = [course EXCEPT ![d].givenUp = @ \cup more]
      BY <1>10 DEF GapTimer
    <3> HIDE DEF more
    <3>2. [course[d] EXCEPT !.givenUp = @ \cup more].era = course[d].era
      BY <1>1 DEF Courses
    <3>3. course' = course \/ course' = [course EXCEPT ![d] = [course[d] EXCEPT !.givenUp = @ \cup more]]
      BY <3>1
    <3> QED BY <1>1, <3>2, <3>3
  <2>4. OnWire(c, e)'
    BY <1>2, <2>1, <2>2, <2>3 DEF OnWire
  <2> QED BY <2>4
<1>11. CASE \/ \E d \in Clients, kind \in Kinds : Publish(d, kind)
            \/ UNCHANGED vars
  <2>1. UNCHANGED <<peers, room, conn, ready, ring, course>>
    BY <1>11 DEF Publish, serverVars, clientVars, vars
  <2>2. PICK e \in Nat : OnWire(c, e)
    BY <1>3, <2>1
  <2>3. OnWire(c, e)'
    BY <1>2, <2>1, <2>2 DEF OnWire
  <2> QED BY <2>3
<1> QED BY <1>4, <1>5, <1>6, <1>7, <1>8, <1>9, <1>10, <1>11 DEF Next

(* The pump and the course of a member: idle while others step. *)
LEMMA TrackedIdle ==
  ASSUME Typed, Registry, [Next]_vars, NEW c \in Clients, Tracked(c),
         UNCHANGED <<pump[c], course[c], log[c]>>
  PROVE  Tracked(c)'
<1> DEFINE e == course[c].era
           seen == Range(log[c])
           s == pump[c]
<1>1. ASSUME Stocked(c, e, s) PROVE Stocked(c, e, s)'
  BY <1>1, SentFor, SentStays DEF Stocked
<1>2. ASSUME NEW n, Reached(c, e, n, seen)
      PROVE  \E f \in sent' : /\ f.epoch = e /\ f.seq = n
                              /\ f \in seen \/ f.kind = "bin" \/ owner'[f.sender] = c
  BY <1>2, SentFor
<1> QED BY <1>1, <1>2 DEF Tracked, Reached

(* After a step that sends nothing. *)
LEMMA TrackedAfter ==
  ASSUME NEW c \in Clients, UNCHANGED <<sent, owner>>, pump'[c].joined,
         ~course'[c].skewed =>
           /\ Stocked(c, course'[c].era, pump'[c])
           /\ \A n \in course'[c].base + 1 .. pump'[c].delivered :
                n \in course'[c].givenUp \/ Reached(c, course'[c].era, n, Range(log'[c]))
  PROVE  Tracked(c)'
BY DEF Tracked, Stocked, Quiet, Reached

(* A handler that hands over the frames. *)
LEMMA TrackedMoved ==
  ASSUME Typed, NEW c \in Clients, Tracked(c), pump[c].joined,
         UNCHANGED <<sent, owner, course>>, NEW frames, NEW t \in Pumps,
         ~course[c].skewed => Moves(c, course[c].era, pump[c], t, frames),
         t.joined, pump'[c] = t, Range(log'[c]) = Range(log[c]) \cup frames
  PROVE  Tracked(c)'
<1>1. pump[c].delivered \in Nat /\ t.delivered \in Nat /\ course[c].base \in Nat
  BY DEF Typed, PumpTypeOK, Pumps, TalkInv, TalkTypes, Courses
<1>2. ASSUME ~course[c].skewed
      PROVE  /\ Stocked(c, course[c].era, t)
             /\ \A n \in course[c].base + 1 .. t.delivered :
                  n \in course[c].givenUp \/ Reached(c, course[c].era, n, Range(log'[c]))
  <2>1. Stocked(c, course[c].era, t)
    BY <1>2 DEF Moves
  <2>2. ASSUME NEW n \in course[c].base + 1 .. t.delivered
        PROVE  n \in course[c].givenUp \/ Reached(c, course[c].era, n, Range(log'[c]))
    <3>1. CASE n <= pump[c].delivered
      <4>1. n \in course[c].base + 1 .. pump[c].delivered
        BY <1>1, <3>1
      <4> QED BY <1>2, <4>1 DEF Tracked, Reached
    <3>2. CASE ~(n <= pump[c].delivered)
      <4>1. n \in pump[c].delivered + 1 .. t.delivered
        BY <1>1, <3>2
      <4> QED BY <1>2, <4>1 DEF Moves, Reached
    <3> QED BY <3>1, <3>2
  <2> QED BY <2>1, <2>2
<1> QED BY <1>2, TrackedAfter

LEMMA HelloAckedFields ==
  ASSUME NEW s \in Pumps, NEW header \in Nat
  PROVE  LET t == HelloAcked(s, header)
         IN  /\ t.joined /\ t.void \subseteq s.void /\ t.pending \subseteq s.pending
             /\ ~s.joined /\ s.delivered = 0 => t.delivered = header
             /\ ResetBy(s, header) => t.delivered = 0 /\ t.void = {}
             /\ s.joined /\ ~ResetBy(s, header) => t.delivered = s.delivered
<1>1. Max({0, header}) = header
  <2>1. IsFiniteSet({0, header})
    <3>1. IsFiniteSet({header} \cup {0}) /\ {header} \cup {0} = {0, header}
      BY FS_Singleton, FS_AddElement
    <3> QED BY <3>1
  <2> DEFINE M == {0, header}
  <2>2. M \in SUBSET Int /\ M # {} /\ IsFiniteSet(M) /\ 0 \in M /\ header \in M
    BY <2>1
  <2>3. \A y \in M : y = 0 \/ y = header
    OBVIOUS
  <2> HIDE DEF M
  <2>4. Max(M) \in M /\ \A y \in M : Max(M) >= y
    BY <2>2, MaxProps
  <2>6. Max(M) >= header /\ (Max(M) = 0 \/ Max(M) = header)
    BY <2>2, <2>3, <2>4
  <2>5. Max(M) = header
    BY <2>6
  <2> QED BY <2>5 DEF M
<1> QED BY <1>1 DEF HelloAcked, ResetBy, Pumps

(* A hello-ack: the pump starts, goes on, starts anew, or goes on wrongly. *)
LEMMA TrackedHello ==
  ASSUME Typed, Registry, NEW c \in Clients, Tracked(c), NEW m \in Hello, RecvHello(c, m),
         UNCHANGED <<sent, owner>>
  PROVE  Tracked(c)'
<1> DEFINE s == pump[c]
           t == HelloAcked(s, m.pluginSeq)
           k == course[c]
<1>1. /\ s \in Pumps /\ m.pluginSeq \in Nat /\ m.epoch \in Nat /\ k \in Courses
      /\ pump'[c] = t /\ log' = log
      /\ pump \in [Clients -> Pumps] /\ course \in [Clients -> Courses]
  BY DEF Typed, PumpTypeOK, TalkInv, TalkTypes, RecvHello, Hello
<1>2. /\ t.joined /\ t.void \subseteq s.void /\ t.pending \subseteq s.pending
      /\ ~s.joined /\ s.delivered = 0 => t.delivered = m.pluginSeq
      /\ ResetBy(s, m.pluginSeq) => t.delivered = 0 /\ t.void = {}
      /\ s.joined /\ ~ResetBy(s, m.pluginSeq) => t.delivered = s.delivered
  BY <1>1, HelloAckedFields
<1> HIDE DEF t
<1>3. CASE ~s.joined
  <2>1. /\ t.void = {} /\ t.pending = {} /\ t.delivered = m.pluginSeq
    BY <1>2, <1>3 DEF Tracked
  <2>2. course'[c].base = m.pluginSeq
    BY <1>1, <1>3 DEF RecvHello, Courses
  <2> QED BY <1>1, <1>2, <2>1, <2>2 DEF Tracked, Stocked
<1>4. CASE s.joined /\ ResetBy(s, m.pluginSeq)
  <2>1. course'[c].base = 0 /\ course'[c].skewed = (t.pending # {})
    BY <1>1, <1>4 DEF RecvHello, Courses
  <2>2. t.delivered = 0 /\ t.void = {} /\ t.joined
    BY <1>2, <1>4
  <2>3. ~course'[c].skewed => Stocked(c, course'[c].era, t)
    BY <2>1, <2>2 DEF Stocked
  <2>4. course'[c].base + 1 .. t.delivered = {}
    BY <2>1, <2>2
  <2> QED BY <1>1, <2>2, <2>3, <2>4, TrackedAfter
<1>5. CASE s.joined /\ ~ResetBy(s, m.pluginSeq)
  <2>1. /\ course'[c].base = k.base /\ course'[c].givenUp = k.givenUp
        /\ course'[c].era = m.epoch /\ course'[c].skewed = (k.skewed \/ k.era # m.epoch)
    BY <1>1, <1>5 DEF RecvHello, Courses
  <2>2. t.delivered = s.delivered /\ t.joined
    BY <1>2, <1>5
  <2>3. ASSUME ~course'[c].skewed
        PROVE  /\ Stocked(c, k.era, t)
               /\ course'[c].era = k.era
               /\ \A n \in k.base + 1 .. t.delivered : n \in k.givenUp \/ Reached(c, k.era, n, Range(log[c]))
    BY <1>2, <2>1, <2>2, <2>3 DEF Tracked, Stocked
  <2> QED BY <1>1, <2>1, <2>2, <2>3, TrackedAfter
<1> QED BY <1>3, <1>4, <1>5

(* The grace is over: every number up to the last of the stash is handed   *)
(* over, void, or given up.                                                *)
LEMMA TrackedGivenUp ==
  ASSUME Typed, NEW c \in Clients, Tracked(c), pump[c].joined,
         UNCHANGED <<sent, owner>>,
         pump' = [pump EXCEPT ![c] = GaveUp(@)],
         HandOver(c, pump[c].pending),
         course' = [course EXCEPT ![c].givenUp =
           @ \cup ((pump[c].delivered + 1 .. pump'[c].delivered) \ Known(pump[c]))]
  PROVE  Tracked(c)'
<1> DEFINE s == pump[c]
           t == GaveUp(s)
           k == course[c]
           more == (s.delivered + 1 .. t.delivered) \ Known(s)
<1>1. /\ s \in Pumps /\ k \in Courses /\ pump'[c] = t /\ Distinct(s.pending)
      /\ course \in [Clients -> Courses] /\ log \in [Clients -> Seq(Frame)]
  BY DEF Typed, PumpTypeOK, TalkInv, TalkTypes, StashDistinct
<1>2. t \in Pumps /\ t.pending = {} /\ t.joined /\ t.void \subseteq s.void
  BY <1>1, GaveUpProps, JoinedKept DEF GaveUp, Pumps
<1>3. Range(log'[c]) = Range(log[c]) \cup s.pending
  BY <1>1, GaveUpPending, HandOverProps
<1>4. course' = [course EXCEPT ![c] = [k EXCEPT !.givenUp = @ \cup more]]
  BY <1>1
<1> HIDE DEF t
<1>5. /\ course'[c].base = k.base /\ course'[c].era = k.era /\ course'[c].skewed = k.skewed
      /\ course'[c].givenUp = k.givenUp \cup more
  <2> HIDE DEF more
  <2> QED BY <1>1, <1>4 DEF Courses
<1>6. ASSUME ~k.skewed
      PROVE  /\ Stocked(c, k.era, t)
             /\ \A n \in k.base + 1 .. t.delivered :
                  n \in course'[c].givenUp \/ Reached(c, k.era, n, Range(log'[c]))
  <2>1. Stocked(c, k.era, s)
    BY <1>6 DEF Tracked
  <2>2. s.delivered \in Nat /\ t.delivered \in Nat /\ k.base \in Nat
    BY <1>1, <1>2 DEF Pumps, Courses
  <2>3. ASSUME NEW n \in k.base + 1 .. t.delivered
        PROVE  n \in course'[c].givenUp \/ Reached(c, k.era, n, Range(log'[c]))
    <3>1. CASE n <= s.delivered
      <4>1. n \in k.base + 1 .. s.delivered
        BY <2>2, <3>1
      <4> QED BY <1>3, <1>5, <1>6, <4>1 DEF Tracked, Reached
    <3>2. CASE ~(n <= s.delivered) /\ n \in Known(s)
      <4>1. Reached(c, k.era, n, s.pending)
        BY <1>1, <2>1, <3>2, KnownReached DEF Known
      <4> QED BY <1>3, <4>1 DEF Reached
    <3>3. CASE ~(n <= s.delivered) /\ n \notin Known(s)
      <4>1. n \in more
        BY <2>2, <3>3
      <4> QED BY <1>5, <4>1
    <3> QED BY <3>1, <3>2, <3>3
  <2> QED BY <1>2, <2>1, <2>3 DEF Stocked
<1> QED BY <1>1, <1>2, <1>5, <1>6, TrackedAfter

LEMMA TrackedKept ==
  ASSUME Typed, PumpTypeOK', Registry, WireInv, NEW c \in Clients, Tracked(c), [Next]_vars
  PROVE  Tracked(c)'
<1>1. /\ pump[c] \in Pumps /\ Distinct(pump[c].pending)
      /\ log \in [Clients -> Seq(Frame)] /\ ring \in [PeerIds -> Seq(Messages)]
      /\ conn \in [Clients -> PeerIds \cup {0}] /\ pump \in [Clients -> Pumps]
  BY DEF Typed, PumpTypeOK, TalkInv, TalkTypes, StashDistinct, LinkTypes
<1>2. CASE ClientRecv(c)
  <2> DEFINE m == Head(ring[conn[c]])
             s == pump[c]
  <2>1. UNCHANGED <<sent, owner, conn>> /\ conn[c] # 0 /\ ring[conn[c]] # <<>>
    BY <1>2 DEF ClientRecv, serverVars
  <2>2. m \in Range(ring[conn[c]])
    BY <1>1, <2>1, TailProps
  <2>3. RecvHello(c, m) \/ RecvFrame(c, m) \/ RecvAck(c, m) \/ RecvOther(c, m)
    BY <1>2 DEF ClientRecv
  <2>4. PICK e \in Nat : OnWire(c, e)
    BY <2>1 DEF WireInv
  <2>5. Carries(m, c, e) /\ (ready[c] => course[c].era = e /\ s.joined)
    BY <2>2, <2>4 DEF OnWire, Registry
  <2> HIDE DEF m
  <2>6. CASE RecvHello(c, m)
    <3>1. m \in Hello
      BY <2>6 DEF RecvHello
    <3> QED BY <2>1, <2>6, <3>1, TrackedHello
  <2>7. CASE RecvFrame(c, m)
    <3> DEFINE f == m.frame
    <3>1. /\ f \in Frame /\ f.seq \in Nat /\ f \in sent /\ f.epoch = e
          /\ f.kind \in {"text", "bin"}
      BY <2>5, <2>7 DEF RecvFrame, Message, Frame, Carries
    <3>2. course' = course
      BY <2>7 DEF RecvFrame
    <3>3. CASE ready[c] /\ f.kind = "text"
      <4>1. /\ pump' = [pump EXCEPT ![c] = Broadcasted(s, f)]
            /\ HandOver(c, HandedByBroadcast(s, f))
        BY <2>7, <3>3 DEF RecvFrame
      <4> HIDE DEF f
      <4>2. /\ Handable(HandedByBroadcast(s, f)) /\ Broadcasted(s, f) \in Pumps
            /\ Broadcasted(s, f).joined = s.joined
        BY <1>1, <3>1, BroadcastedDistinct, BroadcastedProps, JoinedKept
      <4>3. Range(log'[c]) = Range(log[c]) \cup HandedByBroadcast(s, f)
        BY <1>1, <4>1, <4>2, HandOverProps
      <4>4. ~course[c].skewed => Moves(c, course[c].era, s, Broadcasted(s, f), HandedByBroadcast(s, f))
        BY <1>1, <2>5, <3>1, <3>3, BroadcastedMoves DEF Tracked
      <4>5. pump'[c] = Broadcasted(s, f)
        BY <1>1, <4>1
      <4> HIDE DEF s
      <4> QED BY <2>1, <2>5, <3>2, <3>3, <4>2, <4>3, <4>4, <4>5, TrackedMoved DEF s
    <3>4. CASE ready[c] /\ f.kind # "text"
      <4>1. /\ pump' = [pump EXCEPT ![c] = BinarySeen(s, f.seq)]
            /\ HandOver(c, HandedByBinary(s, f.seq))
        BY <2>7, <3>4 DEF RecvFrame
      <4> HIDE DEF f
      <4>2. /\ Handable(HandedByBinary(s, f.seq)) /\ BinarySeen(s, f.seq) \in Pumps
            /\ BinarySeen(s, f.seq).joined = s.joined
        BY <1>1, <3>1, BinarySeenDistinct, BinarySeenProps, JoinedKept
      <4>3. Range(log'[c]) = Range(log[c]) \cup HandedByBinary(s, f.seq)
        BY <1>1, <4>1, <4>2, HandOverProps
      <4>4. Quiet(c, e, f.seq)
        BY <3>1, <3>4 DEF Quiet
      <4>5. ~course[c].skewed => Moves(c, course[c].era, s, BinarySeen(s, f.seq), HandedByBinary(s, f.seq))
        BY <1>1, <2>5, <3>1, <3>4, <4>4, BinarySeenMoves DEF Tracked
      <4>6. pump'[c] = BinarySeen(s, f.seq)
        BY <1>1, <4>1
      <4> HIDE DEF s
      <4> QED BY <2>1, <2>5, <3>2, <3>4, <4>2, <4>3, <4>5, <4>6, TrackedMoved DEF s
    <3>5. CASE ~ready[c]
      BY <2>7, <3>2, <3>5, TrackedIdle DEF RecvFrame
    <3> QED BY <3>3, <3>4, <3>5
  <2>8. CASE RecvAck(c, m)
    <3> DEFINE n == m.seq
    <3>1. n \in Nat /\ Quiet(c, e, n)
      BY <2>5, <2>8 DEF RecvAck, Ack, Carries
    <3>2. course' = course
      BY <2>8 DEF RecvAck
    <3>3. CASE ready[c]
      <4>1. /\ pump' = [pump EXCEPT ![c] = Acked(s, n)]
            /\ HandOver(c, HandedByAck(s, n))
        BY <2>8, <3>3 DEF RecvAck
      <4> HIDE DEF n
      <4>2. /\ Handable(HandedByAck(s, n)) /\ Acked(s, n) \in Pumps
            /\ Acked(s, n).joined = s.joined
        BY <1>1, <3>1, AckedDistinct, AckedProps, JoinedKept
      <4>3. Range(log'[c]) = Range(log[c]) \cup HandedByAck(s, n)
        BY <1>1, <4>1, <4>2, HandOverProps
      <4>4. ~course[c].skewed => Moves(c, course[c].era, s, Acked(s, n), HandedByAck(s, n))
        BY <1>1, <2>5, <3>1, <3>3, AckedMoves DEF Tracked
      <4>5. pump'[c] = Acked(s, n)
        BY <1>1, <4>1
      <4> HIDE DEF s
      <4> QED BY <2>1, <2>5, <3>2, <3>3, <4>2, <4>3, <4>4, <4>5, TrackedMoved DEF s
    <3>4. CASE ~ready[c]
      BY <2>8, <3>2, <3>4, TrackedIdle DEF RecvAck
    <3> QED BY <3>3, <3>4
  <2>9. CASE RecvOther(c, m)
    <3>1. UNCHANGED <<pump, log, course>>
      BY <1>2, <2>9 DEF ClientRecv, RecvOther
    <3> QED BY <3>1, TrackedIdle
  <2> QED BY <2>3, <2>6, <2>7, <2>8, <2>9
<1>3. CASE GapTimer(c)
  <2>1. UNCHANGED <<sent, owner>>
    BY <1>3 DEF GapTimer, serverVars
  <2>2. CASE /\ pump' = [pump EXCEPT ![c] = Disarmed(@)] /\ UNCHANGED <<log, course>>
    <3>1. /\ pump'[c].pending = pump[c].pending /\ pump'[c].void = pump[c].void
          /\ pump'[c].delivered = pump[c].delivered /\ pump'[c].joined = pump[c].joined
      BY <1>1, <2>2 DEF Disarmed, Pumps
    <3> QED BY <2>1, <2>2, <3>1 DEF Tracked, Stocked, Quiet, Reached
  <2>3. CASE /\ pump' = [pump EXCEPT ![c] = ReplayAsked(@)] /\ UNCHANGED <<log, course>>
    <3>1. /\ pump'[c].pending = pump[c].pending /\ pump'[c].void = pump[c].void
          /\ pump'[c].delivered = pump[c].delivered /\ pump'[c].joined = pump[c].joined
      BY <1>1, <2>3 DEF ReplayAsked, Pumps
    <3> QED BY <2>1, <2>3, <3>1 DEF Tracked, Stocked, Quiet, Reached
  <2>4. CASE /\ ready[c]
             /\ pump' = [pump EXCEPT ![c] = GaveUp(@)]
             /\ HandOver(c, pump[c].pending)
             /\ course' = [course EXCEPT ![c].givenUp =
                  @ \cup ((pump[c].delivered + 1 .. pump'[c].delivered) \ Known(pump[c]))]
    <3>1. pump[c].joined
      BY <2>4 DEF Registry
    <3> QED BY <2>1, <2>4, <3>1, TrackedGivenUp
  <2> QED BY <1>3, <2>2, <2>3, <2>4 DEF GapTimer
<1>4. ASSUME NEW d \in Clients, d # c, ClientRecv(d) \/ GapTimer(d) PROVE Tracked(c)'
  BY <1>4, OwnPump, TrackedIdle
<1>5. CASE ~ \E d \in Clients : ClientRecv(d) \/ GapTimer(d)
  <2>1. UNCHANGED <<pump, log, course>>
    BY <1>5 DEF Next, vars, clientVars, Join, Leave, ServerRecv, QueueOther, Publish, Drop
  <2> QED BY <2>1, TrackedIdle
<1> QED BY <1>2, <1>3, <1>4, <1>5

(* A member's cursor has gone over nothing unseen but its own frames,      *)
(* binary ones and what was given up after the grace, for any members,     *)
(* rings, losses, reconnects and rebuilt rooms.                            *)
THEOREM CursorsTracked == Spec => []CursorInv
<1>1. Init => CursorInv
  BY DEF Init, CursorInv, Registry, WireInv, Tracked, Stocked, PumpInit, CourseInit, Range
<1>2. CursorInv /\ Typed /\ PumpTypeOK' /\ [Next]_vars => CursorInv'
  BY RegistryKept, WireKept, TrackedKept DEF CursorInv
<1>3. LinkTypes /\ PumpTypeOK /\ CacheInv /\ TalkInv => Typed
  BY DEF Typed
<1> QED BY <1>1, <1>2, <1>3, LinksTyped, PumpsTyped, CacheStaysTail, TalkTyped, PTL DEF Spec

THEOREM CursorsSound == Spec => []CursorSound
<1>1. CursorInv => CursorSound
  BY DEF CursorInv, Tracked, Reached, CursorSound
<1> QED BY <1>1, CursorsTracked, PTL

-------------------------------------------------------------------------------
(* The feed of a room that stays.  The relay departs from it in two ways:  *)
(* a room is rebuilt and numbers anew, or a member's own frame comes back  *)
(* under its new peer id while it is still void; the cursor then walks     *)
(* over a frame that stays in the stash.                                   *)

Apart(s) == s.void \cap Seqs(s.pending) = {}

NoneComesBack == \A c \in Clients : Apart(pump[c])

(* What s knows has been numbered, up to top.                              *)
Upto(s, top) ==
  /\ s.delivered <= top
  /\ \A n \in s.void : n <= top
  /\ \A f \in s.pending : f.seq <= top

(* t comes of s by a handler that hands over the frames: the cursor goes   *)
(* over all of them, and over nothing that stays in the stash.             *)
Passes(s, t, frames, top) ==
  /\ t.delivered \in s.delivered..top
  /\ \A n \in t.void : n <= top
  /\ \A f \in t.pending : f.seq > t.delivered + 1
  /\ \A f \in frames : f.seq \in s.delivered + 1 .. t.delivered

LEMMA FlushPasses ==
  ASSUME NEW s \in Pumps, NEW top \in Nat, Upto(s, top), Apart(s),
         \A f \in s.pending : f.seq > s.delivered
  PROVE  Passes(s, FlushContiguous(s), Flushed(s), top)
<1> DEFINE t == FlushContiguous(s)
<1>1. /\ t.delivered = Reach(s) /\ t.void \subseteq s.void
      /\ t.pending = s.pending \ Flushed(s)
  <2>1. t.pending = s.pending \ Flushed(s)
    BY DEF FlushContiguous, Pumps
  <2> QED BY <2>1, FlushFields
<1>2. /\ Reach(s) \in Nat /\ Reach(s) >= s.delivered /\ s.delivered \in Nat
      /\ (s.delivered + 1)..Reach(s) \subseteq Known(s) /\ Reach(s) + 1 \notin Known(s)
  BY ReachProps DEF Pumps
<1>3. s.pending \in SUBSET Frame /\ s.void \in SUBSET Nat
  BY DEF Pumps
<1>4. Reach(s) <= top
  <2>1. CASE Reach(s) = s.delivered
    BY <2>1 DEF Upto
  <2>2. CASE Reach(s) # s.delivered
    <3>1. Reach(s) \in Known(s)
      BY <1>2, <2>2
    <3> QED BY <3>1 DEF Known, Seqs, Upto
  <2> QED BY <2>1, <2>2
<1>5. ASSUME NEW f \in s.pending, f \notin Flushed(s) PROVE f.seq > Reach(s) + 1
  <2>1. f.seq \in Nat /\ f.seq \in Seqs(s.pending) /\ f.seq \notin s.void /\ f.seq > s.delivered
    BY <1>3 DEF Seqs, Apart, Frame
  <2>2. f.seq \notin (s.delivered + 1)..Reach(s)
    BY <1>5, <2>1 DEF Flushed
  <2>3. f.seq # Reach(s) + 1
    BY <1>2, <2>1 DEF Known
  <2> QED BY <1>2, <2>1, <2>2, <2>3
<1>6. \A f \in Flushed(s) : f.seq \in s.delivered + 1 .. Reach(s)
  BY DEF Flushed
<1> HIDE DEF t
<1>7. \A n \in t.void : n <= top
  BY <1>1 DEF Upto
<1>8. t.delivered \in s.delivered..top
  BY <1>1, <1>2, <1>4
<1>9. \A f \in t.pending : f.seq > t.delivered + 1
  BY <1>1, <1>5
<1>10. \A f \in Flushed(s) : f.seq \in s.delivered + 1 .. t.delivered
  BY <1>1, <1>6
<1> QED BY <1>7, <1>8, <1>9, <1>10 DEF Passes, t

LEMMA BroadcastedPasses ==
  ASSUME NEW s \in Pumps, NEW top \in Nat, Upto(s, top), Apart(s),
         \A g \in s.pending : g.seq > s.delivered + 1,
         NEW f \in Frame, f.seq <= top
  PROVE  /\ Passes(s, Broadcasted(s, f), HandedByBroadcast(s, f), top)
         /\ Broadcasted(s, f).pending \subseteq s.pending \cup {f}
<1>1. /\ s.delivered \in Nat /\ f.seq \in Nat /\ s.void \in SUBSET Nat
      /\ s.pending \in SUBSET Frame /\ \A g \in Frame : g.seq \in Nat
  BY DEF Pumps, Frame
<1>2. CASE f.seq <= s.delivered
  BY <1>1, <1>2 DEF Broadcasted, HandedByBroadcast, Passes, Upto
<1>3. CASE f.seq > s.delivered + 1
  <2>1. Broadcasted(s, f) = Stash(s, f) /\ HandedByBroadcast(s, f) = {}
    BY <1>1, <1>3 DEF Broadcasted, HandedByBroadcast
  <2>2. /\ Stash(s, f).pending = {g \in s.pending : g.seq # f.seq} \cup {f}
        /\ Stash(s, f).void = s.void /\ Stash(s, f).delivered = s.delivered
    BY DEF Stash, Pumps
  <2> QED BY <1>1, <1>3, <2>1, <2>2 DEF Passes, Upto
<1>4. CASE f.seq = s.delivered + 1
  <2> DEFINE t == Advance(s, f)
  <2>1. /\ t \in Pumps /\ t.pending = s.pending /\ t.delivered = f.seq /\ t.void = s.void
    BY AdvanceProps DEF Advance, Pumps
  <2>2. Broadcasted(s, f) = FlushContiguous(t) /\ HandedByBroadcast(s, f) = {f} \cup Flushed(t)
    BY <1>1, <1>4 DEF Broadcasted, HandedByBroadcast
  <2> HIDE DEF t
  <2>3. Upto(t, top) /\ Apart(t) /\ \A g \in t.pending : g.seq > t.delivered
    BY <1>4, <2>1 DEF Upto, Apart
  <2>4. Passes(t, FlushContiguous(t), Flushed(t), top)
    BY <2>1, <2>3, FlushPasses
  <2>5. FlushContiguous(t).pending \subseteq s.pending /\ FlushContiguous(t).delivered \in Nat
    BY <2>1, FlushProps DEF Pumps
  <2> DEFINE u == FlushContiguous(t)
  <2> HIDE DEF u
  <2>6. u.delivered \in t.delivered..top /\ u.delivered \in Nat
    BY <2>4, <2>5 DEF Passes, u
  <2>7. \A g \in {f} \cup Flushed(t) : g.seq \in s.delivered + 1 .. u.delivered
    <3>1. f.seq \in s.delivered + 1 .. u.delivered
      BY <1>1, <1>4, <2>1, <2>6
    <3>2. ASSUME NEW g \in Flushed(t) PROVE g.seq \in s.delivered + 1 .. u.delivered
      <4>1. g.seq \in t.delivered + 1 .. u.delivered
        BY <2>4 DEF Passes, u
      <4> QED BY <1>1, <1>4, <2>1, <4>1
    <3> QED BY <3>1, <3>2
  <2>8. u.delivered \in s.delivered..top
    BY <1>1, <1>4, <2>1, <2>6
  <2>9. Passes(s, u, {f} \cup Flushed(t), top)
    BY <2>4, <2>7, <2>8 DEF Passes, u
  <2> QED BY <2>2, <2>5, <2>9 DEF u
<1> QED BY <1>1, <1>2, <1>3, <1>4

LEMMA AckedPasses ==
  ASSUME NEW s \in Pumps, NEW top \in Nat, Upto(s, top), Apart(s),
         \A g \in s.pending : g.seq > s.delivered + 1,
         NEW n \in Nat, n <= top, n \notin Seqs(s.pending)
  PROVE  /\ Passes(s, Acked(s, n), HandedByAck(s, n), top)
         /\ Acked(s, n).pending \subseteq s.pending
<1> DEFINE v == WithVoid(s, n)
<1>1. /\ v \in Pumps /\ v.pending = s.pending /\ v.delivered = s.delivered
      /\ v.void \subseteq s.void \cup {n}
  BY WithVoidProps DEF WithVoid, Pumps
<1>2. Acked(s, n) = FlushContiguous(v) /\ HandedByAck(s, n) = Flushed(v)
  BY DEF Acked, HandedByAck
<1> HIDE DEF v
<1>3. Upto(v, top) /\ Apart(v)
  BY <1>1 DEF Upto, Apart
<1>4. \A g \in v.pending : g.seq > v.delivered
  <2>1. s.delivered \in Nat /\ \A g \in s.pending : g.seq \in Nat
    BY DEF Pumps, Frame
  <2> QED BY <1>1, <2>1
<1>5. Passes(v, FlushContiguous(v), Flushed(v), top) /\ FlushContiguous(v).pending \subseteq v.pending
  BY <1>1, <1>3, <1>4, FlushPasses, FlushProps
<1> QED BY <1>1, <1>2, <1>5 DEF Passes

LEMMA BinarySeenPasses ==
  ASSUME NEW s \in Pumps, NEW top \in Nat, Upto(s, top), Apart(s),
         \A g \in s.pending : g.seq > s.delivered + 1,
         NEW n \in Nat, n <= top, n \notin Seqs(s.pending)
  PROVE  /\ Passes(s, BinarySeen(s, n), HandedByBinary(s, n), top)
         /\ BinarySeen(s, n).pending \subseteq s.pending
<1>1. CASE n > s.delivered
  BY <1>1, AckedPasses DEF BinarySeen, HandedByBinary
<1>2. CASE ~(n > s.delivered)
  <2>1. s.delivered \in Nat
    BY DEF Pumps
  <2> QED BY <1>2, <2>1 DEF BinarySeen, HandedByBinary, Passes, Upto
<1> QED BY <1>1, <1>2

LEMMA GaveUpPasses ==
  ASSUME NEW s \in Pumps, NEW top \in Nat, Upto(s, top),
         \A g \in s.pending : g.seq > s.delivered + 1
  PROVE  Passes(s, GaveUp(s), s.pending, top)
<1> DEFINE last == IF s.pending = {} THEN s.delivered ELSE Max(Seqs(s.pending))
<1>1. /\ s.delivered \in Nat /\ s.void \in SUBSET Nat /\ IsFiniteSet(s.pending)
      /\ s.pending \in SUBSET Frame /\ \A g \in Frame : g.seq \in Nat
  BY DEF Pumps, Frame
<1>2. GaveUp(s).delivered = last /\ GaveUp(s).pending = {} /\ GaveUp(s).void \subseteq s.void
  BY DEF GaveUp, Pumps
<1>3. last \in s.delivered..top /\ \A g \in s.pending : g.seq \in s.delivered + 1 .. last
  <2>1. CASE s.pending = {}
    BY <1>1, <2>1 DEF Upto
  <2>2. CASE s.pending # {}
    <3>1. Seqs(s.pending) \in SUBSET Int /\ IsFiniteSet(Seqs(s.pending)) /\ Seqs(s.pending) # {}
      BY <1>1, <2>2, SeqsType DEF Seqs
    <3>2. last \in Seqs(s.pending) /\ \A y \in Seqs(s.pending) : last >= y
      BY <2>2, <3>1, MaxProps
    <3> HIDE DEF last
    <3>3. PICK h \in s.pending : last = h.seq
      BY <3>2 DEF Seqs
    <3>4. \A g \in s.pending : last >= g.seq
      BY <3>2 DEF Seqs
    <3> QED BY <1>1, <3>3, <3>4 DEF Upto
  <2> QED BY <2>1, <2>2
<1> HIDE DEF last
<1> QED BY <1>2, <1>3 DEF Passes, Upto

(* How far the room and each member are.                                   *)

(* The frames of a room that stays have numbers of their own.              *)
Numbered == Distinct(sent) /\ \A f \in sent : f.seq \in 1..room.seq

(* What is said to c: frames of others, receipts for the frames of its own *)
(* connection, and a header that is not behind its cursor.                 *)
Said(m, c) ==
  /\ m \in Message => m.frame \in sent /\ m.frame.sender # conn[c]
  /\ m \in Ack => \E f \in sent : f.seq = m.seq /\ f.sender = conn[c]
  /\ m \in Hello => ~ready[c] /\ m.pluginSeq \in pump[c].delivered..room.seq

(* A hello-ack comes first on its connection or not at all.                *)
HelloFirst(q) == \A i \in 2..Len(q) : q[i] \notin Hello

Lined(c) ==
  conn[c] # 0 => /\ HelloFirst(ring[conn[c]])
                 /\ \A m \in Range(ring[conn[c]]) : Said(m, c)

(* A stash holds text frames of other connections, from beyond a gap.      *)
Waiting(c, s) == \A f \in s.pending : f \in sent /\ f.kind = "text" /\ f.sender # conn[c]

Follows(c) ==
  /\ Upto(pump[c], room.seq)
  /\ Waiting(c, pump[c])
  /\ \A f \in pump[c].pending : f.seq > pump[c].delivered + 1
  /\ \A f \in Range(log[c]) : f.seq <= pump[c].delivered

FeedInv == Numbered /\ \A c \in Clients : Lined(c) /\ Follows(c)

(* The rings.  What is at a place of r was there or further back in q, or  *)
(* comes from S.                                                           *)
Advances(q, r, S) ==
  \A i \in 1..Len(r) : r[i] \in S \/ \E j \in i..Len(q) : r[i] = q[j]

LEMMA TailAdvances ==
  ASSUME NEW T, NEW q \in Seq(T), q # <<>>
  PROVE  \A i \in 1..Len(Tail(q)) : i + 1 \in 2..Len(q) /\ Tail(q)[i] = q[i + 1]
<1>1. /\ Len(Tail(q)) = Len(q) - 1 /\ Len(q) \in Nat
      /\ \A i \in 1..Len(Tail(q)) : Tail(q)[i] = q[i + 1]
  BY HeadTailProperties
<1> QED BY <1>1

LEMMA AppendAdvances ==
  ASSUME NEW T, NEW q \in Seq(T), NEW m \in T
  PROVE  Advances(q, Append(q, m), {m})
<1>1. /\ Append(q, m) \in Seq(T) /\ Len(Append(q, m)) = Len(q) + 1 /\ Len(q) \in Nat
      /\ \A i \in 1..Len(q) : Append(q, m)[i] = q[i]
      /\ Append(q, m)[Len(q) + 1] = m
  BY AppendProperties
<1>2. ASSUME NEW i \in 1..Len(q) + 1
      PROVE  Append(q, m)[i] = m \/ \E j \in i..Len(q) : Append(q, m)[i] = q[j]
  <2>1. CASE i = Len(q) + 1
    BY <1>1, <2>1
  <2>2. CASE i # Len(q) + 1
    <3>1. i \in 1..Len(q) /\ i \in i..Len(q)
      BY <1>1, <2>2
    <3> QED BY <1>1, <3>1
  <2> QED BY <2>1, <2>2
<1> QED BY <1>1, <1>2 DEF Advances

LEMMA EnqueueAdvances ==
  ASSUME NEW T, NEW q \in Seq(T), NEW m \in T
  PROVE  Advances(q, Enqueue(q, m), {m})
<1>1. CASE Len(q) < RingMax
  BY <1>1, AppendAdvances DEF Enqueue
<1>2. CASE ~(Len(q) < RingMax)
  <2> DEFINE t == Tail(q)
  <2>1. q # <<>>
    BY <1>2, RingAssumption
  <2>2. t \in Seq(T) /\ \A i \in 1..Len(t) : i + 1 \in 2..Len(q) /\ t[i] = q[i + 1]
    BY <2>1, TailProps, TailAdvances
  <2>3. Enqueue(q, m) = Append(t, m)
    BY <1>2 DEF Enqueue
  <2> HIDE DEF t
  <2>4. Advances(t, Append(t, m), {m})
    BY <2>2, AppendAdvances
  <2> DEFINE r == Append(t, m)
  <2> HIDE DEF r
  <2>5. ASSUME NEW i \in 1..Len(r), NEW j \in i..Len(t) PROVE j + 1 \in i..Len(q) /\ t[j] = q[j + 1]
    <3>1. j \in 1..Len(t)
      BY <2>5
    <3>2. j + 1 \in 2..Len(q) /\ t[j] = q[j + 1]
      BY <2>2, <3>1
    <3>3. j + 1 \in i..Len(q)
      BY <2>5, <3>1, <3>2
    <3> QED BY <3>2, <3>3
  <2> QED BY <2>3, <2>4, <2>5 DEF Advances, r
<1> QED BY <1>1, <1>2

LEMMA EnqueueAllAdvances ==
  ASSUME NEW T, NEW q \in Seq(T), NEW ms \in Seq(T)
  PROVE  Advances(q, EnqueueAll(q, ms), Range(ms))
<1> DEFINE all == q \o ms
           from == Len(all) - RingMax + 1
           cut == SubSeq(all, from, Len(all))
<1>1. /\ all \in Seq(T) /\ Len(all) \in Nat /\ Len(all) = Len(q) + Len(ms)
      /\ Len(q) \in Nat /\ Len(ms) \in Nat
      /\ \A i \in 1..Len(all) : all[i] = IF i <= Len(q) THEN q[i] ELSE ms[i - Len(q)]
  BY ConcatProperties, LenProperties
<1> HIDE DEF all
<1>2. ASSUME NEW i \in 1..Len(all) PROVE all[i] \in Range(ms) \/ \E j \in i..Len(q) : all[i] = q[j]
  <2>1. CASE i <= Len(q)
    <3>1. i \in i..Len(q) /\ all[i] = q[i]
      BY <1>1, <2>1
    <3> QED BY <3>1
  <2>2. CASE ~(i <= Len(q))
    <3>1. i - Len(q) \in 1..Len(ms) /\ all[i] = ms[i - Len(q)]
      BY <1>1, <2>2
    <3> QED BY <3>1 DEF Range
  <2> QED BY <2>1, <2>2
<1>3. CASE Len(all) <= RingMax
  BY <1>2, <1>3 DEF EnqueueAll, Advances, all
<1>4. CASE ~(Len(all) <= RingMax)
  <2>1. EnqueueAll(q, ms) = cut
    BY <1>4 DEF EnqueueAll, all
  <2>2. from \in Int /\ Len(all) \in Int /\ from >= 1
    BY <1>1, <1>4, RingAssumption
  <2>3. \A i \in from..Len(all) : all[i] \in T
    BY <1>1, <2>2
  <2>4. /\ cut \in Seq(T)
        /\ \A i \in 1..Len(all) - from + 1 : cut[i] = all[from + i - 1]
        /\ Len(cut) = IF from <= Len(all) THEN Len(all) - from + 1 ELSE 0
    <3> HIDE DEF from
    <3> QED BY <2>2, <2>3, SubSeqProperties
  <2> HIDE DEF cut
  <2>5. ASSUME NEW i \in 1..Len(cut) PROVE cut[i] \in Range(ms) \/ \E j \in i..Len(q) : cut[i] = q[j]
    <3>1. /\ i \in 1..Len(all) - from + 1 /\ from + i - 1 \in 1..Len(all) /\ i <= from + i - 1
      BY <1>1, <2>2, <2>4
    <3> HIDE DEF from
    <3>2. cut[i] = all[from + i - 1]
      BY <2>4, <3>1
    <3>3. \A j \in from + i - 1 .. Len(q) : j \in i..Len(q)
      BY <1>1, <2>2, <3>1
    <3> QED BY <1>2, <3>1, <3>2, <3>3
  <2> QED BY <2>1, <2>5 DEF Advances
<1> QED BY <1>3, <1>4

(* No hello-ack is queued behind others.                                   *)
LEMMA HelloStaysFirst ==
  ASSUME NEW q \in Seq(Messages), HelloFirst(q), NEW r \in Seq(Messages), NEW S,
         S \cap Hello = {}, Advances(q, r, S)
  PROVE  HelloFirst(r)
<1> SUFFICES ASSUME NEW i \in 2..Len(r), r[i] \in Hello PROVE FALSE
  BY DEF HelloFirst
<1>1. i \in 1..Len(r) /\ Len(q) \in Nat
  OBVIOUS
<1>2. PICK j \in i..Len(q) : r[i] = q[j]
  BY <1>1 DEF Advances
<1>3. j \in 2..Len(q)
  BY <1>1, <1>2
<1> QED BY <1>2, <1>3 DEF HelloFirst

(* The step of a member: it is handed the frames, its cursor goes over     *)
(* them, and what it keeps is still to come.                               *)
Served(c, frames) ==
  /\ Handable(frames)
  /\ HandOver(c, frames) \/ (frames = {} /\ log' = log)
  /\ Passes(pump[c], pump'[c], frames, room.seq)
  /\ Waiting(c, pump'[c])

Idles(c, s) ==
  pump'[c].delivered = s.delivered /\ pump'[c].pending = s.pending /\ pump'[c].void = s.void

LEMMA ServedNothing ==
  ASSUME Typed, NEW c \in Clients, Follows(c), Idles(c, pump[c]), log' = log
  PROVE  Served(c, {})
<1>1. pump[c].delivered \in Nat
  BY DEF Typed, PumpTypeOK, Pumps
<1> QED BY <1>1, NoneHandable DEF Served, Passes, Follows, Upto, Waiting, Idles

LEMMA ServedHello ==
  ASSUME Typed, NEW c \in Clients, Tracked(c), Follows(c), room.seq \in Nat,
         NEW m, m.pluginSeq \in pump[c].delivered..room.seq, RecvHello(c, m)
  PROVE  Served(c, {})
<1> DEFINE s == pump[c]
           t == HelloAcked(s, m.pluginSeq)
<1>1. /\ s \in Pumps /\ s.delivered \in Nat /\ m.pluginSeq \in Nat /\ pump \in [Clients -> Pumps]
      /\ log' = log /\ pump'[c] = t
  BY DEF Typed, PumpTypeOK, Pumps, RecvHello, Hello
<1>2. /\ t.joined /\ t.void \subseteq s.void /\ t.pending \subseteq s.pending
      /\ ~s.joined /\ s.delivered = 0 => t.delivered = m.pluginSeq
      /\ s.joined /\ ~ResetBy(s, m.pluginSeq) => t.delivered = s.delivered
  BY <1>1, HelloAckedFields
<1> HIDE DEF t
<1>3. CASE ~s.joined
  <2>1. s.pending = {} /\ s.delivered = 0
    BY <1>3 DEF Tracked
  <2> QED BY <1>1, <1>2, <1>3, <2>1, NoneHandable DEF Served, Passes, Follows, Upto, Waiting
<1>4. CASE s.joined
  <2>1. ~ResetBy(s, m.pluginSeq)
    BY <1>1 DEF ResetBy
  <2> QED BY <1>1, <1>2, <1>4, <2>1, NoneHandable DEF Served, Passes, Follows, Upto, Waiting
<1> QED BY <1>3, <1>4

(* A number that belongs to a frame of its own connection or to a binary   *)
(* frame is the number of nothing in the stash.                            *)
LEMMA NotWaiting ==
  ASSUME Numbered, NEW c \in Clients, Follows(c), NEW f \in sent,
         f.kind # "text" \/ f.sender = conn[c]
  PROVE  f.seq \notin Seqs(pump[c].pending)
BY DEF Numbered, Distinct, Follows, Waiting, Seqs

LEMMA ServedByRecv ==
  ASSUME Typed, Registry, FeedInv, NoneComesBack, NEW c \in Clients, Tracked(c), ClientRecv(c)
  PROVE  \E frames : Served(c, frames)
<1> DEFINE m == Head(ring[conn[c]])
           s == pump[c]
<1>1. /\ s \in Pumps /\ pump \in [Clients -> Pumps] /\ Distinct(s.pending) /\ sent \subseteq Frame
      /\ ring \in [PeerIds -> Seq(Messages)] /\ conn \in [Clients -> PeerIds \cup {0}]
      /\ room.seq \in Nat
  BY DEF Typed, PumpTypeOK, TalkInv, StashDistinct, LinkTypes, CacheInv, RoomTypeOK
<1>2. conn[c] # 0 /\ ring[conn[c]] # <<>> /\ m \in Range(ring[conn[c]])
  <2>1. conn[c] # 0 /\ ring[conn[c]] # <<>>
    BY DEF ClientRecv
  <2> QED BY <1>1, <2>1, TailProps
<1>3. RecvHello(c, m) \/ RecvFrame(c, m) \/ RecvAck(c, m) \/ RecvOther(c, m)
  BY DEF ClientRecv
<1>4. Said(m, c) /\ Follows(c) /\ Numbered
  BY <1>2 DEF FeedInv, Lined
<1>5. Upto(s, room.seq) /\ Apart(s) /\ Waiting(c, s) /\ \A f \in s.pending : f.seq > s.delivered + 1
  BY <1>4 DEF Follows, NoneComesBack
<1> HIDE DEF m
<1>6. CASE RecvHello(c, m)
  <2>1. m.pluginSeq \in pump[c].delivered..room.seq
    BY <1>4, <1>6 DEF RecvHello, Said
  <2>2. Served(c, {})
    BY <1>1, <1>4, <1>6, <2>1, ServedHello
  <2> QED BY <2>2
<1>7. CASE RecvFrame(c, m)
  <2> DEFINE f == m.frame
  <2>1. f \in Frame /\ f \in sent /\ f.sender # conn[c]
    BY <1>4, <1>7 DEF RecvFrame, Said, Message
  <2>2. f.seq \in Nat /\ f.seq <= room.seq
    BY <1>1, <1>4, <2>1 DEF Numbered, Frame
  <2>3. CASE ready[c] /\ f.kind = "text"
    <3>1. /\ pump'[c] = Broadcasted(s, f)
          /\ HandOver(c, HandedByBroadcast(s, f))
      BY <1>1, <1>7, <2>3 DEF RecvFrame
    <3> HIDE DEF f
    <3>2. Handable(HandedByBroadcast(s, f))
      BY <1>1, <2>1, BroadcastedDistinct
    <3>3. /\ Passes(s, Broadcasted(s, f), HandedByBroadcast(s, f), room.seq)
          /\ Broadcasted(s, f).pending \subseteq s.pending \cup {f}
      BY <1>1, <1>5, <2>1, <2>2, BroadcastedPasses
    <3>4. Waiting(c, pump'[c])
      BY <1>5, <2>1, <2>3, <3>1, <3>3 DEF Waiting
    <3> QED BY <3>1, <3>2, <3>3, <3>4 DEF Served
  <2>4. CASE ready[c] /\ f.kind # "text"
    <3>1. /\ pump'[c] = BinarySeen(s, f.seq)
          /\ HandOver(c, HandedByBinary(s, f.seq))
      BY <1>1, <1>7, <2>4 DEF RecvFrame
    <3> HIDE DEF f
    <3>2. Handable(HandedByBinary(s, f.seq))
      BY <1>1, <2>2, BinarySeenDistinct
    <3>3. f.seq \notin Seqs(s.pending)
      BY <1>4, <2>1, <2>4, NotWaiting
    <3>4. /\ Passes(s, BinarySeen(s, f.seq), HandedByBinary(s, f.seq), room.seq)
          /\ BinarySeen(s, f.seq).pending \subseteq s.pending
      BY <1>1, <1>5, <2>2, <3>3, BinarySeenPasses
    <3>5. Waiting(c, pump'[c])
      BY <1>5, <3>1, <3>4 DEF Waiting
    <3> QED BY <3>1, <3>2, <3>4, <3>5 DEF Served
  <2>5. CASE ~ready[c]
    <3>1. UNCHANGED <<pump, log>>
      BY <1>7, <2>5 DEF RecvFrame
    <3>2. Served(c, {})
      BY <1>4, <3>1, ServedNothing DEF Idles
    <3> QED BY <3>2
  <2> QED BY <2>3, <2>4, <2>5
<1>8. CASE RecvAck(c, m)
  <2> DEFINE n == m.seq
  <2>1. PICK f \in sent : f.seq = n /\ f.sender = conn[c]
    BY <1>4, <1>8 DEF RecvAck, Said
  <2>2. n \in Nat /\ n <= room.seq /\ n \notin Seqs(s.pending)
    <3>1. n \in Nat /\ n <= room.seq
      BY <1>1, <1>4, <2>1 DEF Numbered, Frame
    <3> QED BY <1>4, <2>1, <3>1, NotWaiting
  <2>3. CASE ready[c]
    <3>1. /\ pump'[c] = Acked(s, n)
          /\ HandOver(c, HandedByAck(s, n))
      BY <1>1, <1>8, <2>3 DEF RecvAck
    <3> HIDE DEF n
    <3>2. Handable(HandedByAck(s, n))
      BY <1>1, <2>2, AckedDistinct
    <3>3. /\ Passes(s, Acked(s, n), HandedByAck(s, n), room.seq)
          /\ Acked(s, n).pending \subseteq s.pending
      BY <1>1, <1>5, <2>2, AckedPasses
    <3>4. Waiting(c, pump'[c])
      BY <1>5, <3>1, <3>3 DEF Waiting
    <3> QED BY <3>1, <3>2, <3>3, <3>4 DEF Served
  <2>4. CASE ~ready[c]
    <3>1. UNCHANGED <<pump, log>>
      BY <1>8, <2>4 DEF RecvAck
    <3>2. Served(c, {})
      BY <1>4, <3>1, ServedNothing DEF Idles
    <3> QED BY <3>2
  <2> QED BY <2>3, <2>4
<1>9. CASE RecvOther(c, m)
  <2>1. Served(c, {})
    BY <1>4, <1>9, ServedNothing DEF RecvOther, Idles
  <2> QED BY <2>1
<1> QED BY <1>3, <1>6, <1>7, <1>8, <1>9

LEMMA ServedByTimer ==
  ASSUME Typed, FeedInv, NEW c \in Clients, GapTimer(c)
  PROVE  \E frames : Served(c, frames)
<1> DEFINE s == pump[c]
<1>1. /\ s \in Pumps /\ pump \in [Clients -> Pumps] /\ Distinct(s.pending) /\ room.seq \in Nat
  BY DEF Typed, PumpTypeOK, TalkInv, StashDistinct, CacheInv, RoomTypeOK
<1>2. Follows(c)
  BY DEF FeedInv
<1>3. CASE pump' = [pump EXCEPT ![c] = Disarmed(@)] /\ log' = log
  <2>1. Idles(c, s)
    BY <1>1, <1>3 DEF Idles, Disarmed, Pumps
  <2>2. Served(c, {})
    BY <1>2, <1>3, <2>1, ServedNothing
  <2> QED BY <2>2
<1>4. CASE pump' = [pump EXCEPT ![c] = ReplayAsked(@)] /\ log' = log
  <2>1. Idles(c, s)
    BY <1>1, <1>4 DEF Idles, ReplayAsked, Pumps
  <2>2. Served(c, {})
    BY <1>2, <1>4, <2>1, ServedNothing
  <2> QED BY <2>2
<1>5. CASE pump' = [pump EXCEPT ![c] = GaveUp(@)] /\ HandOver(c, s.pending)
  <2>1. pump'[c] = GaveUp(s) /\ GaveUp(s).pending = {}
    BY <1>1, <1>5, GaveUpProps
  <2>2. Handable(s.pending)
    BY <1>1, GaveUpPending
  <2>3. Passes(s, GaveUp(s), s.pending, room.seq)
    BY <1>1, <1>2, GaveUpPasses DEF Follows
  <2> QED BY <1>5, <2>1, <2>2, <2>3 DEF Served, Waiting
<1> QED BY <1>3, <1>4, <1>5 DEF GapTimer

(* The step maps to a hand-over of the feed, or to none.                   *)
LEMMA ServedIsFeed ==
  ASSUME Typed, NEW c \in Clients, Follows(c), NEW frames, Served(c, frames), room' = room
  PROVE  /\ Feed!HandOver(c) \/ UNCHANGED Feed!vars
         /\ \A f \in Range(log'[c]) : f.seq <= pump'[c].delivered
         /\ \A d \in Clients : d # c => log'[d] = log[d]
<1> DEFINE q == InSeqOrder(frames)
           l == log[c]
           d == pump[c].delivered
           e == pump'[c].delivered
<1>1. /\ log \in [Clients -> Seq(Frame)] /\ l \in Seq(Frame) /\ d \in Nat
      /\ room.seq \in Nat
  BY DEF Typed, PumpTypeOK, Pumps, TalkInv, TalkTypes, CacheInv, RoomTypeOK
<1>2. /\ e \in d..room.seq /\ \A f \in frames : f.seq \in d + 1 .. e
      /\ \A f \in Range(l) : f.seq <= d /\ f.seq \in Nat
  <2>1. \A f \in Range(l) : f \in Frame
    BY <1>1 DEF Range
  <2> QED BY <2>1 DEF Served, Passes, Follows, Frame
<1>3. q \in Seq(Frame) /\ Range(q) = frames /\ Ascending(q)
  BY InSeqOrderProps DEF Served, Handable
<1>4. CASE log' = log
  BY <1>1, <1>2, <1>4 DEF Feed!vars
<1>5. CASE HandOver(c, frames)
  <2>1. log' = [log EXCEPT ![c] = l \o q]
    BY <1>5 DEF HandOver
  <2> HIDE DEF q
  <2> DEFINE k == l \o q
  <2>2. /\ k \in Seq(Frame) /\ Len(k) = Len(l) + Len(q) /\ Len(l) \in Nat /\ Len(q) \in Nat
        /\ \A i \in 1..Len(k) : k[i] = IF i <= Len(l) THEN l[i] ELSE q[i - Len(l)]
        /\ Range(k) = Range(l) \cup frames
    BY <1>1, <1>3, ConcatProperties, LenProperties, RangeConcatenation
  <2> HIDE DEF k
  <2>3. log'[c] = k /\ \A x \in Clients : x # c => log'[x] = log[x]
    BY <1>1, <2>1 DEF k
  <2>4. \A f \in Range(k) : f.seq <= e
    BY <1>1, <1>2, <2>2
  <2>5. CASE q = <<>>
    <3>1. k = l
      BY <1>1, <2>5, ConcatEmptySeq DEF k
    <3>2. log' = log
      BY <1>1, <2>1, <3>1 DEF k
    <3> QED BY <2>3, <2>4, <3>2 DEF Feed!vars
  <2>6. CASE q # <<>>
    <3>0. PICK S, T : /\ S = [x \in Clients |-> [i \in 1..Len(log[x]) |-> log[x][i].seq]]
                       /\ T = [x \in Clients |-> [i \in 1..Len(log'[x]) |-> log'[x][i].seq]]
      OBVIOUS
    <3>1. /\ S[c] = [i \in 1..Len(l) |-> l[i].seq] /\ T[c] = [i \in 1..Len(k) |-> k[i].seq]
          /\ \A x \in Clients \ {c} : T[x] = S[x]
      BY <2>3, <3>0
    <3>2. Len(S[c]) = Len(l) /\ Len(T[c]) = Len(k) /\ Len(q) > 0
      BY <2>2, <2>6, <3>1
    <3>3. \A i \in 1..Len(l) : T[c][i] = S[c][i]
      BY <2>2, <3>1
    <3>4. ASSUME NEW i \in Len(l) + 1 .. Len(k)
          PROVE  /\ T[c][i] = q[i - Len(l)].seq /\ i - Len(l) \in 1..Len(q)
                 /\ T[c][i] \in 1..room.seq /\ T[c][i] > d /\ T[c][i] \in Nat
      <4>1. i \in 1..Len(k) /\ ~(i <= Len(l)) /\ i - Len(l) \in 1..Len(q)
        BY <2>2
      <4>2. T[c][i] = q[i - Len(l)].seq
        BY <2>2, <3>1, <4>1
      <4>3. q[i - Len(l)] \in frames
        BY <1>3, <4>1 DEF Range
      <4>4. q[i - Len(l)].seq \in d + 1 .. e
        BY <1>2, <4>3
      <4> DEFINE n == q[i - Len(l)].seq
      <4> HIDE DEF n
      <4>5. n \in 1..room.seq /\ n > d /\ n \in Nat
        <5>1. n \in d + 1 .. e /\ e \in d..room.seq /\ d \in Nat /\ room.seq \in Nat
          BY <1>1, <1>2, <4>4 DEF n
        <5> HIDE DEF d, e
        <5> QED BY <5>1
      <4> QED BY <4>1, <4>2, <4>5 DEF n
    <3>5. SubSeq(T[c], 1, Len(S[c])) = S[c]
      <4>1. \A i \in 1..Len(l) : T[c][i] = S[c][i] /\ T[c][i] \in Nat
        <5> TAKE i \in 1..Len(l)
        <5>1. S[c][i] = l[i].seq /\ l[i] \in Frame
          BY <1>1, <3>1
        <5> QED BY <3>3, <5>1 DEF Frame
      <4>2. DOMAIN S[c] = 1..Len(l) /\ S[c] = [i \in 1..Len(l) |-> S[c][i]]
        BY <3>1
      <4>3. SubSeq(T[c], 1, Len(l)) = [i \in 1..Len(l) |-> T[c][i]]
        BY <2>2
      <4> QED BY <3>2, <4>1, <4>2, <4>3
    <3>6. l # <<>> => S[c][Len(S[c])] <= d
      <4> SUFFICES ASSUME l # <<>> PROVE S[c][Len(S[c])] <= d
        OBVIOUS
      <4>1. Len(l) \in 1..Len(l)
        BY <1>1
      <4>2. S[c][Len(S[c])] = l[Len(l)].seq /\ l[Len(l)] \in Range(l)
        BY <1>1, <3>1, <3>2, <4>1 DEF Range
      <4> QED BY <1>2, <4>2
    <3>7. S[c] = <<>> <=> l = <<>>
      BY <1>1, <3>1, <3>2
    <3>8. S[c] # <<>> => S[c][Len(S[c])] \in Int /\ S[c][Len(S[c])] <= d
      <4> SUFFICES ASSUME l # <<>> PROVE S[c][Len(S[c])] \in Int
        BY <3>6, <3>7
      <4>1. Len(l) \in 1..Len(l)
        BY <1>1
      <4>2. S[c][Len(S[c])] = l[Len(l)].seq /\ l[Len(l)] \in Frame
        BY <1>1, <3>1, <3>2, <4>1
      <4> QED BY <4>2 DEF Frame
    <3>9. \A i \in Len(l) + 1 .. Len(k) :
             T[c][i] > IF i = Len(l) + 1 THEN (IF S[c] = <<>> THEN 0 ELSE S[c][Len(S[c])])
                       ELSE T[c][i - 1]
      <4> TAKE i \in Len(l) + 1 .. Len(k)
      <4>1. CASE i = Len(l) + 1
        <5>1. T[c][i] > d /\ T[c][i] \in Nat
          BY <3>4
        <5>2. T[c][i] > 0 /\ (S[c] # <<>> => T[c][i] > S[c][Len(S[c])])
          BY <1>1, <3>8, <5>1
        <5> QED BY <4>1, <5>2
      <4>2. CASE i # Len(l) + 1
        <5> DEFINE h == i - 1
        <5>1. h \in Len(l) + 1 .. Len(k) /\ h - Len(l) < i - Len(l)
          <6>1. Len(l) \in Int /\ Len(k) \in Int /\ i \in Int
            BY <2>2
          <6>2. i >= Len(l) + 1 /\ i <= Len(k)
            BY <6>1
          <6> HIDE DEF l
          <6> QED BY <4>2, <6>1, <6>2
        <5> HIDE DEF h
        <5>2. T[c][i] = q[i - Len(l)].seq /\ i - Len(l) \in 1..Len(q) /\ T[c][i] \in Nat
          BY <3>4
        <5>3. T[c][h] = q[h - Len(l)].seq /\ h - Len(l) \in 1..Len(q) /\ T[c][h] \in Nat
          BY <3>4, <5>1
        <5>4. q[h - Len(l)].seq < q[i - Len(l)].seq
          <6>1. DOMAIN q = 1..Len(q)
            BY <1>3
          <6> QED BY <1>3, <5>1, <5>2, <5>3, <6>1 DEF Ascending
        <5>5. T[c][i] > T[c][h]
          BY <5>2, <5>3, <5>4
        <5> QED BY <4>2, <5>5 DEF h
      <4> QED BY <4>1, <4>2
    <3>10. Feed!HandOver(c)
      <4>1. Len(T[c]) > Len(S[c]) /\ T[c] # S[c]
        BY <2>2, <3>2
      <4>2. \A i \in Len(S[c]) + 1 .. Len(T[c]) :
              /\ T[c][i] \in 1..room.seq
              /\ T[c][i] > IF i = Len(S[c]) + 1 THEN (IF S[c] = <<>> THEN 0 ELSE S[c][Len(S[c])])
                           ELSE T[c][i - 1]
        BY <3>2, <3>4, <3>9
      <4> QED BY <3>1, <3>5, <3>0, <4>1, <4>2 DEF Feed!HandOver, Feed!LastSeen
    <3> QED BY <2>3, <2>4, <3>10
  <2> QED BY <2>5, <2>6
<1> QED BY <1>4, <1>5 DEF Served

(* A room that stays only ever counts up.                                  *)
LEMMA RoomGrows ==
  ASSUME ~RoomMayEmpty, Typed, [Next]_vars
  PROVE  /\ room'.seq \in Nat /\ room.seq <= room'.seq
         /\ \/ UNCHANGED <<room, sent>>
            \/ \E p \in peers : ServerRecv(p) /\ HandlePublication(p)
            \/ sent' = sent /\ room'.seq = room.seq
<1>1. /\ room.seq \in Nat /\ room \in [epoch : Nat, seq : Nat, cache : Seq(Frame)]
  BY DEF Typed, CacheInv, RoomTypeOK
<1>2. CASE \E p \in PeerIds : ServerRecv(p)
  <2>1. PICK p \in peers : ServerRecv(p) /\ (HandlePublication(p) \/ HandleReplay(p))
    BY <1>2 DEF ServerRecv
  <2>2. CASE HandlePublication(p)
    <3>1. room'.seq = room.seq + 1
      BY <1>1, <2>2 DEF HandlePublication
    <3> QED BY <1>1, <2>1, <2>2, <3>1
  <2>3. CASE HandleReplay(p)
    BY <1>1, <2>3 DEF HandleReplay
  <2> QED BY <2>1, <2>2, <2>3
<1>3. CASE ~ \E p \in PeerIds : ServerRecv(p)
  <2>1. UNCHANGED <<room, sent>>
    BY <1>3 DEF Next, vars, serverVars, Join, Leave, QueueOther, Publish, Drop, ClientRecv, GapTimer
  <2> QED BY <1>1, <2>1
<1> QED BY <1>2, <1>3

(* What the room makes of a publication. *)
LEMMA PublicationFrame ==
  ASSUME Typed, NEW p \in peers, HandlePublication(p)
  PROVE  \E f \in Frame : /\ f.seq = room.seq + 1 /\ f.sender = p
                          /\ sent' = sent \cup {f} /\ room'.seq = f.seq
                          /\ ring' = [q \in PeerIds |->
                               IF q \notin peers \/ ~Heard(q) THEN ring[q]
                               ELSE IF q = p THEN Enqueue(ring[q], [type |-> "plugin-msg-ack", seq |-> f.seq])
                               ELSE Enqueue(ring[q], [type |-> "plugin-msg", frame |-> f])]
<1>1. /\ room.seq \in Nat /\ room.epoch \in Nat /\ room \in [epoch : Nat, seq : Nat, cache : Seq(Frame)]
      /\ p \in Nat /\ Head(up[p]).kind \in {"text", "bin"}
  BY DEF Typed, CacheInv, RoomTypeOK, PeerIds, HandlePublication, Publication
<1>2. PICK f : f = [epoch |-> room.epoch, seq |-> room.seq + 1, sender |-> p, kind |-> Head(up[p]).kind]
  OBVIOUS
<1>3. f \in Frame /\ f.seq = room.seq + 1 /\ f.sender = p
  BY <1>1, <1>2 DEF Frame
<1>4. /\ sent' = sent \cup {f}
      /\ ring' = [q \in PeerIds |->
           IF q \notin peers \/ ~Heard(q) THEN ring[q]
           ELSE IF q = p THEN Enqueue(ring[q], [type |-> "plugin-msg-ack", seq |-> f.seq])
           ELSE Enqueue(ring[q], [type |-> "plugin-msg", frame |-> f])]
      /\ \E cache : room' = [room EXCEPT !.seq = @ + 1, !.cache = cache]
  BY <1>2 DEF HandlePublication
<1>5. room'.seq = f.seq
  BY <1>1, <1>3, <1>4
<1> QED BY <1>3, <1>4, <1>5

LEMMA NumberedKept ==
  ASSUME ~RoomMayEmpty, Typed, Numbered, [Next]_vars
  PROVE  Numbered'
<1>1. room.seq \in Nat
  BY DEF Typed, CacheInv, RoomTypeOK
<1>2. ASSUME NEW p \in peers, HandlePublication(p) PROVE Numbered'
  <2>1. PICK f \in Frame : f.seq = room.seq + 1 /\ sent' = sent \cup {f} /\ room'.seq = f.seq
    BY <1>2, PublicationFrame
  <2>2. \A g \in sent : g.seq \in 1..room.seq
    BY DEF Numbered
  <2>3. \A g \in sent : g.seq # f.seq
    BY <1>1, <2>1, <2>2
  <2>4. Distinct(sent')
    BY <2>1, <2>3 DEF Distinct, Numbered
  <2>5. \A g \in sent' : g.seq \in 1..room'.seq
    BY <1>1, <2>1, <2>2
  <2> QED BY <2>4, <2>5 DEF Numbered
<1>3. CASE sent' = sent /\ room'.seq = room.seq
  BY <1>3 DEF Numbered, Distinct
<1> QED BY <1>2, <1>3, RoomGrows

(* What was said to c stays so while its cursor and its connection do.     *)
LEMMA SaidStays ==
  ASSUME ~RoomMayEmpty, Typed, Registry, [Next]_vars, NEW c \in Clients, conn'[c] = conn[c],
         NEW m, Said(m, c),
         \/ m \notin Hello
         \/ ready'[c] = ready[c] /\ pump'[c].delivered = pump[c].delivered
  PROVE  Said(m, c)'
<1>1. /\ sent \subseteq sent' /\ room.seq \in Nat /\ room'.seq \in Nat /\ room.seq <= room'.seq
      /\ pump[c].delivered \in Nat
  BY SentStays, RoomGrows DEF Typed, CacheInv, RoomTypeOK, PumpTypeOK, Pumps
<1>2. m \in Hello => ~ready'[c] /\ m.pluginSeq \in pump'[c].delivered..room'.seq
  BY <1>1 DEF Said, Hello
<1> QED BY <1>1, <1>2 DEF Said

LEMMA LinedKept ==
  ASSUME ~RoomMayEmpty, Typed, Registry, FeedInv, [Next]_vars, NEW c \in Clients
  PROVE  Lined(c)'
<1>1. /\ nextPeer \in Nat /\ nextPeer >= 1 /\ peers \subseteq PeerIds /\ MaxConns \in Nat
      /\ conn \in [Clients -> PeerIds \cup {0}] /\ ring \in [PeerIds -> Seq(Messages)]
      /\ ready \in [Clients -> BOOLEAN] /\ pump \in [Clients -> Pumps]
      /\ room.seq \in Nat /\ pump[c].delivered \in Nat
      /\ \A d \in Clients : conn[d] # 0 => conn[d] < nextPeer /\ owner[conn[d]] = d
  BY BoundsAssumption
     DEF Typed, CacheInv, RoomTypeOK, LinkTypes, PumpTypeOK, Pumps, Registry
<1> DEFINE q == ring[conn[c]]
<1>2. ASSUME conn[c] # 0
      PROVE  /\ q \in Seq(Messages) /\ conn[c] \in PeerIds /\ HelloFirst(q)
             /\ \A m \in Range(q) : Said(m, c)
  BY <1>1, <1>2 DEF FeedInv, Lined
<1>3. Follows(c)
  BY DEF FeedInv
<1>4. ASSUME conn'[c] = conn[c], ready'[c] = ready[c], pump'[c].delivered = pump[c].delivered,
             ring'[conn[c]] = q
      PROVE  Lined(c)'
  BY <1>2, <1>4, SaidStays DEF Lined
<1>5. ASSUME NEW r \in Seq(Messages), NEW S, conn'[c] = conn[c], conn[c] # 0, ready'[c] = ready[c],
             pump'[c].delivered = pump[c].delivered, ring'[conn[c]] = r,
             Advances(q, r, S), Range(r) \subseteq Range(q) \cup S,
             S \cap Hello = {}, \A m \in S : Said(m, c)'
      PROVE  Lined(c)'
  <2>1. HelloFirst(r)
    BY <1>2, <1>5, HelloStaysFirst
  <2>2. \A m \in Range(r) : Said(m, c)'
    BY <1>2, <1>5, SaidStays
  <2> QED BY <1>5, <2>1, <2>2 DEF Lined
<1> HIDE DEF q
<1>6. ASSUME NEW d \in Clients, Join(d) PROVE Lined(c)'
  <2>1. /\ nextPeer \in PeerIds /\ conn' = [conn EXCEPT ![d] = nextPeer]
        /\ ready' = [ready EXCEPT ![d] = FALSE] /\ UNCHANGED <<room, pump>>
        /\ ring' = [ring EXCEPT ![nextPeer] =
             <<[type |-> "hello-ack", pluginSeq |-> room.seq, epoch |-> room.epoch]>>]
    BY <1>1, <1>6 DEF Join, PeerIds
  <2>2. CASE c = d
    <3>1. PICK h : h = [type |-> "hello-ack", pluginSeq |-> room.seq, epoch |-> room.epoch]
      OBVIOUS
    <3>2. conn'[c] = nextPeer /\ ring'[conn'[c]] = <<h>> /\ ~ready'[c]
      BY <1>1, <2>1, <2>2, <3>1
    <3>3. h.pluginSeq = room.seq /\ h \notin Message \cup Ack
      BY <3>1 DEF Message, Ack
    <3>4. Said(h, c)'
      BY <1>1, <1>3, <2>1, <3>2, <3>3 DEF Said, Follows, Upto
    <3>5. HelloFirst(<<h>>) /\ \A m \in Range(<<h>>) : m = h
      BY DEF HelloFirst, Range
    <3> QED BY <3>2, <3>4, <3>5 DEF Lined
  <2>3. CASE c # d /\ conn[c] # 0
    <3>1. conn'[c] = conn[c] /\ conn[c] # nextPeer /\ ready'[c] = ready[c]
      BY <1>1, <2>1, <2>3
    <3>2. ring'[conn[c]] = ring[conn[c]]
      BY <1>1, <1>2, <2>1, <2>3, <3>1
    <3> QED BY <1>4, <2>1, <3>1, <3>2 DEF q
  <2>4. CASE c # d /\ conn[c] = 0
    BY <1>1, <2>1, <2>4 DEF Lined
  <2> QED BY <2>2, <2>3, <2>4
<1>7. ASSUME NEW p \in peers, ServerRecv(p), conn[c] # 0 PROVE Lined(c)'
  <2>1. UNCHANGED <<conn, ready, pump>>
    BY <1>7 DEF ServerRecv, clientVars
  <2>2. CASE HandlePublication(p)
    <3>1. PICK f \in Frame : /\ f.seq = room.seq + 1 /\ f.sender = p /\ sent' = sent \cup {f}
                             /\ ring' = [x \in PeerIds |->
                                  IF x \notin peers \/ ~Heard(x) THEN ring[x]
                                  ELSE IF x = p THEN Enqueue(ring[x], [type |-> "plugin-msg-ack", seq |-> f.seq])
                                  ELSE Enqueue(ring[x], [type |-> "plugin-msg", frame |-> f])]
      BY <1>7, <2>2, PublicationFrame
    <3>2. PICK a, b : a = [type |-> "plugin-msg-ack", seq |-> f.seq] /\ b = [type |-> "plugin-msg", frame |-> f]
      OBVIOUS
    <3>3. /\ a \in Messages /\ b \in Messages /\ a \notin Hello \cup Message /\ b \notin Hello \cup Ack
          /\ a.seq = f.seq /\ b.frame = f
      BY <3>2 DEF Messages, Hello, Ack, Message, Frame
    <3>4. CASE ring'[conn[c]] = q
      BY <1>4, <2>1, <3>4
    <3>5. CASE conn[c] = p /\ ring'[conn[c]] = Enqueue(q, a)
      <4>1. Said(a, c)'
        BY <2>1, <3>1, <3>3, <3>5 DEF Said
      <4>2. /\ Enqueue(q, a) \in Seq(Messages) /\ Advances(q, Enqueue(q, a), {a})
            /\ Range(Enqueue(q, a)) \subseteq Range(q) \cup {a}
        BY <1>2, <1>7, <3>3, EnqueueProps, EnqueueAdvances
      <4> QED BY <1>5, <1>7, <2>1, <3>3, <3>5, <4>1, <4>2
    <3>6. CASE conn[c] # p /\ ring'[conn[c]] = Enqueue(q, b)
      <4>1. Said(b, c)'
        BY <2>1, <3>1, <3>3, <3>6 DEF Said
      <4>2. /\ Enqueue(q, b) \in Seq(Messages) /\ Advances(q, Enqueue(q, b), {b})
            /\ Range(Enqueue(q, b)) \subseteq Range(q) \cup {b}
        BY <1>2, <1>7, <3>3, EnqueueProps, EnqueueAdvances
      <4> QED BY <1>5, <1>7, <2>1, <3>3, <3>6, <4>1, <4>2
    <3> QED BY <1>2, <1>7, <3>1, <3>2, <3>4, <3>5, <3>6 DEF q
  <2>3. CASE HandleReplay(p)
    <3> DEFINE ms == Replayed(room.cache, Head(up[p]).after, p)
    <3>1. /\ UNCHANGED <<room, sent>> /\ ring'[conn[c]] \in {q, EnqueueAll(q, ms)}
          /\ conn[c] # p => ring'[conn[c]] = q
      BY <1>1, <1>2, <1>7, <2>3 DEF HandleReplay, q
    <3>2. ms \in Seq(Messages) /\ \A m \in Range(ms) : /\ m \in Message /\ m.frame \in Range(room.cache)
                                                       /\ m.frame.sender # p
      BY ReplayedProps DEF Typed
    <3> HIDE DEF ms
    <3>3. CASE ring'[conn[c]] = q
      BY <1>4, <2>1, <3>3
    <3>4. CASE conn[c] = p /\ ring'[conn[c]] = EnqueueAll(q, ms)
      <4>1. \A m \in Message : m \notin Hello \cup Ack
        BY DEF Message, Hello, Ack
      <4>2. \A m \in Range(ms) : Said(m, c)'
        BY <2>1, <3>1, <3>2, <3>4, <4>1 DEF Said, Registry
      <4>3. Range(ms) \cap Hello = {}
        BY <3>2, <4>1
      <4>4. /\ EnqueueAll(q, ms) \in Seq(Messages) /\ Advances(q, EnqueueAll(q, ms), Range(ms))
            /\ Range(EnqueueAll(q, ms)) \subseteq Range(q) \cup Range(ms)
        BY <1>2, <1>7, <3>2, EnqueueAllProps, EnqueueAllAdvances
      <4> QED BY <1>5, <1>7, <2>1, <3>4, <4>2, <4>3, <4>4
    <3> QED BY <3>1, <3>3, <3>4
  <2> QED BY <1>7, <2>2, <2>3 DEF ServerRecv
<1>8. ASSUME NEW p \in PeerIds, QueueOther(p), conn[c] # 0 PROVE Lined(c)'
  <2> DEFINE o == [type |-> "other"]
  <2>1. UNCHANGED <<conn, ready, pump>> /\ ring' = [ring EXCEPT ![p] = Enqueue(@, o)]
    BY <1>8 DEF QueueOther, clientVars
  <2>2. o \in Messages /\ o \notin Hello \cup Ack \cup Message
    BY DEF Messages, Other, Hello, Ack, Message
  <2> HIDE DEF o
  <2>3. CASE conn[c] # p
    BY <1>1, <1>2, <1>4, <1>8, <2>1, <2>3 DEF q
  <2>4. CASE conn[c] = p
    <3>1. ring'[conn[c]] = Enqueue(q, o)
      BY <1>1, <2>1, <2>4 DEF q
    <3>2. Said(o, c)'
      BY <2>2 DEF Said
    <3>3. /\ Enqueue(q, o) \in Seq(Messages) /\ Advances(q, Enqueue(q, o), {o})
          /\ Range(Enqueue(q, o)) \subseteq Range(q) \cup {o}
      BY <1>2, <1>8, <2>2, EnqueueProps, EnqueueAdvances
    <3> QED BY <1>5, <1>8, <2>1, <2>2, <3>1, <3>2, <3>3
  <2> QED BY <2>3, <2>4
<1>9. ASSUME NEW d \in Clients, Drop(d) PROVE Lined(c)'
  <2>1. /\ UNCHANGED pump /\ conn' = [conn EXCEPT ![d] = 0] /\ conn[d] # 0
        /\ ring' = [ring EXCEPT ![conn[d]] = <<>>] /\ ready' = [ready EXCEPT ![d] = FALSE]
    BY <1>9 DEF Drop
  <2>2. CASE d = c
    BY <1>1, <2>1, <2>2 DEF Lined
  <2>3. CASE d # c /\ conn[c] # 0
    <3>1. conn'[c] = conn[c] /\ ready'[c] = ready[c] /\ ring'[conn[c]] = q
      BY <1>1, <2>1, <2>3 DEF q
    <3> QED BY <1>4, <2>1, <3>1
  <2>4. CASE d # c /\ conn[c] = 0
    BY <1>1, <2>1, <2>4 DEF Lined
  <2> QED BY <2>2, <2>3, <2>4
<1>10. ASSUME ClientRecv(c) PROVE Lined(c)'
  <2>1. /\ conn' = conn /\ conn[c] # 0 /\ q # <<>> /\ ring'[conn[c]] = Tail(q)
    BY <1>1, <1>10 DEF ClientRecv, q
  <2>2. /\ Tail(q) \in Seq(Messages) /\ Range(Tail(q)) \subseteq Range(q)
        /\ \A i \in 1..Len(Tail(q)) : i + 1 \in 2..Len(q) /\ Tail(q)[i] = q[i + 1]
    BY <1>2, <2>1, TailProps, TailAdvances
  <2>3. \A i \in 1..Len(Tail(q)) : Tail(q)[i] \notin Hello
    BY <1>2, <2>1, <2>2 DEF HelloFirst
  <2>4. \A m \in Range(Tail(q)) : m \notin Hello
    BY <2>2, <2>3 DEF Range
  <2>5. HelloFirst(Tail(q))
    BY <2>2, <2>3 DEF HelloFirst
  <2>6. \A m \in Range(Tail(q)) : Said(m, c)'
    BY <1>2, <2>1, <2>2, <2>4, SaidStays
  <2> QED BY <2>1, <2>5, <2>6 DEF Lined
<1>11. ASSUME NEW d \in Clients, d # c, ClientRecv(d) \/ GapTimer(d), conn[c] # 0 PROVE Lined(c)'
  <2>1. pump'[c] = pump[c] /\ ready'[c] = ready[c] /\ conn' = conn
    BY <1>11, OwnPump DEF ClientRecv, GapTimer
  <2>2. ring'[conn[c]] = q
    <3>1. CASE ClientRecv(d)
      <4>1. conn[d] # 0 /\ conn[d] # conn[c] /\ ring' = [ring EXCEPT ![conn[d]] = Tail(@)]
        BY <1>1, <1>11, <3>1 DEF ClientRecv
      <4> QED BY <1>1, <1>2, <1>11, <4>1 DEF q
    <3>2. CASE GapTimer(d)
      BY <3>2 DEF GapTimer, q
    <3> QED BY <1>11, <3>1, <3>2
  <2> QED BY <1>4, <2>1, <2>2
<1>12. ASSUME GapTimer(c) PROVE Lined(c)'
  <2>1. UNCHANGED <<conn, ring, ready>> /\ conn[c] # 0
    BY <1>12 DEF GapTimer
  <2>2. CASE ready[c]
    <3>1. \A m \in Range(q) : m \notin Hello
      BY <1>2, <2>1, <2>2 DEF Said
    <3>2. \A m \in Range(q) : Said(m, c)'
      BY <1>2, <2>1, <3>1, SaidStays
    <3> QED BY <1>2, <2>1, <3>2 DEF Lined, q
  <2>3. CASE ~ready[c]
    <3>1. pump'[c] = Disarmed(pump[c])
      BY <1>1, <1>12, <2>3 DEF GapTimer
    <3>2. pump'[c].delivered = pump[c].delivered
      BY <1>1, <3>1 DEF Disarmed, Pumps
    <3> QED BY <1>4, <2>1, <3>2 DEF q
  <2> QED BY <2>2, <2>3
<1>13. CASE \/ \E p \in PeerIds : Leave(p)
            \/ \E d \in Clients, kind \in Kinds : Publish(d, kind)
            \/ UNCHANGED vars
  <2>1. UNCHANGED <<conn, ready, pump, ring>>
    BY <1>13 DEF Leave, Publish, clientVars, vars
  <2> QED BY <1>4, <2>1 DEF q
<1>14. CASE conn[c] = 0 /\ ~ \E d \in Clients : Join(d)
  <2>1. conn'[c] = 0
    BY <1>1, <1>14 DEF Next, vars, clientVars, Leave, ServerRecv, QueueOther, Publish, Drop, ClientRecv, GapTimer
  <2> QED BY <2>1 DEF Lined
<1>15. \A p \in PeerIds : ServerRecv(p) => p \in peers
  BY DEF ServerRecv
<1> QED BY <1>6, <1>7, <1>8, <1>9, <1>10, <1>11, <1>12, <1>13, <1>14, <1>15 DEF Next

(* A member whose pump does not move: the room goes on, and a connection   *)
(* it opens is one that has sent nothing.                                  *)
LEMMA FollowsIdle ==
  ASSUME ~RoomMayEmpty, Typed, Registry, FeedInv, [Next]_vars, NEW c \in Clients,
         pump'[c] = pump[c], log'[c] = log[c]
  PROVE  Follows(c)'
<1>1. /\ room.seq \in Nat /\ room'.seq \in Nat /\ room.seq <= room'.seq /\ sent \subseteq sent'
      /\ pump[c] \in Pumps
  BY RoomGrows, SentStays DEF Typed, CacheInv, RoomTypeOK, PumpTypeOK
<1>2. /\ pump[c].delivered \in Nat /\ \A n \in pump[c].void : n \in Nat
      /\ \A f \in pump[c].pending : f.seq \in Nat
  BY <1>1 DEF Pumps, Frame
<1>3. Follows(c)
  BY DEF FeedInv
<1>4. conn'[c] \in {conn[c], 0, nextPeer}
  <2>1. conn \in [Clients -> PeerIds \cup {0}]
    BY DEF Typed, LinkTypes
  <2>2. CASE \E d \in Clients : Join(d) \/ Drop(d)
    BY <2>1, <2>2 DEF Join, Drop
  <2>3. CASE ~ \E d \in Clients : Join(d) \/ Drop(d)
    BY <2>3 DEF Next, vars, clientVars, Leave, ServerRecv, QueueOther, Publish, ClientRecv, GapTimer
  <2> QED BY <2>2, <2>3
<1>5. \A f \in sent : f.sender # nextPeer /\ f.sender # 0
  <2>1. nextPeer \in Nat
    BY BoundsAssumption DEF Typed, CacheInv, RoomTypeOK
  <2> QED BY <2>1 DEF Registry, PeerIds
<1>6. Upto(pump[c], room'.seq)
  BY <1>1, <1>2, <1>3 DEF Follows, Upto
<1>7. \A f \in pump[c].pending : f \in sent' /\ f.kind = "text" /\ f.sender # conn'[c]
  BY <1>1, <1>3, <1>4, <1>5 DEF Follows, Waiting
<1> QED BY <1>3, <1>6, <1>7 DEF Follows, Waiting

(* The step of a member, as the feed sees it.                              *)
LEMMA MemberStep ==
  ASSUME Typed, CursorInv, FeedInv, NoneComesBack, NEW c \in Clients, ClientRecv(c) \/ GapTimer(c)
  PROVE  /\ Follows(c)'
         /\ Feed!HandOver(c) \/ UNCHANGED Feed!vars
<1>1. UNCHANGED <<room, sent, conn>>
  BY DEF ClientRecv, GapTimer, serverVars
<1>2. Registry /\ Tracked(c) /\ Follows(c)
  BY DEF CursorInv, FeedInv
<1>3. PICK frames : Served(c, frames)
  BY <1>2, ServedByRecv, ServedByTimer
<1>4. /\ Feed!HandOver(c) \/ UNCHANGED Feed!vars
      /\ \A f \in Range(log'[c]) : f.seq <= pump'[c].delivered
  BY <1>1, <1>2, <1>3, ServedIsFeed
<1>5. pump[c].delivered \in Nat /\ room.seq \in Nat
  BY DEF Typed, PumpTypeOK, Pumps, CacheInv, RoomTypeOK
<1>6. Upto(pump'[c], room'.seq)
  <2>1. \A f \in pump'[c].pending : f \in sent /\ f.seq <= room.seq
    BY <1>3, <1>5 DEF Served, Waiting, FeedInv, Numbered
  <2> QED BY <1>1, <1>3, <1>5, <2>1 DEF Served, Passes, Upto
<1>7. \A f \in pump'[c].pending : f.seq > pump'[c].delivered + 1
  BY <1>3 DEF Served, Passes
<1>8. \A f \in pump'[c].pending : f \in sent' /\ f.kind = "text" /\ f.sender # conn'[c]
  BY <1>1, <1>3 DEF Served, Waiting
<1> QED BY <1>4, <1>6, <1>7, <1>8 DEF Follows, Waiting

LEMMA FeedKept ==
  ASSUME ~RoomMayEmpty, Typed, CursorInv, FeedInv, NoneComesBack, [Next]_vars
  PROVE  FeedInv' /\ [Feed!Next]_(Feed!vars)
<1>1. Registry /\ Numbered
  BY DEF CursorInv, FeedInv
<1>2. Numbered' /\ \A c \in Clients : Lined(c)'
  BY <1>1, NumberedKept, LinedKept
<1>3. ASSUME NEW c \in Clients, ClientRecv(c) \/ GapTimer(c)
      PROVE  (\A d \in Clients : Follows(d)') /\ [Feed!Next]_(Feed!vars)
  <2>1. Follows(c)' /\ (Feed!HandOver(c) \/ UNCHANGED Feed!vars)
    BY <1>3, MemberStep
  <2>2. ASSUME NEW d \in Clients, d # c PROVE Follows(d)'
    <3>1. pump'[d] = pump[d] /\ log'[d] = log[d]
      BY <1>3, <2>2, OwnPump
    <3> QED BY <1>1, <3>1, FollowsIdle
  <2> QED BY <2>1, <2>2 DEF Feed!Next
<1>4. CASE ~ \E c \in Clients : ClientRecv(c) \/ GapTimer(c)
  <2>1. UNCHANGED <<pump, log>>
    BY <1>4 DEF Next, vars, clientVars, Join, Leave, ServerRecv, QueueOther, Publish, Drop
  <2>2. \A c \in Clients : Follows(c)'
    BY <1>1, <2>1, FollowsIdle
  <2>3. [Feed!Next]_(Feed!vars)
    <3>1. CASE room'.seq = room.seq
      BY <2>1, <3>1 DEF Feed!vars
    <3>2. ASSUME NEW p \in peers, HandlePublication(p) PROVE [Feed!Next]_(Feed!vars)
      <4>1. room'.seq = room.seq + 1
        <5>1. \E f \in Frame : f.seq = room.seq + 1 /\ room'.seq = f.seq
          BY <3>2, PublicationFrame, Zenon
        <5> QED BY <5>1
      <4> QED BY <2>1, <4>1 DEF Feed!Next, Feed!Publish
    <3> QED BY <3>1, <3>2, RoomGrows
  <2> QED BY <1>2, <2>2, <2>3 DEF FeedInv
<1> QED BY <1>2, <1>3, <1>4 DEF FeedInv

(* Each shell sees an ascending part of what a room that stays has         *)
(* numbered -- nothing twice, nothing out of order -- whatever the rings   *)
(* drop, however often members rejoin and whatever a cache has evicted, as *)
(* long as no frame of a member's own comes back to it while it is void.   *)
THEOREM RelayImplementsFeed ==
  ASSUME ~RoomMayEmpty
  PROVE  Spec /\ []NoneComesBack => ImplementsFeed
<1>1. Init => FeedInv /\ Feed!Init
  BY DEF Init, FeedInv, Numbered, Distinct, Lined, Follows, Upto, Waiting, PumpInit, Range, Feed!Init
<1>2. Typed /\ CursorInv /\ FeedInv /\ NoneComesBack /\ [Next]_vars => FeedInv' /\ [Feed!Next]_(Feed!vars)
  BY FeedKept
<1>3. LinkTypes /\ PumpTypeOK /\ CacheInv /\ TalkInv => Typed
  BY DEF Typed
<1> QED BY <1>1, <1>2, <1>3, LinksTyped, PumpsTyped, CacheStaysTail, TalkTyped, CursorsTracked, PTL
        DEF Spec, ImplementsFeed, Feed!Spec

===============================================================================
