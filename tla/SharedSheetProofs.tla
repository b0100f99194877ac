--------------------------- MODULE SharedSheetProofs ---------------------------
(***************************************************************************)
(* Proofs about SharedSheet: the types, what a session with and without    *)
(* unsaved changes is worth, that messages stay, and that sessions and the *)
(* file agree, for any members, cards, budgets and depths of the undo      *)
(* stack.                                                                  *)
(***************************************************************************)
EXTENDS SharedSheet, SequenceTheorems, FiniteSetTheorems, TLAPS

Contents == [look : Nat, msgs : SUBSET Nat]
Sheets == UNION {[D -> Contents] : D \in SUBSET Cards}
Patches == [put : Sheets, cut : SUBSET Cards]
Snapshots == [data : Sheets, own : SUBSET Cards]

(* running: of cards that can be.  Undone changes were done before: the two stacks share *)
(* one bound.                                                                             *)
SessionsOf(running) ==
  {s \in [data : Sheets, saved : Sheets, dirty : BOOLEAN, armed : BOOLEAN,
          undo : Seq(Snapshots), redo : Seq(Snapshots), running : SUBSET running,
          own : SUBSET Cards, adrift : SUBSET Cards, said : SUBSET Nat,
          prior : SUBSET Nat] :
     Len(s.undo) + Len(s.redo) <= UndoDepth}

Saves ==
  [by : Members, patch : Patches, frozen : Sheets, flush : BOOLEAN, landed : BOOLEAN,
   settled : BOOLEAN, cards : SUBSET Cards, knew : SUBSET Nat]

Frames == [by : Members, patch : Patches, save : Nat]

(* The cards in which two sheets differ. *)
Differ(f, g) == {c \in Cards : ~Same(f, g, c)}

(* From one snapshot to the next, and from the last to the data, only cards change that *)
(* the snapshot has marked.                                                              *)
Chain(stack, data) ==
  \A k \in DOMAIN stack :
    Differ(stack[k].data, IF k = Len(stack) THEN data ELSE stack[k + 1].data) \subseteq stack[k].own

Sound(s) ==
  /\ ~s.dirty => s.data = s.saved /\ s.own = {}
  /\ kind = "canvas" => Differ(s.saved, s.data) \subseteq s.own
  /\ Chain(s.undo, s.data)
  /\ Chain(s.redo, s.data)

SheetShape ==
  /\ kind \in {"canvas", "table"}
  /\ DOMAIN locks \subseteq Cards
  /\ disk \in Sheets
  /\ stage \in [Members -> {"closed", "loading", "fetched", "open"}]
  /\ session \in [Members -> SessionsOf(DOMAIN locks)]
  /\ saves \in Seq(Saves)
  /\ linked \subseteq Members
  /\ inbox \in [Members -> Seq(Frames)]
  /\ tally \in [{"edits", "said", "left", "faults"} -> Nat]
  /\ known \in [Members -> SUBSET (DOMAIN saves)]
  /\ \A m \in Members : \A k \in DOMAIN inbox[m] : inbox[m][k].save \in DOMAIN saves
  /\ missed \in [Members -> SUBSET Cards]
  /\ contested \subseteq Cards
  /\ written \subseteq Nat

SheetInv ==
  /\ SheetShape
  /\ \A m \in Members : Sound(session[m])

-------------------------------------------------------------------------------
(* Sheets, patches and stacks. *)

LEMMA SheetOf ==
  ASSUME NEW D \in SUBSET Cards, NEW f \in [D -> Contents] PROVE f \in Sheets
BY DEF Sheets

LEMMA SheetParts ==
  ASSUME NEW f \in Sheets
  PROVE  /\ DOMAIN f \subseteq Cards
         /\ f \in [DOMAIN f -> Contents]
         /\ \A c \in DOMAIN f : f[c] \in Contents
BY DEF Sheets

LEMMA EmptySheet == <<>> \in Sheets
<1>1. <<>> \in [{} -> Contents]
  OBVIOUS
<1> QED BY <1>1 DEF Sheets

LEMMA RestrictedSheet ==
  ASSUME NEW f \in Sheets, NEW D \in SUBSET DOMAIN f PROVE Restrict(f, D) \in Sheets
<1>1. Restrict(f, D) \in [D -> Contents] /\ D \in SUBSET Cards
  BY SheetParts DEF Restrict
<1> QED BY <1>1, SheetOf

LEMMA DiffPatch ==
  ASSUME NEW f \in Sheets, NEW g \in Sheets PROVE Diff(f, g) \in Patches
<1>1. DOMAIN f \ DOMAIN g \in SUBSET Cards
  BY SheetParts
<1> QED BY <1>1, RestrictedSheet DEF Diff, Patches

LEMMA DiffTouches ==
  ASSUME NEW f \in Sheets, NEW g \in Sheets PROVE Touches(Diff(f, g)) = Differ(f, g)
<1>1. DOMAIN f \subseteq Cards /\ DOMAIN g \subseteq Cards
  BY SheetParts
<1> QED BY <1>1 DEF Diff, Touches, Differ, Same, Restrict

LEMMA Applied ==
  ASSUME NEW f \in Sheets, NEW p \in Patches
  PROVE  Apply(f, p) \in Sheets /\ Touches(p) \subseteq Cards
<1>1. p.put \in Sheets /\ p.cut \in SUBSET Cards
  BY DEF Patches
<1>2. /\ \A c \in DOMAIN f : f[c] \in Contents
      /\ \A c \in DOMAIN p.put : p.put[c] \in Contents
  BY <1>1, SheetParts
<1>3. DOMAIN f \subseteq Cards /\ DOMAIN p.put \subseteq Cards
  BY <1>1, SheetParts
<1>4. DOMAIN p.put \cup (DOMAIN f \ p.cut) \in SUBSET Cards
  BY <1>3
<1>5. Apply(f, p) \in [DOMAIN p.put \cup (DOMAIN f \ p.cut) -> Contents]
  BY <1>2 DEF Apply
<1> QED BY <1>1, <1>3, <1>4, <1>5, SheetOf DEF Touches

-------------------------------------------------------------------------------
(* What the operations make of a session. *)

Session == SessionsOf(DOMAIN locks)

LEMMA FreshSound ==
  ASSUME NEW f \in Sheets, NEW prior \in SUBSET Nat
  PROVE  Fresh(f, prior) \in Session /\ Sound(Fresh(f, prior))
<1>1. <<>> \in Seq(Snapshots) /\ Len(<<>>) + Len(<<>>) <= UndoDepth
  BY SheetAssumption
<1>2. Fresh(f, prior) \in Session
  BY <1>1 DEF Fresh, Session, SessionsOf
<1>3. Differ(f, f) = {} /\ Chain(<<>>, f)
  BY DEF Differ, Same, Chain
<1> QED BY <1>2, <1>3 DEF Fresh, Sound

(* The triangle: what differs between the ends differs on one of the ways. *)
LEMMA DifferThrough ==
  ASSUME NEW f, NEW g, NEW h PROVE Differ(f, h) \subseteq Differ(f, g) \cup Differ(g, h)
BY DEF Differ, Same

(* A change of one card marks it in every snapshot. *)
LEMMA MarkedStack ==
  ASSUME NEW stack \in Seq(Snapshots), NEW c \in Cards
  PROVE  /\ Marking(stack, c) \in Seq(Snapshots)
         /\ Len(Marking(stack, c)) = Len(stack)
         /\ \A k \in DOMAIN stack :
              /\ Marking(stack, c)[k].data = stack[k].data
              /\ Marking(stack, c)[k].own = stack[k].own \cup {c}
<1>1. \A k \in DOMAIN stack : stack[k] \in Snapshots
  OBVIOUS
<1>2. DOMAIN stack = 1..Len(stack) /\ Len(stack) \in Nat
  OBVIOUS
<1>3. \A k \in DOMAIN stack : [stack[k] EXCEPT !.own = @ \cup {c}] \in Snapshots
  BY <1>1 DEF Snapshots
<1>4. Marking(stack, c) \in [1..Len(stack) -> Snapshots]
  BY <1>2, <1>3 DEF Marking
<1>5. Marking(stack, c) \in Seq(Snapshots) /\ Len(Marking(stack, c)) = Len(stack)
  BY <1>2, <1>4
<1> QED BY <1>1, <1>2, <1>5 DEF Marking, Snapshots

LEMMA MarkedChain ==
  ASSUME NEW stack \in Seq(Snapshots), NEW c \in Cards, NEW old, NEW new,
         Chain(stack, old), Differ(old, new) \subseteq {c}
  PROVE  Chain(Marking(stack, c), new)
<1> DEFINE marked == Marking(stack, c)
<1>1. SUFFICES ASSUME NEW k \in DOMAIN marked
               PROVE  Differ(marked[k].data, IF k = Len(marked) THEN new ELSE marked[k + 1].data)
                        \subseteq marked[k].own
  BY DEF Chain
<1>2. /\ Len(marked) = Len(stack) /\ DOMAIN marked = 1..Len(stack) /\ DOMAIN stack = 1..Len(stack)
      /\ Len(stack) \in Nat
  BY MarkedStack
<1>3. k \in DOMAIN stack /\ marked[k].data = stack[k].data /\ marked[k].own = stack[k].own \cup {c}
  BY <1>1, <1>2, MarkedStack
<1>4. CASE k = Len(stack)
  <2>1. Differ(stack[k].data, old) \subseteq stack[k].own
    BY <1>3, <1>4 DEF Chain
  <2>2. Differ(stack[k].data, new) \subseteq Differ(stack[k].data, old) \cup Differ(old, new)
    BY DifferThrough
  <2> QED BY <1>2, <1>3, <1>4, <2>1, <2>2
<1>5. CASE k # Len(stack)
  <2>1. k + 1 \in DOMAIN stack
    BY <1>2, <1>3, <1>5
  <2>2. marked[k + 1].data = stack[k + 1].data
    BY <2>1, MarkedStack
  <2>3. Differ(stack[k].data, stack[k + 1].data) \subseteq stack[k].own
    BY <1>3, <1>5 DEF Chain
  <2> QED BY <1>2, <1>3, <1>5, <2>2, <2>3
<1> QED BY <1>4, <1>5

(* A snapshot of what the data were goes on top. *)
LEMMA PushedChain ==
  ASSUME NEW stack \in Seq(Snapshots), NEW snapshot \in Snapshots, NEW new,
         Chain(stack, snapshot.data), Differ(snapshot.data, new) \subseteq snapshot.own
  PROVE  Append(stack, snapshot) \in Seq(Snapshots) /\ Chain(Append(stack, snapshot), new)
<1> DEFINE pushed == Append(stack, snapshot)
<1>1. /\ pushed \in Seq(Snapshots) /\ Len(pushed) = Len(stack) + 1 /\ Len(stack) \in Nat
      /\ DOMAIN pushed = 1..(Len(stack) + 1) /\ DOMAIN stack = 1..Len(stack)
      /\ \A k \in DOMAIN stack : pushed[k] = stack[k]
      /\ pushed[Len(stack) + 1] = snapshot
  OBVIOUS
<1> HIDE DEF pushed
<1>2. ASSUME NEW k \in DOMAIN pushed
      PROVE  Differ(pushed[k].data, IF k = Len(pushed) THEN new ELSE pushed[k + 1].data)
               \subseteq pushed[k].own
  <2>1. CASE k = Len(pushed)
    BY <1>1, <2>1
  <2>2. CASE k = Len(stack)
    <3>1. Differ(stack[k].data, snapshot.data) \subseteq stack[k].own
      BY <1>1, <1>2, <2>2 DEF Chain
    <3>2. k \in DOMAIN stack /\ k # Len(pushed)
      <4>1. k \in 1..(Len(stack) + 1) /\ Len(stack) \in Nat
        BY <1>1
      <4>2. k \in 1..Len(stack) /\ k # Len(stack) + 1
        BY <2>2, <4>1
      <4> QED BY <1>1, <4>2
    <3>3. pushed[k] = stack[k]
      BY <1>1, <3>2
    <3>4. pushed[k + 1] = snapshot
      BY <1>1, <2>2
    <3> QED BY <3>1, <3>2, <3>3, <3>4, <2>2
  <2>3. CASE k < Len(stack)
    <3>1. k \in DOMAIN stack /\ k + 1 \in DOMAIN stack /\ k # Len(stack) /\ k # Len(pushed)
      BY <1>1, <1>2, <2>3
    <3>2. Differ(stack[k].data, stack[k + 1].data) \subseteq stack[k].own
      BY <3>1 DEF Chain
    <3> QED BY <1>1, <3>1, <3>2
  <2> QED BY <1>1, <1>2, <2>1, <2>2, <2>3
<1> QED BY <1>1, <1>2 DEF Chain, pushed

(* The oldest snapshot is dropped. *)
LEMMA BoundedChain ==
  ASSUME NEW stack \in Seq(Snapshots), NEW data, Len(stack) <= UndoDepth + 1
  PROVE  /\ Bounded(stack) \in Seq(Snapshots)
         /\ Len(Bounded(stack)) <= UndoDepth /\ Len(Bounded(stack)) <= Len(stack)
         /\ Chain(stack, data) => Chain(Bounded(stack), data)
<1>1. Len(stack) \in Nat /\ DOMAIN stack = 1..Len(stack)
  OBVIOUS
<1>2. CASE Len(stack) > UndoDepth
  <2> DEFINE rest == Tail(stack)
  <2>1. /\ rest \in Seq(Snapshots) /\ Len(rest) = Len(stack) - 1 /\ DOMAIN rest = 1..(Len(stack) - 1)
        /\ \A k \in DOMAIN rest : rest[k] = stack[k + 1]
    BY <1>1, <1>2, SheetAssumption
  <2>2. Len(rest) <= UndoDepth /\ Len(rest) <= Len(stack)
    BY <2>1, <1>1, SheetAssumption
  <2>3. ASSUME Chain(stack, data), NEW k \in DOMAIN rest
        PROVE  Differ(rest[k].data, IF k = Len(rest) THEN data ELSE rest[k + 1].data)
                 \subseteq rest[k].own
    <3>1. k + 1 \in DOMAIN stack /\ (k + 1 = Len(stack) <=> k = Len(rest)) /\ rest[k] = stack[k + 1]
      BY <1>1, <2>1, <2>3
    <3>2. Differ(stack[k + 1].data, IF k + 1 = Len(stack) THEN data ELSE stack[(k + 1) + 1].data)
            \subseteq stack[k + 1].own
      BY <2>3, <3>1 DEF Chain
    <3>3. CASE k = Len(rest)
      BY <3>1, <3>2, <3>3
    <3>4. CASE k # Len(rest)
      <4>1. rest[k + 1] = stack[(k + 1) + 1]
        BY <1>1, <2>1, <2>3, <3>4
      <4> QED BY <3>1, <3>2, <3>4, <4>1
    <3> QED BY <3>3, <3>4
  <2> QED BY <1>2, <2>1, <2>2, <2>3 DEF Bounded, Chain
<1>3. CASE ~(Len(stack) > UndoDepth)
  BY <1>1, <1>3, SheetAssumption DEF Bounded
<1> QED BY <1>2, <1>3

(* The last snapshot is taken off. *)
LEMMA PoppedChain ==
  ASSUME NEW stack \in Seq(Snapshots), stack # <<>>, NEW data, Chain(stack, data)
  PROVE  LET last == stack[Len(stack)]
             rest == SubSeq(stack, 1, Len(stack) - 1)
         IN /\ last \in Snapshots
            /\ rest \in Seq(Snapshots) /\ Len(rest) = Len(stack) - 1
            /\ Chain(rest, last.data)
            /\ Differ(last.data, data) \subseteq last.own
<1> DEFINE n == Len(stack)
           last == stack[n]
           rest == SubSeq(stack, 1, n - 1)
<1>1. n \in Nat \ {0} /\ DOMAIN stack = 1..n
  OBVIOUS
<1>2. last \in Snapshots /\ Differ(last.data, data) \subseteq last.own
  BY <1>1 DEF Chain
<1>3. /\ rest \in Seq(Snapshots) /\ Len(rest) = n - 1 /\ DOMAIN rest = 1..(n - 1)
      /\ \A k \in DOMAIN rest : rest[k] = stack[k]
  BY <1>1
<1>4. ASSUME NEW k \in DOMAIN rest
      PROVE  Differ(rest[k].data, IF k = Len(rest) THEN last.data ELSE rest[k + 1].data)
               \subseteq rest[k].own
  <2>1. k \in DOMAIN stack /\ k # n /\ rest[k] = stack[k]
    BY <1>1, <1>3, <1>4
  <2>2. Differ(stack[k].data, stack[k + 1].data) \subseteq stack[k].own
    BY <2>1 DEF Chain
  <2>3. (IF k = Len(rest) THEN last.data ELSE rest[k + 1].data) = stack[k + 1].data
    <3>1. CASE k = Len(rest)
      BY <1>1, <1>3, <3>1
    <3>2. CASE k # Len(rest)
      BY <1>1, <1>3, <1>4, <3>2
    <3> QED BY <3>1, <3>2
  <2> QED BY <2>1, <2>2, <2>3
<1>5. Chain(rest, last.data)
  BY <1>4 DEF Chain
<1> QED BY <1>2, <1>3, <1>5

LEMMA SessionStacks ==
  ASSUME NEW s \in Session
  PROVE  /\ s.undo \in Seq(Snapshots) /\ Len(s.undo) \in Nat
         /\ s.redo \in Seq(Snapshots) /\ Len(s.redo) \in Nat
         /\ Len(s.undo) + Len(s.redo) <= UndoDepth /\ Len(s.redo) + Len(s.undo) <= UndoDepth
         /\ Len(s.undo) <= UndoDepth /\ Len(s.redo) <= UndoDepth
<1> DEFINE a == Len(s.undo)
           b == Len(s.redo)
<1>1. s.undo \in Seq(Snapshots) /\ s.redo \in Seq(Snapshots)
  BY DEF Session, SessionsOf
<1>2. a \in Nat /\ b \in Nat
  BY <1>1
<1>3. a + b <= UndoDepth
  BY DEF Session, SessionsOf
<1>4. a <= UndoDepth /\ b <= UndoDepth /\ b + a <= UndoDepth
  <2> HIDE DEF a, b
  <2> QED BY <1>2, <1>3, SheetAssumption
<1> QED BY <1>1, <1>2, <1>3, <1>4

LEMMA SessionSheets ==
  ASSUME NEW s \in Session
  PROVE  s.data \in Sheets /\ s.saved \in Sheets /\ s.own \subseteq Cards
BY DEF Session, SessionsOf

(* Two steps on sequences. *)
LEMMA Pushed ==
  ASSUME NEW stack \in Seq(Snapshots), NEW snapshot \in Snapshots
  PROVE  /\ Append(stack, snapshot) \in Seq(Snapshots)
         /\ Len(Append(stack, snapshot)) = Len(stack) + 1 /\ Len(stack) \in Nat
OBVIOUS

LEMMA Popped ==
  ASSUME NEW stack \in Seq(Snapshots), stack # <<>>
  PROVE  /\ stack[Len(stack)] \in Snapshots
         /\ SubSeq(stack, 1, Len(stack) - 1) \in Seq(Snapshots)
         /\ Len(SubSeq(stack, 1, Len(stack) - 1)) = Len(stack) - 1 /\ Len(stack) \in Nat \ {0}
<1> DEFINE n == Len(stack)
<1>1. n \in Nat \ {0} /\ DOMAIN stack = 1..n
  OBVIOUS
<1>2. stack[n] \in Snapshots
  BY <1>1
<1>3. SubSeq(stack, 1, n - 1) \in Seq(Snapshots) /\ Len(SubSeq(stack, 1, n - 1)) = n - 1
  BY <1>1
<1> QED BY <1>1, <1>2, <1>3

(* Data changed or restored, with other stacks. *)
Put(s, data, cards, undo, redo) ==
  [Touched(s, data, cards) EXCEPT !.undo = undo, !.redo = redo]
PutBack(s, snapshot, undo, redo) ==
  [Restored(s, snapshot) EXCEPT !.undo = undo, !.redo = redo]

(* What both have in common. *)
Moved(s, t, data, cards, undo, redo) ==
  /\ t.data = data /\ t.saved = s.saved /\ t.dirty
  /\ t.own = s.own \cup cards /\ t.undo = undo /\ t.redo = redo

LEMMA PutParts ==
  ASSUME NEW s \in Session, NEW data \in Sheets, NEW cards \in SUBSET Cards,
         NEW undo \in Seq(Snapshots), NEW redo \in Seq(Snapshots),
         Len(undo) + Len(redo) <= UndoDepth
  PROVE  /\ Put(s, data, cards, undo, redo) \in Session
         /\ Moved(s, Put(s, data, cards, undo, redo), data, cards, undo, redo)
BY DEF Put, Moved, Touched, Session, SessionsOf

LEMMA PutBackParts ==
  ASSUME NEW s \in Session, NEW snapshot \in Snapshots,
         NEW undo \in Seq(Snapshots), NEW redo \in Seq(Snapshots),
         Len(undo) + Len(redo) <= UndoDepth
  PROVE  /\ PutBack(s, snapshot, undo, redo) \in Session
         /\ Moved(s, PutBack(s, snapshot, undo, redo), snapshot.data, snapshot.own, undo, redo)
<1>1. snapshot.data \in Sheets /\ snapshot.own \subseteq Cards
  BY DEF Snapshots
<1> QED BY <1>1 DEF PutBack, Restored, Moved, Touched, Session, SessionsOf

LEMMA MovedSound ==
  ASSUME NEW s, Sound(s), NEW t, NEW data, NEW cards, NEW undo, NEW redo,
         Moved(s, t, data, cards, undo, redo),
         kind = "canvas" => Differ(s.data, data) \subseteq cards,
         Chain(undo, data), Chain(redo, data)
  PROVE  Sound(t)
<1>1. ASSUME kind = "canvas" PROVE Differ(t.saved, t.data) \subseteq t.own
  <2>1. Differ(s.saved, s.data) \subseteq s.own
    BY <1>1 DEF Sound
  <2>2. Differ(s.saved, data) \subseteq s.own \cup cards
    BY <1>1, <2>1, DifferThrough
  <2> QED BY <1>1, <2>2 DEF Moved
<1> QED BY <1>1 DEF Sound, Moved

(* Changes by hand: push_undo() before the card c changes. *)
LEMMA ChangedSound ==
  ASSUME NEW s \in Session, Sound(s), NEW data \in Sheets, NEW c \in Cards,
         Differ(s.data, data) \subseteq {c}
  PROVE  Changed(s, data, c) \in Session /\ Sound(Changed(s, data, c))
<1> DEFINE snapshot == Snapshot(s, {})
           pushed == Append(s.undo, snapshot)
           marked == Marking(pushed, c)
           undo == Bounded(marked)
<1>1. snapshot \in Snapshots /\ snapshot.data = s.data /\ snapshot.own = {}
  BY SessionSheets DEF Snapshot, Snapshots
<1> HIDE DEF snapshot
<1>2. /\ pushed \in Seq(Snapshots) /\ Len(pushed) = Len(s.undo) + 1
      /\ Len(s.undo) \in Nat /\ Len(s.undo) <= UndoDepth
  <2>1. /\ s.undo \in Seq(Snapshots) /\ Len(s.undo) \in Nat /\ Len(s.redo) \in Nat
    BY SessionStacks
  <2>2. Len(s.undo) <= UndoDepth
    BY SessionStacks
  <2>3. pushed \in Seq(Snapshots) /\ Len(pushed) = Len(s.undo) + 1
    BY <1>1, <2>1, Pushed
  <2> QED BY <2>1, <2>2, <2>3
<1>3. Chain(pushed, s.data)
  <2>1. s.undo \in Seq(Snapshots)
    BY SessionStacks
  <2>2. Differ(s.data, s.data) = {}
    BY DEF Differ, Same
  <2>3. Chain(s.undo, s.data)
    BY DEF Sound
  <2> QED BY <1>1, <2>1, <2>2, <2>3, PushedChain
<1> HIDE DEF pushed
<1>4. /\ marked \in Seq(Snapshots) /\ Len(marked) <= UndoDepth + 1
      /\ Chain(marked, data)
  <2>1. marked \in Seq(Snapshots) /\ Len(marked) = Len(pushed)
    BY <1>2, MarkedStack
  <2>2. Len(pushed) <= UndoDepth + 1
    BY <1>2, SheetAssumption
  <2>3. Chain(marked, data)
    BY <1>2, <1>3, MarkedChain
  <2> QED BY <2>1, <2>2, <2>3
<1> HIDE DEF marked
<1>5. undo \in Seq(Snapshots) /\ Len(undo) <= UndoDepth /\ Chain(undo, data)
  BY <1>4, BoundedChain
<1> HIDE DEF undo
<1>6. <<>> \in Seq(Snapshots) /\ Len(undo) + Len(<<>>) <= UndoDepth /\ Chain(<<>>, data)
  BY <1>5, SheetAssumption DEF Chain
<1>7. Put(s, data, {c}, undo, <<>>) \in Session /\ Sound(Put(s, data, {c}, undo, <<>>))
  BY <1>5, <1>6, PutParts, MovedSound
<1>8. Changed(s, data, c) = Put(s, data, {c}, undo, <<>>)
  BY Zenon DEF Changed, Put, undo, marked, pushed, snapshot
<1> QED BY <1>7, <1>8

(* undo() and redo() take the last snapshot from one stack and put the data on the other. *)
LEMMA Turned ==
  ASSUME NEW s \in Session, NEW from \in Seq(Snapshots), NEW to \in Seq(Snapshots),
         from # <<>>, Len(from) + Len(to) <= UndoDepth,
         Chain(from, s.data), Chain(to, s.data)
  PROVE  LET last == from[Len(from)]
             rest == SubSeq(from, 1, Len(from) - 1)
             pushed == Append(to, Snapshot(s, last.own))
         IN /\ last \in Snapshots /\ rest \in Seq(Snapshots) /\ pushed \in Seq(Snapshots)
            /\ Len(rest) + Len(pushed) <= UndoDepth /\ Len(pushed) + Len(rest) <= UndoDepth
            /\ Len(pushed) <= UndoDepth
            /\ Chain(rest, last.data) /\ Chain(pushed, last.data)
            /\ Differ(s.data, last.data) \subseteq last.own
<1> DEFINE last == from[Len(from)]
           rest == SubSeq(from, 1, Len(from) - 1)
           snapshot == Snapshot(s, last.own)
           pushed == Append(to, snapshot)
<1>1. /\ last \in Snapshots /\ rest \in Seq(Snapshots)
      /\ Len(rest) = Len(from) - 1 /\ Len(from) \in Nat \ {0}
  BY Popped
<1>2. Chain(rest, last.data) /\ Differ(s.data, last.data) \subseteq last.own
  <2>1. Chain(rest, last.data) /\ Differ(last.data, s.data) \subseteq last.own
    BY PoppedChain
  <2> QED BY <2>1 DEF Differ, Same
<1>3. snapshot \in Snapshots /\ snapshot.data = s.data /\ snapshot.own = last.own
  <2>1. last.own \in SUBSET Cards
    BY <1>1 DEF Snapshots
  <2> HIDE DEF last
  <2> QED BY <2>1, SessionSheets DEF Snapshot, Snapshots
<1> HIDE DEF last, rest, snapshot
<1>4. pushed \in Seq(Snapshots) /\ Len(pushed) = Len(to) + 1 /\ Len(to) \in Nat
  BY <1>3, Pushed
<1>5. Chain(pushed, last.data)
  BY <1>2, <1>3, PushedChain
<1> HIDE DEF pushed
<1>6. /\ Len(rest) + Len(pushed) <= UndoDepth /\ Len(pushed) + Len(rest) <= UndoDepth
      /\ Len(pushed) <= UndoDepth
  BY <1>1, <1>4, SheetAssumption
<1> QED BY <1>1, <1>2, <1>4, <1>5, <1>6 DEF last, rest, snapshot, pushed

LEMMA UndoSound ==
  ASSUME NEW s \in Session, Sound(s), s.undo # <<>>
  PROVE  LET last == s.undo[Len(s.undo)]
             t == [Restored(s, last) EXCEPT
                     !.undo = SubSeq(s.undo, 1, Len(s.undo) - 1),
                     !.redo = Append(s.redo, Snapshot(s, last.own))]
         IN t \in Session /\ Sound(t)
<1> DEFINE last == s.undo[Len(s.undo)]
           rest == SubSeq(s.undo, 1, Len(s.undo) - 1)
           pushed == Append(s.redo, Snapshot(s, last.own))
           t == PutBack(s, last, rest, pushed)
<1>1. Chain(s.undo, s.data) /\ Chain(s.redo, s.data)
  BY DEF Sound
<1>2. /\ last \in Snapshots /\ rest \in Seq(Snapshots) /\ pushed \in Seq(Snapshots)
      /\ Len(rest) + Len(pushed) <= UndoDepth
      /\ Chain(rest, last.data) /\ Chain(pushed, last.data)
      /\ Differ(s.data, last.data) \subseteq last.own
  BY <1>1, SessionStacks, Turned
<1> HIDE DEF last, rest, pushed
<1>3. t \in Session /\ Moved(s, t, last.data, last.own, rest, pushed)
  BY <1>2, PutBackParts
<1>4. Sound(t)
  BY <1>2, <1>3, MovedSound
<1> QED BY <1>3, <1>4 DEF PutBack, pushed, last, rest

LEMMA RedoSound ==
  ASSUME NEW s \in Session, Sound(s), s.redo # <<>>
  PROVE  LET last == s.redo[Len(s.redo)]
             t == [Restored(s, last) EXCEPT
                     !.undo = Bounded(Append(s.undo, Snapshot(s, last.own))),
                     !.redo = SubSeq(s.redo, 1, Len(s.redo) - 1)]
         IN t \in Session /\ Sound(t)
<1> DEFINE last == s.redo[Len(s.redo)]
           rest == SubSeq(s.redo, 1, Len(s.redo) - 1)
           pushed == Append(s.undo, Snapshot(s, last.own))
           t == PutBack(s, last, pushed, rest)
<1>1. Chain(s.undo, s.data) /\ Chain(s.redo, s.data)
  BY DEF Sound
<1>2. Len(s.redo) + Len(s.undo) <= UndoDepth
  BY SessionStacks
<1>3. /\ last \in Snapshots /\ rest \in Seq(Snapshots) /\ pushed \in Seq(Snapshots)
      /\ Len(pushed) + Len(rest) <= UndoDepth /\ Len(pushed) <= UndoDepth
      /\ Chain(rest, last.data) /\ Chain(pushed, last.data)
      /\ Differ(s.data, last.data) \subseteq last.own
  BY <1>1, <1>2, SessionStacks, Turned
<1> HIDE DEF last, rest, pushed
<1>4. Bounded(pushed) = pushed
  BY <1>3, SheetAssumption DEF Bounded
<1>5. t \in Session /\ Moved(s, t, last.data, last.own, pushed, rest)
  BY <1>3, PutBackParts
<1>6. Sound(t)
  BY <1>3, <1>5, MovedSound
<1> QED BY <1>4, <1>5, <1>6 DEF PutBack, pushed, last, rest

(* upsert_message(): a message is added, and marked in every snapshot.                     *)
LEMMA SpokenSound ==
  ASSUME NEW s \in Session, Sound(s), NEW c \in Cards, NEW k \in Nat
  PROVE  Spoken(s, c, k) \in Session /\ Sound(Spoken(s, c, k))
<1> DEFINE data == [s.data EXCEPT ![c].msgs = @ \cup {k}]
           undo == Marking(s.undo, c)
           redo == Marking(s.redo, c)
           t == Spoken(s, c, k)
<1>1. data \in Sheets /\ Differ(s.data, data) \subseteq {c}
  <2>1. s.data \in Sheets
    BY SessionSheets
  <2>2. s.data \in [DOMAIN s.data -> Contents] /\ DOMAIN s.data \in SUBSET Cards
    BY <2>1, SheetParts
  <2>3. data \in [DOMAIN s.data -> Contents]
    BY <2>2 DEF Contents
  <2>4. data \in Sheets
    BY <2>2, <2>3, SheetOf
  <2>5. DOMAIN data = DOMAIN s.data /\ \A d \in DOMAIN s.data \ {c} : data[d] = s.data[d]
    BY <2>2
  <2> HIDE DEF data
  <2> QED BY <2>4, <2>5 DEF Differ, Same
<1>2. /\ undo \in Seq(Snapshots) /\ Len(undo) = Len(s.undo)
      /\ redo \in Seq(Snapshots) /\ Len(redo) = Len(s.redo)
  BY SessionStacks, MarkedStack
<1>3. Chain(undo, data) /\ Chain(redo, data)
  <2>1. Chain(s.undo, s.data) /\ Chain(s.redo, s.data)
    BY DEF Sound
  <2> QED BY <1>1, <2>1, SessionStacks, MarkedChain
<1>4. Len(undo) + Len(redo) <= UndoDepth
  BY <1>2, SessionStacks
<1>5. t = [[Touched(s, data, {c}) EXCEPT !.said = @ \cup {k}] EXCEPT !.undo = undo, !.redo = redo]
  BY DEF Spoken, Touched, Session, SessionsOf
<1> HIDE DEF data, undo, redo, t
<1>6. t \in Session /\ Moved(s, t, data, {c}, undo, redo)
  BY <1>1, <1>2, <1>4, <1>5 DEF Moved, Touched, Session, SessionsOf
<1>7. Sound(t)
  BY <1>1, <1>3, <1>6, MovedSound
<1> QED BY <1>6, <1>7 DEF t

(* Neither an answer being written nor a deadline matters. *)
LEMMA RunningSound ==
  ASSUME NEW s \in Session, Sound(s), NEW r \in SUBSET DOMAIN locks, NEW b \in BOOLEAN
  PROVE  /\ [s EXCEPT !.running = r] \in Session /\ Sound([s EXCEPT !.running = r])
         /\ [s EXCEPT !.armed = b] \in Session /\ Sound([s EXCEPT !.armed = b])
<1>1. [s EXCEPT !.running = r] \in Session /\ [s EXCEPT !.armed = b] \in Session
  BY DEF Session, SessionsOf
<1>2. ASSUME NEW t \in {[s EXCEPT !.running = r], [s EXCEPT !.armed = b]}
      PROVE  /\ t.data = s.data /\ t.saved = s.saved /\ t.dirty = s.dirty
             /\ t.own = s.own /\ t.undo = s.undo /\ t.redo = s.redo
  BY DEF Session, SessionsOf
<1> QED BY <1>1, <1>2 DEF Sound

(* on_canvas_patch_done(): the answer. *)
LEMMA SettledSound ==
  ASSUME NEW s \in Session, Sound(s), NEW save \in Saves
  PROVE  Settled(s, save) \in Session /\ Sound(Settled(s, save))
<1>1. save.frozen \in Sheets /\ save.cards \subseteq Cards
  BY DEF Saves
<1>2. CASE s.data = save.frozen
  <2> DEFINE t == [s EXCEPT !.dirty = FALSE, !.saved = save.frozen, !.own = {}, !.adrift = {}]
  <2>1. t \in Session
    BY <1>1 DEF Session, SessionsOf
  <2>2. /\ t.data = s.data /\ t.saved = s.data
        /\ t.own = {} /\ t.undo = s.undo /\ t.redo = s.redo
    BY <1>2 DEF Session, SessionsOf
  <2>3. Settled(s, save) = t
    BY <1>2 DEF Settled
  <2>4. Differ(s.data, s.data) = {}
    BY DEF Differ, Same
  <2> HIDE DEF t
  <2>5. Sound(t)
    BY <2>2, <2>4 DEF Sound
  <2> QED BY <2>1, <2>3, <2>5
<1>3. CASE s.data # save.frozen
  <2> DEFINE t == [s EXCEPT !.adrift = @ \cup save.cards]
  <2>1. t \in Session
    BY <1>1 DEF Session, SessionsOf
  <2>2. /\ t.data = s.data /\ t.saved = s.saved /\ t.dirty = s.dirty
        /\ t.own = s.own /\ t.undo = s.undo /\ t.redo = s.redo
    BY DEF Session, SessionsOf
  <2>3. Settled(s, save) = t
    BY <1>3 DEF Settled
  <2> HIDE DEF t
  <2>4. Sound(t)
    BY <2>2 DEF Sound
  <2> QED BY <2>1, <2>3, <2>4
<1> QED BY <1>2, <1>3

-------------------------------------------------------------------------------
(* What others have landed. *)

(* The stacks go with every merge. *)
Cleared(s, data, saved, adrift) ==
  [[s EXCEPT !.data = data, !.saved = saved] EXCEPT !.undo = <<>>, !.redo = <<>>, !.adrift = adrift]

LEMMA ClearedSound ==
  ASSUME NEW s \in Session, NEW data \in Sheets, NEW saved \in Sheets, NEW adrift \in SUBSET Cards,
         ~s.dirty => data = saved /\ s.own = {},
         kind = "canvas" => Differ(saved, data) \subseteq s.own
  PROVE  Cleared(s, data, saved, adrift) \in Session /\ Sound(Cleared(s, data, saved, adrift))
<1> DEFINE t == Cleared(s, data, saved, adrift)
<1>1. <<>> \in Seq(Snapshots) /\ Len(<<>>) + Len(<<>>) <= UndoDepth
  BY SheetAssumption
<1>2. t \in Session
  BY <1>1 DEF Cleared, Session, SessionsOf
<1>3. /\ t.data = data /\ t.saved = saved /\ t.dirty = s.dirty
      /\ t.own = s.own /\ t.undo = <<>> /\ t.redo = <<>>
  BY DEF Cleared, Session, SessionsOf
<1> HIDE DEF t
<1>4. Sound(t)
  BY <1>3 DEF Sound, Chain
<1> QED BY <1>2, <1>4 DEF t

LEMMA BehindCards ==
  ASSUME NEW s \in Session, NEW saved, NEW p \in Patches
  PROVE  Behind(s, saved, p) \subseteq Cards
<1>1. Touches(p) \subseteq Cards
  BY SessionSheets, Applied
<1>2. s.adrift \subseteq Cards
  BY DEF Session, SessionsOf
<1> QED BY <1>1, <1>2 DEF Behind

(* on_remote_table_patch(). *)
LEMMA TableSound ==
  ASSUME NEW s \in Session, Sound(s), NEW p \in Patches, kind = "table"
  PROVE  Merge(s, p) \in Session /\ Sound(Merge(s, p))
<1> DEFINE data == Apply(s.data, p)
           saved == IF s.dirty THEN s.saved ELSE data
<1>1. data \in Sheets /\ saved \in Sheets
  BY SessionSheets, Applied
<1>2. ~s.dirty => data = saved
  OBVIOUS
<1>3. Merge(s, p) = Cleared(s, data, saved, Behind(s, saved, p))
  BY DEF Merge, MergeTable, Cleared, Session, SessionsOf
<1>4. Behind(s, saved, p) \subseteq Cards
  BY BehindCards
<1> HIDE DEF data, saved
<1> QED BY <1>1, <1>2, <1>3, <1>4, ClearedSound DEF Sound

(* apply_remote_patch(): what is kept of a card's messages was not saved, so the card is   *)
(* one the member has changed; in a clean session nothing is.                               *)
LEMMA CanvasSound ==
  ASSUME NEW s \in Session, Sound(s), NEW p \in Patches, kind = "canvas"
  PROVE  Merge(s, p) \in Session /\ Sound(Merge(s, p))
<1> DEFINE came == Apply(s.data, p)
           saved == Apply(s.saved, p)
           kept == Guarded(s, p)
           Both(c) == [came[c] EXCEPT !.msgs = MergeMessages(@, s.data[c].msgs)]
           data == [c \in DOMAIN came |-> IF c \in kept THEN Both(c) ELSE came[c]]
<1>1. s.data \in Sheets /\ s.saved \in Sheets
  BY SessionSheets
<1>2. came \in Sheets /\ saved \in Sheets
  BY <1>1, Applied
<1>3. /\ DOMAIN came = DOMAIN p.put \cup (DOMAIN s.data \ p.cut)
      /\ \A c \in DOMAIN came : came[c] = IF c \in DOMAIN p.put THEN p.put[c] ELSE s.data[c]
      /\ DOMAIN saved = DOMAIN p.put \cup (DOMAIN s.saved \ p.cut)
      /\ \A c \in DOMAIN saved : saved[c] = IF c \in DOMAIN p.put THEN p.put[c] ELSE s.saved[c]
      /\ came = [c \in DOMAIN came |-> came[c]]
  BY DEF Apply
<1> HIDE DEF came, saved
<1>4. /\ kept \subseteq DOMAIN p.put \cap DOMAIN s.data
      /\ \A c \in kept : c \in DOMAIN s.saved => s.data[c] # s.saved[c]
  BY DEF Guarded
<1>5. kept \subseteq Differ(s.saved, s.data)
  <2>1. DOMAIN s.data \subseteq Cards
    BY <1>1, SheetParts
  <2> QED BY <1>4, <2>1 DEF Differ, Same
<1> HIDE DEF kept
<1>6. data \in Sheets
  <2>1. DOMAIN came \in SUBSET Cards /\ \A c \in DOMAIN came : came[c] \in Contents
    BY <1>2, SheetParts
  <2>2. \A c \in DOMAIN s.data : s.data[c] \in Contents
    BY <1>1, SheetParts
  <2>3. \A c \in kept : c \in DOMAIN came /\ c \in DOMAIN s.data
    BY <1>3, <1>4
  <2>4. \A c \in kept : Both(c) \in Contents
    BY <2>1, <2>2, <2>3 DEF Contents, MergeMessages
  <2> HIDE DEF Both
  <2>5. data \in [DOMAIN came -> Contents]
    BY <2>1, <2>4
  <2> QED BY <2>1, <2>5, SheetOf
<1>7. Differ(s.saved, s.data) \subseteq s.own
  BY DEF Sound
<1>8. Differ(saved, data) \subseteq Differ(s.saved, s.data)
  <2> SUFFICES ASSUME NEW c \in Cards, c \notin Differ(s.saved, s.data), c \notin kept
               PROVE  Same(saved, data, c)
    BY <1>5 DEF Differ
  <2>1. Same(s.saved, s.data, c)
    BY DEF Differ
  <2>2. DOMAIN data = DOMAIN came /\ (c \in DOMAIN came => data[c] = came[c])
    OBVIOUS
  <2> HIDE DEF data
  <2> QED BY <1>2, <1>3, <2>1, <2>2 DEF Same
<1>9. ASSUME ~s.dirty PROVE data = saved
  <2>1. s.data = s.saved
    BY <1>9 DEF Sound
  <2>2. kept = {}
    BY <1>5, <2>1 DEF Differ, Same
  <2>3. data = came
    BY <1>3, <2>2
  <2> QED BY <2>1, <2>3 DEF came, saved
<1>10. Merge(s, p) = Cleared(s, data, saved, Behind(s, saved, p))
  BY DEF Merge, MergeCanvas, Cleared, Session, SessionsOf, came, saved, kept
<1>11. Behind(s, saved, p) \subseteq Cards
  BY BehindCards
<1> HIDE DEF data
<1> QED BY <1>2, <1>6, <1>7, <1>8, <1>9, <1>10, <1>11, ClearedSound DEF Sound

-------------------------------------------------------------------------------
(* The steps: what becomes of the sessions. *)

SessionsSound ==
  /\ session \in [Members -> Session]
  /\ \A m \in Members : Sound(session[m])

LEMMA SessionReplaced ==
  ASSUME SessionsSound, UNCHANGED sheetFixed, NEW m \in Members, NEW t \in Session, Sound(t),
         session' = [session EXCEPT ![m] = t]
  PROVE  SessionsSound'
<1>1. kind' = kind /\ locks' = locks
  BY DEF sheetFixed
<1>2. Session' = Session
  BY <1>1 DEF Session, SessionsOf
<1>3. session' \in [Members -> Session]
  BY DEF SessionsSound
<1>4. ASSUME NEW n \in Members PROVE Sound(session[n])'
  <2>1. session'[n] = t \/ session'[n] = session[n]
    BY DEF SessionsSound
  <2>2. Sound(session[n])
    BY DEF SessionsSound
  <2>3. Sound(session'[n])
    BY <2>1, <2>2
  <2> QED BY <1>1, <2>3 DEF Sound
<1> QED BY <1>2, <1>3, <1>4 DEF SessionsSound

LEMMA SessionsUntouched ==
  ASSUME SessionsSound, UNCHANGED sheetFixed, UNCHANGED session PROVE SessionsSound'
BY DEF SessionsSound, Session, SessionsOf, Sound, sheetFixed

LEMMA OpeningSound ==
  ASSUME SheetInv, SessionsSound, UNCHANGED sheetFixed, NEW m \in Members,
         Open(m) \/ Fetch(m) \/ Loaded(m) \/ Close(m)
  PROVE  SessionsSound'
<1>1. SheetShape /\ disk \in Sheets
  BY DEF SheetInv, SheetShape
<1>2. CASE Open(m) \/ Close(m)
  <2>1. session' = [session EXCEPT ![m] = Fresh(<<>>, {})]
    BY <1>2 DEF Open, Close
  <2>2. Fresh(<<>>, {}) \in Session /\ Sound(Fresh(<<>>, {}))
    BY <1>1, EmptySheet, FreshSound
  <2> QED BY <2>1, <2>2, SessionReplaced
<1>3. CASE Fetch(m)
  <2>1. session' = [session EXCEPT ![m] = Fresh(disk, InFlight(m))]
    BY <1>3 DEF Fetch
  <2>2. InFlight(m) \in SUBSET Nat
    <3>1. DOMAIN saves \subseteq Nat
      BY <1>1 DEF SheetShape
    <3> QED BY <3>1 DEF InFlight
  <2>3. Fresh(disk, InFlight(m)) \in Session /\ Sound(Fresh(disk, InFlight(m)))
    BY <1>1, <2>2, FreshSound
  <2> QED BY <2>1, <2>3, SessionReplaced
<1>4. CASE Loaded(m)
  BY <1>4, SessionsUntouched DEF Loaded
<1> QED BY <1>2, <1>3, <1>4

LEMMA EditingSound ==
  ASSUME SheetInv, SessionsSound, UNCHANGED sheetFixed, NEW m \in Members, NEW c \in Cards,
         Edit(m, c) \/ Remove(m, c)
  PROVE  SessionsSound'
<1> DEFINE s == session[m]
<1>1. s \in Session /\ Sound(s)
  BY DEF SessionsSound
<1>2. s.data \in Sheets /\ DOMAIN s.data \in SUBSET Cards /\ s.data \in [DOMAIN s.data -> Contents]
  BY <1>1, SessionSheets, SheetParts
<1>3. ASSUME NEW data \in Sheets, Differ(s.data, data) \subseteq {c},
             session' = [session EXCEPT ![m] = Changed(s, data, c)]
      PROVE  SessionsSound'
  <2>1. Changed(s, data, c) \in Session /\ Sound(Changed(s, data, c))
    BY <1>1, <1>3, ChangedSound
  <2> QED BY <1>3, <2>1, SessionReplaced
<1>4. CASE Edit(m, c)
  <2> DEFINE data == [s.data EXCEPT ![c].look = tally.edits]
  <2>1. tally.edits \in Nat
    BY DEF SheetInv, SheetShape
  <2>2. data \in [DOMAIN s.data -> Contents]
    BY <1>2, <2>1 DEF Contents
  <2>3. data \in Sheets
    BY <1>2, <2>2, SheetOf
  <2>4. DOMAIN data = DOMAIN s.data /\ \A d \in DOMAIN s.data \ {c} : data[d] = s.data[d]
    BY <1>2
  <2>5. session' = [session EXCEPT ![m] = Changed(s, data, c)]
    BY <1>4 DEF Edit
  <2> HIDE DEF data
  <2>6. Differ(s.data, data) \subseteq {c}
    BY <2>4 DEF Differ, Same
  <2> QED BY <1>3, <2>3, <2>5, <2>6
<1>5. CASE Remove(m, c)
  <2> DEFINE data == Restrict(s.data, DOMAIN s.data \ {c})
  <2>1. data \in Sheets
    BY <1>2, RestrictedSheet
  <2>2. Differ(s.data, data) \subseteq {c}
    BY DEF Differ, Same, Restrict
  <2>3. session' = [session EXCEPT ![m] = Changed(s, data, c)]
    BY <1>5 DEF Remove
  <2> HIDE DEF data
  <2> QED BY <1>3, <2>1, <2>2, <2>3
<1> QED BY <1>4, <1>5

LEMMA TurningSound ==
  ASSUME SheetInv, SessionsSound, UNCHANGED sheetFixed, NEW m \in Members, Undo(m) \/ Redo(m)
  PROVE  SessionsSound'
<1> DEFINE s == session[m]
<1>1. s \in Session /\ Sound(s)
  BY DEF SessionsSound
<1>2. PICK t \in Session : Sound(t) /\ session' = [session EXCEPT ![m] = t]
  <2>1. CASE Undo(m)
    BY <1>1, <2>1, UndoSound DEF Undo
  <2>2. CASE Redo(m)
    BY <1>1, <2>2, RedoSound DEF Redo
  <2> QED BY <2>1, <2>2
<1> QED BY <1>2, SessionReplaced

LEMMA TalkingSound ==
  ASSUME SheetInv, SessionsSound, UNCHANGED sheetFixed, NEW m \in Members,
         NEW c \in DOMAIN locks, Ask(m, c) \/ Reply(m, c)
  PROVE  SessionsSound'
<1> DEFINE s == session[m]
           said == Spoken(s, c, tally.said)
<1>1. s \in Session /\ Sound(s) /\ c \in Cards /\ tally.said \in Nat
  BY DEF SessionsSound, SheetInv, SheetShape
<1>2. said \in Session /\ Sound(said)
  BY <1>1, SpokenSound
<1> HIDE DEF said
<1>3. PICK r \in SUBSET DOMAIN locks : session' = [session EXCEPT ![m] = [said EXCEPT !.running = r]]
  <2>1. CASE Ask(m, c)
    BY <2>1 DEF Ask, said
  <2>2. CASE Reply(m, c)
    BY <2>2 DEF Reply, said
  <2> QED BY <2>1, <2>2
<1>4. [said EXCEPT !.running = r] \in Session /\ Sound([said EXCEPT !.running = r])
  BY <1>2, RunningSound
<1> QED BY <1>3, <1>4, SessionReplaced

LEMMA SavingSound ==
  ASSUME SheetInv, SessionsSound, UNCHANGED sheetFixed, NEW m \in Members,
         Arm(m) \/ Tick(m) \/ Flush(m)
  PROVE  SessionsSound'
<1> DEFINE s == session[m]
<1>1. s \in Session /\ Sound(s)
  BY DEF SessionsSound
<1>2. ASSUME NEW b \in BOOLEAN, session' = [session EXCEPT ![m].armed = b] PROVE SessionsSound'
  <2>1. [s EXCEPT !.armed = b] \in Session /\ Sound([s EXCEPT !.armed = b])
    BY <1>1, RunningSound
  <2> QED BY <1>2, <2>1, SessionReplaced
<1>3. CASE Arm(m)
  BY <1>2, <1>3 DEF Arm
<1>4. CASE Tick(m)
  BY <1>2, <1>4 DEF Tick
<1>5. CASE Flush(m)
  BY <1>5, SessionsUntouched DEF Flush
<1> QED BY <1>3, <1>4, <1>5

LEMMA AnsweringSound ==
  ASSUME SheetInv, SessionsSound, UNCHANGED sheetFixed, NEW i \in DOMAIN saves,
         Land(i) \/ Ack(i) \/ Fail(i)
  PROVE  SessionsSound'
<1>1. CASE Land(i) \/ Fail(i)
  BY <1>1, SessionsUntouched DEF Land, Fail
<1>2. CASE Ack(i)
  <2> DEFINE m == saves[i].by
             t == IF Opened(m) THEN Settled(session[m], saves[i]) ELSE session[m]
  <2>1. saves[i] \in Saves
    BY DEF SheetInv, SheetShape
  <2>2. m \in Members
    BY <2>1 DEF Saves
  <2>3. session[m] \in Session /\ Sound(session[m])
    BY <2>2 DEF SessionsSound
  <2>4. t \in Session /\ Sound(t)
    BY <2>1, <2>3, SettledSound
  <2>5. session' = [session EXCEPT ![m] = t]
    BY <1>2 DEF Ack
  <2> HIDE DEF m, t
  <2> QED BY <2>2, <2>4, <2>5, SessionReplaced
<1> QED BY <1>1, <1>2

LEMMA ReceivingSound ==
  ASSUME SheetInv, SessionsSound, UNCHANGED sheetFixed, NEW m \in Members,
         Receive(m) \/ Cut(m) \/ Link(m)
  PROVE  SessionsSound'
<1>1. CASE Cut(m) \/ Link(m)
  BY <1>1, SessionsUntouched DEF Cut, Link
<1>2. CASE Receive(m)
  <2> DEFINE frame == Head(inbox[m])
             t == Merge(session[m], frame.patch)
  <2>1. frame.patch \in Patches
    <3>1. inbox[m] \in Seq(Frames) /\ inbox[m] # <<>>
      BY <1>2 DEF SheetInv, SheetShape, Receive
    <3>2. frame \in Frames
      BY <3>1
    <3> QED BY <3>2 DEF Frames
  <2>2. session[m] \in Session /\ Sound(session[m]) /\ kind \in {"canvas", "table"}
    BY DEF SessionsSound, SheetInv, SheetShape
  <2>3. t \in Session /\ Sound(t)
    BY <2>1, <2>2, CanvasSound, TableSound
  <2>4. session' = [session EXCEPT ![m] = t] \/ session' = session
    BY <1>2 DEF Receive
  <2> HIDE DEF t
  <2> QED BY <2>3, <2>4, SessionReplaced, SessionsUntouched
<1> QED BY <1>1, <1>2

LEMMA SessionsStaySound ==
  ASSUME SheetInv, [SheetNext]_sheetVars PROVE SessionsSound'
<1>1. SessionsSound
  BY DEF SheetInv, SheetShape, SessionsSound, Session
<1>2. CASE UNCHANGED sheetVars
  BY <1>1, <1>2, SessionsUntouched DEF sheetVars
<1>3. CASE SheetNext
  <2>1. UNCHANGED sheetFixed /\ SheetStep
    BY <1>3 DEF SheetNext
  <2> QED BY <1>1, <2>1, OpeningSound, EditingSound, TurningSound, TalkingSound, SavingSound,
             AnsweringSound, ReceivingSound DEF SheetStep
<1> QED BY <1>2, <1>3

-------------------------------------------------------------------------------
(* The steps: the types of all else. *)

(* The file, the saves, the frames and the history. *)
OutsideShape ==
  /\ disk \in Sheets
  /\ stage \in [Members -> {"closed", "loading", "fetched", "open"}]
  /\ saves \in Seq(Saves)
  /\ linked \subseteq Members
  /\ inbox \in [Members -> Seq(Frames)]
  /\ tally \in [{"edits", "said", "left", "faults"} -> Nat]
  /\ known \in [Members -> SUBSET (DOMAIN saves)]
  /\ \A m \in Members : \A k \in DOMAIN inbox[m] : inbox[m][k].save \in DOMAIN saves
  /\ missed \in [Members -> SUBSET Cards]
  /\ contested \subseteq Cards
  /\ written \subseteq Nat

LEMMA SubmitShape ==
  ASSUME SheetShape, NEW m \in Members, NEW s \in Session, NEW old \in Seq(Saves),
         Len(old) = Len(saves), NEW flush \in BOOLEAN, Submit(m, s, old, flush)
  PROVE  /\ saves' \in Seq(Saves) /\ DOMAIN saves \subseteq DOMAIN saves'
         /\ known' \in [Members -> SUBSET (DOMAIN saves')]
         /\ contested' \subseteq Cards
<1> DEFINE patch == Diff(s.saved, s.data)
           save == [by |-> m, patch |-> patch, frozen |-> s.data,
                    flush |-> flush, landed |-> FALSE, settled |-> FALSE,
                    cards |-> Touches(patch), knew |-> known[m] \ Waiting(m)]
           under == {i \in DOMAIN old : old[i].by = m /\ ~old[i].settled}
<1>1. s.data \in Sheets /\ s.saved \in Sheets /\ s.adrift \subseteq Cards
  BY DEF Session, SessionsOf
<1>2. patch \in Patches
  BY <1>1, DiffPatch
<1>3. Touches(patch) \subseteq Cards
  BY <1>1, <1>2, Applied
<1>4. known[m] \subseteq Nat
  <2>1. DOMAIN saves \subseteq Nat
    BY DEF SheetShape
  <2> QED BY <2>1 DEF SheetShape
<1> HIDE DEF patch
<1>5. save \in Saves
  BY <1>1, <1>2, <1>3, <1>4 DEF Saves
<1>6. saves' = Append(old, save) /\ known' = [known EXCEPT ![m] = @ \cup {Len(old) + 1}]
  BY DEF Submit, patch
<1>7. contested' \subseteq Cards
  <2>1. \A i \in DOMAIN old : old[i].cards \subseteq Cards
    <3>1. \A i \in DOMAIN old : old[i] \in Saves
      OBVIOUS
    <3> QED BY <3>1 DEF Saves
  <2>2. contested' = contested \cup {c \in s.adrift : Same(s.data, s.saved, c)}
          \cup (IF under = {} THEN {} ELSE save.cards \cup UNION {old[i].cards : i \in under})
    BY DEF Submit, patch
  <2>3. contested \subseteq Cards
    BY DEF SheetShape
  <2>4. save.cards \subseteq Cards
    BY <1>3
  <2> HIDE DEF save
  <2> QED BY <1>1, <2>1, <2>2, <2>3, <2>4
<1> HIDE DEF save
<1>8. /\ saves' \in Seq(Saves)
      /\ DOMAIN saves = 1..Len(old) /\ DOMAIN saves' = 1..(Len(old) + 1) /\ Len(old) \in Nat
  <2>1. saves \in Seq(Saves)
    BY DEF SheetShape
  <2> QED BY <1>5, <1>6, <2>1
<1>9. known' \in [Members -> SUBSET (DOMAIN saves')]
  <2>1. known \in [Members -> SUBSET (1..Len(old))]
    BY <1>8 DEF SheetShape
  <2>2. \A n \in Members : known'[n] \subseteq known[n] \cup {Len(old) + 1}
    BY <1>6, <2>1
  <2>3. 1..Len(old) \subseteq 1..(Len(old) + 1) /\ Len(old) + 1 \in 1..(Len(old) + 1)
    BY <1>8
  <2>4. \A n \in Members : known'[n] \subseteq 1..(Len(old) + 1)
    BY <2>1, <2>2, <2>3
  <2>5. known' \in [Members -> SUBSET (1..(Len(old) + 1))]
    BY <1>6, <2>1, <2>4
  <2> QED BY <1>8, <2>5
<1>10. DOMAIN saves \subseteq DOMAIN saves'
  BY <1>8
<1> QED BY <1>7, <1>8, <1>9, <1>10

(* A save is marked, and stays one of the saves. *)
LEMMA MarkedSaves ==
  ASSUME SheetShape, NEW i \in DOMAIN saves
  PROVE  /\ [saves EXCEPT ![i] = Over(@)] \in Seq(Saves)
         /\ Len([saves EXCEPT ![i] = Over(@)]) = Len(saves)
         /\ DOMAIN [saves EXCEPT ![i] = Over(@)] = DOMAIN saves
         /\ [saves EXCEPT ![i] = Landed(@)] \in Seq(Saves)
         /\ DOMAIN [saves EXCEPT ![i] = Landed(@)] = DOMAIN saves
<1>1. saves \in Seq(Saves) /\ saves[i] \in Saves
  BY DEF SheetShape
<1>2. Over(saves[i]) \in Saves
  BY <1>1, EmptySheet DEF Over, Saves
<1>3. NoPatch \in Patches
  BY EmptySheet DEF NoPatch, Patches
<1>4. Landed(saves[i]) \in Saves
  BY <1>1, <1>3 DEF Landed, Saves
<1> QED BY <1>1, <1>2, <1>4

LEMMA SheetsApart ==
  ASSUME SheetShape
  PROVE  /\ OutsideShape
         /\ \A m \in Members : session[m] \in Session
         /\ \A i \in DOMAIN saves : /\ saves[i] \in Saves /\ saves[i].cards \subseteq Cards
                                    /\ saves[i].by \in Members /\ saves[i].patch \in Patches
         /\ DOMAIN saves \subseteq Nat
<1>1. \A i \in DOMAIN saves : saves[i] \in Saves
  BY DEF SheetShape
<1>2. DOMAIN saves \subseteq Nat
  BY DEF SheetShape
<1> QED BY <1>1, <1>2 DEF SheetShape, OutsideShape, Session, Saves

LEMMA CountShape ==
  ASSUME NEW field \in {"edits", "said", "left", "faults"},
         tally \in [{"edits", "said", "left", "faults"} -> Nat], tally[field] > 0,
         tally' = Count(field)
  PROVE  tally' \in [{"edits", "said", "left", "faults"} -> Nat]
BY DEF Count

LEMMA LeaveShape ==
  ASSUME SheetShape, NEW m \in Members, Leave(m)
  PROVE  tally' \in [{"edits", "said", "left", "faults"} -> Nat] /\ contested' \subseteq Cards
<1>1. tally' \in [{"edits", "said", "left", "faults"} -> Nat]
  BY CountShape DEF Leave, SheetShape
<1>2. contested' \subseteq Cards
  BY SheetsApart DEF Leave, InFlight, OutsideShape
<1> QED BY <1>1, <1>2

LEMMA MembersKeepShape ==
  ASSUME SheetShape, NEW m \in Members,
         Open(m) \/ Fetch(m) \/ Loaded(m) \/ Close(m) \/ Undo(m) \/ Redo(m) \/ Arm(m) \/ Link(m)
  PROVE  OutsideShape'
<1> USE DEF OutsideShape
<1>1. OutsideShape
  BY SheetsApart
<1>2. CASE Open(m)
  BY <1>1, <1>2, LeaveShape DEF Open
<1>3. CASE Fetch(m)
  <2>1. \A n \in Members : known'[n] \subseteq DOMAIN saves
    BY <1>1, <1>3 DEF Fetch
  <2>2. known' \in [Members -> SUBSET (DOMAIN saves)]
    BY <1>1, <1>3, <2>1 DEF Fetch
  <2> QED BY <1>1, <1>3, <2>2 DEF Fetch
<1>4. CASE Loaded(m)
  BY <1>1, <1>4 DEF Loaded, sheetHistory
<1>5. CASE Close(m)
  BY <1>1, <1>5, LeaveShape DEF Close
<1>6. CASE Undo(m)
  BY <1>1, <1>6 DEF Undo, sheetHistory
<1>7. CASE Redo(m)
  BY <1>1, <1>7 DEF Redo, sheetHistory
<1>8. CASE Arm(m)
  BY <1>1, <1>8 DEF Arm, sheetHistory
<1>9. CASE Link(m)
  BY <1>1, <1>9 DEF Link, sheetHistory
<1> QED BY <1>2, <1>3, <1>4, <1>5, <1>6, <1>7, <1>8, <1>9

LEMMA ChangesKeepShape ==
  ASSUME SheetShape, NEW m \in Members, NEW c, Edit(m, c) \/ Remove(m, c) \/ Ask(m, c) \/ Reply(m, c)
  PROVE  OutsideShape'
<1>1. OutsideShape
  BY SheetsApart
<1>2. UNCHANGED <<disk, stage, saves, linked, inbox, sheetHistory>>
  BY DEF Edit, Remove, Ask, Reply
<1>3. tally' \in [{"edits", "said", "left", "faults"} -> Nat]
  BY <1>1, CountShape DEF OutsideShape, Edit, Remove, Ask, Reply
<1> QED BY <1>1, <1>2, <1>3 DEF OutsideShape, sheetHistory

LEMMA SavingKeepsShape ==
  ASSUME SheetShape, NEW m \in Members, Tick(m) \/ Flush(m)
  PROVE  OutsideShape'
<1>1. OutsideShape /\ session[m] \in Session
  BY SheetsApart
<1>2. UNCHANGED <<disk, stage, linked, inbox, tally, missed, written>>
  BY DEF Tick, Flush
<1>3. \/ \E flush \in BOOLEAN : Submit(m, session[m], saves, flush)
      \/ UNCHANGED <<saves, known, contested>>
  BY DEF Tick, Flush
<1>4. /\ saves' \in Seq(Saves) /\ DOMAIN saves \subseteq DOMAIN saves'
      /\ known' \in [Members -> SUBSET (DOMAIN saves')]
      /\ contested' \subseteq Cards
  BY <1>1, <1>3, SubmitShape DEF OutsideShape
<1> QED BY <1>1, <1>2, <1>4 DEF OutsideShape

LEMMA LandKeepsShape ==
  ASSUME SheetShape, NEW i \in DOMAIN saves, Land(i)
  PROVE  OutsideShape'
<1>1. OutsideShape /\ saves[i] \in Saves /\ saves[i].cards \subseteq Cards
      /\ saves[i].by \in Members /\ saves[i].patch \in Patches /\ i \in Nat
  BY SheetsApart
<1>2. saves' \in Seq(Saves) /\ DOMAIN saves' = DOMAIN saves
  BY MarkedSaves DEF Land
<1>3. disk' \in Sheets
  BY <1>1, Applied DEF Land, OutsideShape
<1>4. \A c \in DOMAIN disk' : disk'[c] \in Contents
  BY <1>3, SheetParts
<1>5. written' \subseteq Nat
  BY <1>1, <1>4 DEF Land, OutsideShape, Contents
<1>6. missed' \in [Members -> SUBSET Cards] /\ contested' \subseteq Cards
  BY <1>1 DEF Land, OutsideShape
<1> DEFINE frame == [by |-> saves[i].by, patch |-> saves[i].patch, save |-> i]
<1>7. frame \in Frames
  BY <1>1 DEF Frames
<1>8. ASSUME NEW m \in Members
      PROVE  /\ inbox'[m] \in Seq(Frames)
             /\ \A k \in DOMAIN inbox'[m] : inbox'[m][k].save \in DOMAIN saves
  <2>1. inbox[m] \in Seq(Frames) /\ \A k \in DOMAIN inbox[m] : inbox[m][k].save \in DOMAIN saves
    BY <1>1 DEF OutsideShape
  <2>2. inbox'[m] = inbox[m] \/ inbox'[m] = Append(inbox[m], frame)
    BY DEF Land
  <2>3. frame.save = i
    OBVIOUS
  <2> HIDE DEF frame
  <2>4. CASE inbox'[m] = Append(inbox[m], frame)
    <3>1. inbox'[m] \in Seq(Frames) /\ DOMAIN inbox'[m] = DOMAIN inbox[m] \cup {Len(inbox[m]) + 1}
      BY <1>7, <2>1, <2>4
    <3>2. inbox'[m][Len(inbox[m]) + 1] = frame /\ \A k \in DOMAIN inbox[m] : inbox'[m][k] = inbox[m][k]
      BY <1>7, <2>1, <2>4
    <3> QED BY <2>1, <2>3, <3>1, <3>2
  <2> QED BY <2>1, <2>2, <2>4
<1>9. inbox' \in [Members -> Seq(Frames)]
  BY <1>8 DEF Land
<1>10. UNCHANGED <<stage, linked, tally, known>>
  BY DEF Land
<1> QED BY <1>1, <1>2, <1>3, <1>5, <1>6, <1>8, <1>9, <1>10 DEF OutsideShape

LEMMA AckKeepsShape ==
  ASSUME SheetInv, NEW i \in DOMAIN saves, Ack(i)
  PROVE  OutsideShape'
<1> DEFINE m == saves[i].by
           s == IF Opened(m) THEN Settled(session[m], saves[i]) ELSE session[m]
           done == [saves EXCEPT ![i] = Over(@)]
<1>1. /\ SheetShape /\ OutsideShape
      /\ saves[i] \in Saves /\ m \in Members /\ session[m] \in Session /\ Sound(session[m])
      /\ saves[i].flush \in BOOLEAN
  BY SheetsApart DEF SheetInv, Saves
<1>2. s \in Session
  BY <1>1, SettledSound
<1>3. done \in Seq(Saves) /\ Len(done) = Len(saves) /\ DOMAIN done = DOMAIN saves
  BY <1>1, MarkedSaves
<1>4. \/ Submit(m, s, done, TRUE)
      \/ saves' = done /\ contested' = contested \cup Mistaken(m, i) /\ UNCHANGED known
  BY DEF Ack
<1>5. Mistaken(m, i) \subseteq Cards
  BY <1>1, SessionSheets DEF Mistaken
<1> HIDE DEF m, s, done
<1>6. /\ saves' \in Seq(Saves) /\ DOMAIN saves \subseteq DOMAIN saves'
      /\ known' \in [Members -> SUBSET (DOMAIN saves')]
      /\ contested' \subseteq Cards
  <2>1. CASE Submit(m, s, done, TRUE)
    BY <1>1, <1>2, <1>3, <2>1, SubmitShape
  <2>2. CASE saves' = done /\ contested' = contested \cup Mistaken(m, i) /\ UNCHANGED known
    BY <1>1, <1>3, <1>5, <2>2 DEF OutsideShape
  <2> QED BY <1>4, <2>1, <2>2
<1>7. UNCHANGED <<disk, stage, linked, inbox, tally, missed, written>>
  BY DEF Ack
<1> QED BY <1>1, <1>6, <1>7 DEF OutsideShape

LEMMA FailKeepsShape ==
  ASSUME SheetShape, NEW i \in DOMAIN saves, Fail(i)
  PROVE  OutsideShape'
<1>1. OutsideShape /\ saves[i].cards \subseteq Cards
  BY SheetsApart
<1>2. saves' \in Seq(Saves) /\ DOMAIN saves' = DOMAIN saves
  BY MarkedSaves DEF Fail
<1>3. tally' \in [{"edits", "said", "left", "faults"} -> Nat]
  BY <1>1, CountShape DEF OutsideShape, Fail
<1> QED BY <1>1, <1>2, <1>3 DEF OutsideShape, Fail

LEMMA FramesKeepShape ==
  ASSUME SheetShape, NEW m \in Members, Receive(m) \/ Cut(m)
  PROVE  OutsideShape'
<1>1. OutsideShape /\ inbox[m] \in Seq(Frames)
      /\ \A k \in DOMAIN inbox[m] : inbox[m][k].save \in DOMAIN saves
  BY SheetsApart DEF OutsideShape
<1>2. \A k \in DOMAIN inbox[m] : Touches(inbox[m][k].patch) \subseteq Cards
  <2>1. \A k \in DOMAIN inbox[m] : inbox[m][k] \in Frames
    BY <1>1
  <2>2. \A k \in DOMAIN inbox[m] : inbox[m][k].patch \in Patches
    BY <2>1 DEF Frames
  <2> QED BY <2>2, EmptySheet, Applied
<1>3. CASE Cut(m)
  <2>1. tally' \in [{"edits", "said", "left", "faults"} -> Nat]
    BY <1>1, <1>3, CountShape DEF OutsideShape, Cut
  <2>2. missed' \in [Members -> SUBSET Cards]
    BY <1>1, <1>2, <1>3 DEF OutsideShape, Cut
  <2>3. inbox' = [inbox EXCEPT ![m] = <<>>] /\ <<>> \in Seq(Frames) /\ DOMAIN <<>> = {}
    BY <1>3 DEF Cut
  <2>4. /\ inbox' \in [Members -> Seq(Frames)]
        /\ \A n \in Members : \A k \in DOMAIN inbox'[n] : inbox'[n][k].save \in DOMAIN saves
    BY <1>1, <2>3 DEF OutsideShape
  <2> QED BY <1>1, <1>3, <2>1, <2>2, <2>4 DEF OutsideShape, Cut
<1>4. CASE Receive(m)
  <2> DEFINE frame == Head(inbox[m])
             rest == Tail(inbox[m])
  <2>1. /\ frame = inbox[m][1] /\ 1 \in DOMAIN inbox[m]
        /\ rest \in Seq(Frames)
        /\ \A k \in DOMAIN rest : k + 1 \in DOMAIN inbox[m] /\ rest[k] = inbox[m][k + 1]
    BY <1>1, <1>4 DEF Receive
  <2>2. frame.save \in DOMAIN saves /\ Touches(frame.patch) \subseteq Cards
    BY <1>1, <1>2, <2>1
  <2>3. \A k \in DOMAIN rest : rest[k].save \in DOMAIN saves
    BY <1>1, <2>1
  <2>4. /\ inbox' = [inbox EXCEPT ![m] = rest]
        /\ known' = [known EXCEPT ![m] = @ \cup {frame.save}]
        /\ missed'[m] \subseteq missed[m] \cup Touches(frame.patch)
        /\ missed' = [missed EXCEPT ![m] = missed'[m]]
    BY <1>1, <1>4 DEF Receive, OutsideShape
  <2>5. UNCHANGED <<disk, stage, saves, linked, tally, contested, written>>
    BY <1>4 DEF Receive
  <2> HIDE DEF frame, rest
  <2>6. missed' \in [Members -> SUBSET Cards]
    BY <1>1, <2>2, <2>4 DEF OutsideShape
  <2>7. known' \in [Members -> SUBSET (DOMAIN saves)]
    BY <1>1, <2>2, <2>4 DEF OutsideShape
  <2>8. /\ inbox' \in [Members -> Seq(Frames)]
        /\ \A n \in Members : \A k \in DOMAIN inbox'[n] : inbox'[n][k].save \in DOMAIN saves
    BY <1>1, <2>1, <2>3, <2>4 DEF OutsideShape
  <2> QED BY <1>1, <2>5, <2>6, <2>7, <2>8 DEF OutsideShape
<1> QED BY <1>3, <1>4

LEMMA ShapeParts ==
  SheetShape <=> /\ kind \in {"canvas", "table"} /\ DOMAIN locks \subseteq Cards
                 /\ OutsideShape /\ session \in [Members -> Session]
BY DEF SheetShape, OutsideShape, Session

LEMMA SheetStarts == SheetInit => SheetInv
<1> SUFFICES ASSUME SheetInit PROVE SheetInv
  OBVIOUS
<1>1. PICK budget \in Budgets, chats \in SUBSET Cards :
        /\ locks \in [chats -> Members]
        /\ kind = budget.kind
        /\ tally = Restrict(budget, {"edits", "said", "left", "faults"})
  BY DEF SheetInit
<1>2. budget \in [kind : {"canvas", "table"}, chats : Nat,
                  edits : Nat, said : Nat, left : Nat, faults : Nat]
  BY SheetAssumption
<1>3. kind \in {"canvas", "table"} /\ DOMAIN locks \subseteq Cards
  BY <1>1, <1>2
<1>4. tally \in [{"edits", "said", "left", "faults"} -> Nat]
  BY <1>1, <1>2 DEF Restrict
<1>5. disk \in Sheets
  <2>1. disk \in [Cards -> Contents]
    BY DEF SheetInit, Content, Contents
  <2> QED BY <2>1, SheetOf
<1>6. saves = <<>> /\ saves \in Seq(Saves) /\ DOMAIN saves = {}
  BY DEF SheetInit
<1>7. /\ inbox \in [Members -> Seq(Frames)]
      /\ \A m \in Members : \A k \in DOMAIN inbox[m] : inbox[m][k].save \in DOMAIN saves
  BY DEF SheetInit
<1>8. OutsideShape
  BY <1>4, <1>5, <1>6, <1>7 DEF SheetInit, OutsideShape
<1>9. Fresh(disk, {}) \in Session /\ Sound(Fresh(disk, {}))
  BY <1>5, FreshSound
<1>10. session \in [Members -> Session] /\ \A m \in Members : Sound(session[m])
  BY <1>9 DEF SheetInit
<1> QED BY <1>3, <1>8, <1>10, ShapeParts DEF SheetInv

LEMMA SheetInvStep == SheetInv /\ [SheetNext]_sheetVars => SheetInv'
<1> SUFFICES ASSUME SheetInv, [SheetNext]_sheetVars PROVE SheetInv'
  OBVIOUS
<1>1. SheetShape /\ OutsideShape
  BY SheetsApart DEF SheetInv
<1>2. OutsideShape'
  <2>1. CASE UNCHANGED sheetVars
    BY <1>1, <2>1 DEF OutsideShape, sheetVars, sheetHistory
  <2>2. CASE SheetNext
    BY <1>1, <2>2, MembersKeepShape, ChangesKeepShape, SavingKeepsShape, LandKeepsShape,
       AckKeepsShape, FailKeepsShape, FramesKeepShape DEF SheetNext, SheetStep
  <2> QED BY <2>1, <2>2
<1>3. UNCHANGED sheetFixed
  BY DEF SheetNext, sheetVars
<1>4. kind' \in {"canvas", "table"} /\ DOMAIN locks' \subseteq Cards
  BY <1>1, <1>3 DEF SheetShape, sheetFixed
<1>5. SessionsSound'
  BY SessionsStaySound
<1>6. (session \in [Members -> Session] /\ \A m \in Members : Sound(session[m]))'
  BY <1>5 DEF SessionsSound
<1>7. SheetShape'
  BY <1>2, <1>4, <1>6 DEF SheetShape, OutsideShape, Session
<1> QED BY <1>6, <1>7 DEF SheetInv

(* The inductive invariant of a shared sheet.                                              *)
THEOREM SheetsTracked == SheetSpec => []SheetInv
BY SheetStarts, SheetInvStep, PTL DEF SheetSpec

(* The variables keep their types; neither stack of snapshots outgrows its bound.          *)
THEOREM SheetsTyped == SheetSpec => []SheetTypeOK
<1>1. SheetInv => SheetTypeOK
  <2> SUFFICES ASSUME SheetInv PROVE SheetTypeOK
    OBVIOUS
  <2>1. SheetShape /\ OutsideShape
    BY SheetsApart DEF SheetInv
  <2>2. \A f \in Sheets : IsSheet(f)
    BY SheetParts DEF IsSheet, Contents
  <2>3. ASSUME NEW m \in Members
        PROVE  LET s == session[m]
               IN /\ IsSheet(s.data) /\ IsSheet(s.saved)
                  /\ {s.dirty, s.armed} \subseteq BOOLEAN
                  /\ Len(s.undo) <= UndoDepth /\ Len(s.redo) <= UndoDepth
                  /\ s.running \subseteq DOMAIN locks /\ s.own \subseteq Cards /\ s.said \subseteq Nat
    <3> DEFINE s == session[m]
    <3>1. s \in Session
      BY <2>1, SheetsApart
    <3> HIDE DEF s
    <3>2. IsSheet(s.data) /\ IsSheet(s.saved)
      BY <2>2, <3>1, SessionSheets
    <3>3. Len(s.undo) <= UndoDepth /\ Len(s.redo) <= UndoDepth
      BY <3>1, SessionStacks
    <3>4. s.dirty \in BOOLEAN /\ s.armed \in BOOLEAN
      BY <3>1 DEF Session, SessionsOf
    <3>5. s.running \subseteq DOMAIN locks /\ s.own \subseteq Cards /\ s.said \subseteq Nat
      BY <3>1 DEF Session, SessionsOf
    <3> QED BY <3>2, <3>3, <3>4, <3>5 DEF s
  <2>4. IsSheet(disk)
    BY <2>1, <2>2 DEF SheetShape
  <2> QED BY <2>1, <2>3, <2>4 DEF SheetTypeOK, OutsideShape
<1> QED BY <1>1, SheetsTracked, PTL

(* A session without unsaved changes is its baseline (on_canvas_patch_done,                *)
(* on_remote_canvas_patch, on_remote_table_patch).                                          *)
THEOREM CleanSessionsAreSaved == SheetSpec => []CleanIsSaved
<1>1. SheetInv => CleanIsSaved
  BY DEF SheetInv, Sound, CleanIsSaved
<1> QED BY <1>1, SheetsTracked, PTL

(* What a canvas would send is what its member changed (apply_remote_patch, undo, redo).   *)
THEOREM CanvasesSendTheirOwn == SheetSpec => []OnlyOwnChanges
<1>1. SheetInv => OnlyOwnChanges
  <2> SUFFICES ASSUME SheetInv, NEW m \in Members, kind = "canvas"
               PROVE  Touches(Diff(session[m].saved, session[m].data)) \subseteq session[m].own
    BY DEF OnlyOwnChanges
  <2>1. session[m] \in Session /\ Sound(session[m])
    BY SheetsApart DEF SheetInv
  <2>2. Touches(Diff(session[m].saved, session[m].data)) = Differ(session[m].saved, session[m].data)
    BY <2>1, SessionSheets, DiffTouches
  <2> QED BY <2>1, <2>2 DEF Sound
<1> QED BY <1>1, SheetsTracked, PTL

-------------------------------------------------------------------------------
(* Messages: what a session may lose is in the file. *)

(* Only conversation cards have messages, and none of them is ever removed. *)
Whole(f, chats) ==
  /\ chats \subseteq DOMAIN f
  /\ \A c \in DOMAIN f \ chats : f[c].msgs = {}

Sparing(patch, chats) ==
  /\ patch.cut \cap chats = {}
  /\ \A c \in DOMAIN patch.put \ chats : patch.put[c].msgs = {}

WholeStack(stack, chats) == \A k \in DOMAIN stack : Whole(stack[k].data, chats)

(* Every message of f was in the file. *)
Filed(f, past) == \A c \in DOMAIN f : f[c].msgs \subseteq past

(* The baseline has no message that was not in the file. *)
Kept(s, chats, past) ==
  /\ Whole(s.data, chats)
  /\ Filed(s.saved, past)
  /\ WholeStack(s.undo, chats)
  /\ WholeStack(s.redo, chats)
  /\ \A k \in s.said : k \in past \/ \E c \in DOMAIN s.data : k \in s.data[c].msgs

(* What is frozen becomes a baseline once it has landed. *)
Pending(save, past) ==
  \A c \in DOMAIN save.frozen :
    \/ save.frozen[c].msgs \subseteq past
    \/ ~save.landed /\ c \in DOMAIN save.patch.put /\ save.patch.put[c] = save.frozen[c]

SessionsKept ==
  \A m \in Members :
    /\ stage[m] \in {"fetched", "open"} => Kept(session[m], DOMAIN locks, written)
    /\ stage[m] \in {"closed", "loading"} => ~session[m].dirty

SavesKept ==
  \A i \in DOMAIN saves : /\ Sparing(saves[i].patch, DOMAIN locks)
                          /\ Pending(saves[i], written)

FramesKept ==
  \A m \in Members : \A k \in DOMAIN inbox[m] :
    /\ Sparing(inbox[m][k].patch, DOMAIN locks)
    /\ Filed(inbox[m][k].patch.put, written)

SaidInv ==
  /\ kind = "table" => DOMAIN locks = {}
  /\ Whole(disk, DOMAIN locks) /\ Filed(disk, written)
  /\ SessionsKept /\ SavesKept /\ FramesKept

LEMMA StackMarked ==
  ASSUME NEW stack \in Seq(Snapshots), NEW c \in Cards, NEW chats, WholeStack(stack, chats)
  PROVE  WholeStack(Marking(stack, c), chats)
<1>1. DOMAIN Marking(stack, c) = DOMAIN stack
  BY DEF Marking
<1>2. \A k \in DOMAIN stack : Marking(stack, c)[k].data = stack[k].data
  BY MarkedStack
<1> QED BY <1>1, <1>2 DEF WholeStack

LEMMA StackPushed ==
  ASSUME NEW stack \in Seq(Snapshots), NEW snapshot \in Snapshots, NEW chats,
         WholeStack(stack, chats), Whole(snapshot.data, chats)
  PROVE  WholeStack(Append(stack, snapshot), chats)
<1>1. ASSUME NEW k \in DOMAIN Append(stack, snapshot)
      PROVE  Append(stack, snapshot)[k] = snapshot
             \/ (k \in DOMAIN stack /\ Append(stack, snapshot)[k] = stack[k])
  OBVIOUS
<1> QED BY <1>1 DEF WholeStack

LEMMA StackBounded ==
  ASSUME NEW stack \in Seq(Snapshots), NEW chats, WholeStack(stack, chats)
  PROVE  WholeStack(Bounded(stack), chats)
<1>1. CASE Len(stack) > UndoDepth
  <2>1. Len(stack) \in Nat /\ stack # <<>>
    BY <1>1, SheetAssumption
  <2>2. \A k \in DOMAIN Tail(stack) : k + 1 \in DOMAIN stack /\ Tail(stack)[k] = stack[k + 1]
    BY <2>1
  <2>3. Bounded(stack) = Tail(stack)
    BY <1>1 DEF Bounded
  <2> QED BY <2>2, <2>3 DEF WholeStack
<1>2. CASE ~(Len(stack) > UndoDepth)
  BY <1>2 DEF Bounded
<1> QED BY <1>1, <1>2

LEMMA StackPopped ==
  ASSUME NEW stack \in Seq(Snapshots), stack # <<>>, NEW chats, WholeStack(stack, chats)
  PROVE  /\ Whole(stack[Len(stack)].data, chats)
         /\ WholeStack(SubSeq(stack, 1, Len(stack) - 1), chats)
<1> DEFINE rest == SubSeq(stack, 1, Len(stack) - 1)
<1>1. Len(stack) \in Nat \ {0} /\ DOMAIN stack = 1..Len(stack)
  OBVIOUS
<1>2. DOMAIN rest = 1..(Len(stack) - 1) /\ \A k \in DOMAIN rest : rest[k] = stack[k]
  BY <1>1
<1>3. 1..(Len(stack) - 1) \subseteq DOMAIN stack /\ Len(stack) \in DOMAIN stack
  BY <1>1
<1> HIDE DEF rest
<1>4. WholeStack(rest, chats)
  BY <1>2, <1>3 DEF WholeStack
<1> QED BY <1>3, <1>4 DEF WholeStack, rest

LEMMA EmptyStack == \A chats : WholeStack(<<>>, chats)
BY DEF WholeStack

(* push_undo(), then a change that leaves the conversations as they are. *)
LEMMA ChangedKept ==
  ASSUME NEW s \in Session, NEW c \in Cards, NEW chats, NEW past, Kept(s, chats, past),
         NEW data, Whole(data, chats), \A d \in chats : data[d].msgs = s.data[d].msgs
  PROVE  Kept(Changed(s, data, c), chats, past)
<1> DEFINE snapshot == Snapshot(s, {})
           pushed == Append(s.undo, snapshot)
           undo == Bounded(Marking(pushed, c))
           t == Changed(s, data, c)
<1>1. s.undo \in Seq(Snapshots) /\ s.data \in Sheets
  BY SessionStacks, SessionSheets
<1>2. snapshot \in Snapshots /\ snapshot.data = s.data
  BY <1>1 DEF Snapshot, Snapshots
<1> HIDE DEF snapshot
<1>3. pushed \in Seq(Snapshots)
  BY <1>1, <1>2, Pushed
<1>4. WholeStack(pushed, chats)
  BY <1>1, <1>2, StackPushed DEF Kept
<1> HIDE DEF pushed
<1>5. Marking(pushed, c) \in Seq(Snapshots) /\ WholeStack(Marking(pushed, c), chats)
  BY <1>3, <1>4, MarkedStack, StackMarked
<1>6. WholeStack(undo, chats)
  BY <1>5, StackBounded
<1>7. /\ t.data = data /\ t.saved = s.saved /\ t.said = s.said
      /\ t.undo = undo /\ t.redo = <<>>
  BY DEF Changed, Touched, Session, SessionsOf, undo, pushed, snapshot
<1> HIDE DEF t, undo
<1>8. \A k \in s.said : k \in past \/ \E d \in DOMAIN data : k \in data[d].msgs
  BY DEF Kept, Whole
<1>9. Kept(t, chats, past)
  BY <1>6, <1>7, <1>8, EmptyStack DEF Kept
<1> QED BY <1>9 DEF t

(* undo(), redo(): the member's messages are those of the snapshot. *)
LEMMA RestoredKept ==
  ASSUME NEW s \in Session, NEW chats, NEW past, Kept(s, chats, past),
         NEW snapshot \in Snapshots, Whole(snapshot.data, chats),
         NEW undo, WholeStack(undo, chats), NEW redo, WholeStack(redo, chats)
  PROVE  Kept([Restored(s, snapshot) EXCEPT !.undo = undo, !.redo = redo], chats, past)
<1> DEFINE t == [Restored(s, snapshot) EXCEPT !.undo = undo, !.redo = redo]
<1>1. /\ t.data = snapshot.data /\ t.saved = s.saved /\ t.undo = undo /\ t.redo = redo
      /\ t.said = s.said \cap UNION {snapshot.data[c].msgs : c \in DOMAIN snapshot.data}
  BY DEF Restored, Touched, Session, SessionsOf
<1> HIDE DEF t
<1>2. Kept(t, chats, past)
  BY <1>1 DEF Kept
<1> QED BY <1>2 DEF t

LEMMA UndoKept ==
  ASSUME NEW s \in Session, s.undo # <<>>, NEW chats, NEW past, Kept(s, chats, past)
  PROVE  LET last == s.undo[Len(s.undo)]
         IN Kept([Restored(s, last) EXCEPT
                    !.undo = SubSeq(s.undo, 1, Len(s.undo) - 1),
                    !.redo = Append(s.redo, Snapshot(s, last.own))], chats, past)
<1> DEFINE last == s.undo[Len(s.undo)]
           rest == SubSeq(s.undo, 1, Len(s.undo) - 1)
           snapshot == Snapshot(s, last.own)
<1>1. s.undo \in Seq(Snapshots) /\ s.redo \in Seq(Snapshots) /\ s.data \in Sheets
  BY SessionStacks, SessionSheets
<1>2. last \in Snapshots /\ Whole(last.data, chats) /\ WholeStack(rest, chats)
  BY <1>1, Popped, StackPopped DEF Kept
<1> HIDE DEF last, rest
<1>3. snapshot \in Snapshots /\ snapshot.data = s.data
  BY <1>1, <1>2 DEF Snapshot, Snapshots
<1> HIDE DEF snapshot
<1>4. WholeStack(Append(s.redo, snapshot), chats)
  BY <1>1, <1>3, StackPushed DEF Kept
<1> QED BY <1>2, <1>4, RestoredKept DEF last, rest, snapshot

LEMMA RedoKept ==
  ASSUME NEW s \in Session, s.redo # <<>>, NEW chats, NEW past, Kept(s, chats, past)
  PROVE  LET last == s.redo[Len(s.redo)]
         IN Kept([Restored(s, last) EXCEPT
                    !.undo = Bounded(Append(s.undo, Snapshot(s, last.own))),
                    !.redo = SubSeq(s.redo, 1, Len(s.redo) - 1)], chats, past)
<1> DEFINE last == s.redo[Len(s.redo)]
           rest == SubSeq(s.redo, 1, Len(s.redo) - 1)
           snapshot == Snapshot(s, last.own)
<1>1. s.undo \in Seq(Snapshots) /\ s.redo \in Seq(Snapshots) /\ s.data \in Sheets
  BY SessionStacks, SessionSheets
<1>2. last \in Snapshots /\ Whole(last.data, chats) /\ WholeStack(rest, chats)
  BY <1>1, Popped, StackPopped DEF Kept
<1> HIDE DEF last, rest
<1>3. snapshot \in Snapshots /\ snapshot.data = s.data
  BY <1>1, <1>2 DEF Snapshot, Snapshots
<1> HIDE DEF snapshot
<1>4. WholeStack(Append(s.undo, snapshot), chats) /\ Append(s.undo, snapshot) \in Seq(Snapshots)
  BY <1>1, <1>3, StackPushed, Pushed DEF Kept
<1>5. WholeStack(Bounded(Append(s.undo, snapshot)), chats)
  BY <1>4, StackBounded
<1> QED BY <1>2, <1>5, RestoredKept DEF last, rest, snapshot

(* upsert_message(), in a conversation. *)
LEMMA SpokenKept ==
  ASSUME NEW s \in Session, NEW chats \in SUBSET Cards, NEW past, Kept(s, chats, past),
         NEW c \in chats, NEW k \in Nat, NEW r
  PROVE  Kept([Spoken(s, c, k) EXCEPT !.running = r], chats, past)
<1> DEFINE data == [s.data EXCEPT ![c].msgs = @ \cup {k}]
           undo == Marking(s.undo, c)
           redo == Marking(s.redo, c)
           t == [Spoken(s, c, k) EXCEPT !.running = r]
<1>1. s.data \in [DOMAIN s.data -> Contents] /\ c \in DOMAIN s.data
  BY SessionSheets, SheetParts DEF Kept, Whole
<1>2. /\ DOMAIN data = DOMAIN s.data
      /\ data[c].msgs = s.data[c].msgs \cup {k}
      /\ \A d \in DOMAIN s.data \ {c} : data[d] = s.data[d]
  BY <1>1 DEF Contents
<1>3. WholeStack(undo, chats) /\ WholeStack(redo, chats)
  BY SessionStacks, StackMarked DEF Kept
<1>4. /\ t.data = data /\ t.saved = s.saved /\ t.undo = undo /\ t.redo = redo
      /\ t.said = s.said \cup {k}
  BY DEF Spoken, Touched, Session, SessionsOf
<1> HIDE DEF data, undo, redo, t
<1>5. Whole(data, chats)
  BY <1>1, <1>2 DEF Kept, Whole
<1>6. ASSUME NEW j \in t.said PROVE j \in past \/ \E d \in DOMAIN data : j \in data[d].msgs
  <2>1. CASE j = k
    BY <1>1, <1>2, <2>1
  <2>2. CASE j \in s.said
    <3>1. j \in past \/ \E d \in DOMAIN s.data : j \in s.data[d].msgs
      BY <2>2 DEF Kept
    <3>2. \A d \in DOMAIN s.data : s.data[d].msgs \subseteq data[d].msgs
      BY <1>2
    <3> QED BY <1>2, <3>1, <3>2
  <2> QED BY <1>4, <2>1, <2>2
<1>7. Kept(t, chats, past)
  BY <1>3, <1>4, <1>5, <1>6 DEF Kept
<1> QED BY <1>7 DEF t

(* Neither an answer being written, nor a deadline, nor the flags matter. *)
LEMMA MarksKept ==
  ASSUME NEW s, NEW t, NEW chats, NEW past, Kept(s, chats, past),
         t.data = s.data, t.saved = s.saved, t.undo = s.undo, t.redo = s.redo, t.said = s.said
  PROVE  Kept(t, chats, past)
BY DEF Kept

(* The answer to a save that landed: what was frozen becomes the baseline. *)
LEMMA SettledKept ==
  ASSUME NEW s \in Session, NEW save \in Saves, NEW chats, NEW past, Kept(s, chats, past),
         save.landed, Pending(save, past)
  PROVE  Kept(Settled(s, save), chats, past)
<1> DEFINE t == Settled(s, save)
<1>1. /\ t.data = s.data /\ t.undo = s.undo /\ t.redo = s.redo /\ t.said = s.said
      /\ t.saved \in {s.saved, save.frozen}
  BY DEF Settled, Session, SessionsOf
<1>2. Filed(save.frozen, past)
  BY DEF Pending, Filed
<1> HIDE DEF t
<1>3. Filed(t.saved, past)
  BY <1>1, <1>2 DEF Kept
<1>4. Kept(t, chats, past)
  BY <1>1, <1>3 DEF Kept
<1> QED BY <1>4 DEF t

LEMMA AppliedWhole ==
  ASSUME NEW f, NEW p, NEW chats, NEW past
  PROVE  /\ Whole(f, chats) /\ Sparing(p, chats) => Whole(Apply(f, p), chats)
         /\ Filed(f, past) /\ Filed(p.put, past) => Filed(Apply(f, p), past)
BY DEF Apply, Whole, Sparing, Filed

(* apply_remote_patch(): messages of a card that came are added to what came when the      *)
(* baseline does not have them as they are; otherwise they were in the file.                *)
LEMMA CanvasKept ==
  ASSUME NEW s \in Session, NEW p \in Patches, NEW past, Kept(s, DOMAIN locks, past),
         Sparing(p, DOMAIN locks), Filed(p.put, past)
  PROVE  LET t == MergeCanvas(s, p)
         IN Kept([t EXCEPT !.undo = <<>>, !.redo = <<>>], DOMAIN locks, past)
<1> DEFINE chats == DOMAIN locks
           came == Apply(s.data, p)
           saved == Apply(s.saved, p)
           kept == Guarded(s, p)
           Both(c) == [came[c] EXCEPT !.msgs = MergeMessages(@, s.data[c].msgs)]
           data == [c \in DOMAIN came |-> IF c \in kept THEN Both(c) ELSE came[c]]
           t == [MergeCanvas(s, p) EXCEPT !.undo = <<>>, !.redo = <<>>]
<1>1. /\ t.data = data /\ t.saved = saved /\ t.undo = <<>> /\ t.redo = <<>> /\ t.said = s.said
  BY DEF MergeCanvas, Session, SessionsOf
<1>2. came \in Sheets
  BY SessionSheets, Applied
<1>3. Whole(came, chats) /\ Filed(saved, past)
  BY AppliedWhole DEF Kept
<1>4. /\ DOMAIN came = DOMAIN p.put \cup (DOMAIN s.data \ p.cut)
      /\ \A c \in DOMAIN came : came[c] = IF c \in DOMAIN p.put THEN p.put[c] ELSE s.data[c]
  BY DEF Apply
<1>5. \A c \in kept : c \in chats /\ c \in DOMAIN came /\ Both(c).msgs = came[c].msgs \cup s.data[c].msgs
  <2>1. \A c \in kept : c \in chats /\ c \in DOMAIN p.put /\ c \in DOMAIN came
    BY <1>4 DEF Guarded
  <2>2. \A c \in DOMAIN came : came[c] \in Contents
    BY <1>2, SheetParts
  <2> QED BY <2>1, <2>2 DEF Contents, MergeMessages
<1>6. /\ \A c \in chats \cap DOMAIN p.put \cap DOMAIN s.data :
           \/ c \in kept
           \/ s.data[c].msgs = {}
           \/ c \in DOMAIN s.saved /\ s.data[c].msgs = s.saved[c].msgs
  BY DEF Guarded
<1> HIDE DEF came, saved, kept, Both, t
<1>7. DOMAIN data = DOMAIN came /\ \A c \in DOMAIN came : data[c] = IF c \in kept THEN Both(c) ELSE came[c]
  OBVIOUS
<1> HIDE DEF data
<1>8. Whole(data, chats)
  BY <1>3, <1>5, <1>7 DEF Whole
<1>9. ASSUME NEW k \in s.said PROVE k \in past \/ \E c \in DOMAIN data : k \in data[c].msgs
  <2>1. SUFFICES ASSUME NEW d \in DOMAIN s.data, k \in s.data[d].msgs
                 PROVE  k \in past \/ (d \in DOMAIN data /\ k \in data[d].msgs)
    BY DEF Kept
  <2>2. d \in chats /\ d \notin p.cut /\ d \in DOMAIN came
    BY <1>3, <2>1 DEF Kept, Whole, Sparing
  <2>3. CASE d \in kept
    BY <1>5, <1>7, <2>1, <2>2, <2>3
  <2>4. CASE d \notin kept /\ d \in DOMAIN p.put
    BY <1>6, <2>1, <2>2, <2>4 DEF Kept, Filed
  <2>5. CASE d \notin kept /\ d \notin DOMAIN p.put
    BY <1>4, <1>7, <2>1, <2>2, <2>5
  <2> QED BY <2>3, <2>4, <2>5
<1>10. Kept(t, chats, past)
  BY <1>1, <1>3, <1>8, <1>9, EmptyStack DEF Kept
<1> QED BY <1>10 DEF t

(* A table has no messages. *)
LEMMA TableKept ==
  ASSUME NEW s \in Session, NEW p \in Patches, NEW past, Kept(s, DOMAIN locks, past),
         Sparing(p, DOMAIN locks), Filed(p.put, past), DOMAIN locks = {}
  PROVE  LET t == MergeTable(s, p)
         IN Kept([t EXCEPT !.undo = <<>>, !.redo = <<>>], DOMAIN locks, past)
<1> DEFINE chats == DOMAIN locks
           data == Apply(s.data, p)
           t == [MergeTable(s, p) EXCEPT !.undo = <<>>, !.redo = <<>>]
<1>1. /\ t.data = data /\ t.saved \in {s.saved, data}
      /\ t.undo = <<>> /\ t.redo = <<>> /\ t.said = s.said
  BY DEF MergeTable, Session, SessionsOf
<1>2. Whole(data, chats) /\ Filed(s.saved, past)
  BY AppliedWhole DEF Kept
<1> HIDE DEF data, t
<1>3. Filed(data, past)
  BY <1>2 DEF Whole, Filed
<1>4. \A k \in s.said : k \in past
  BY DEF Kept, Whole
<1>5. Kept(t, chats, past)
  BY <1>1, <1>2, <1>3, <1>4, EmptyStack DEF Kept
<1> QED BY <1>5 DEF t

LEMMA MergeKept ==
  ASSUME NEW s \in Session, NEW p \in Patches, NEW past, Kept(s, DOMAIN locks, past),
         Sparing(p, DOMAIN locks), Filed(p.put, past),
         kind \in {"canvas", "table"}, kind = "table" => DOMAIN locks = {}
  PROVE  Kept(Merge(s, p), DOMAIN locks, past)
<1>1. CASE kind = "canvas"
  <2> DEFINE t == [MergeCanvas(s, p) EXCEPT !.undo = <<>>, !.redo = <<>>]
             u == [MergeCanvas(s, p) EXCEPT !.undo = <<>>, !.redo = <<>>,
                                            !.adrift = Behind(s, MergeCanvas(s, p).saved, p)]
  <2>1. Kept(t, DOMAIN locks, past)
    BY CanvasKept
  <2>2. /\ u.data = t.data /\ u.saved = t.saved /\ u.undo = t.undo
        /\ u.redo = t.redo /\ u.said = t.said
    BY DEF MergeCanvas, Session, SessionsOf
  <2>3. Merge(s, p) = u
    BY <1>1 DEF Merge
  <2> HIDE DEF t, u
  <2> QED BY <2>1, <2>2, <2>3, MarksKept
<1>2. CASE kind = "table"
  <2> DEFINE t == [MergeTable(s, p) EXCEPT !.undo = <<>>, !.redo = <<>>]
             u == [MergeTable(s, p) EXCEPT !.undo = <<>>, !.redo = <<>>,
                                           !.adrift = Behind(s, MergeTable(s, p).saved, p)]
  <2>1. Kept(t, DOMAIN locks, past)
    BY <1>2, TableKept
  <2>2. /\ u.data = t.data /\ u.saved = t.saved /\ u.undo = t.undo
        /\ u.redo = t.redo /\ u.said = t.said
    BY DEF MergeTable, Session, SessionsOf
  <2>3. Merge(s, p) = u
    BY <1>2 DEF Merge
  <2> HIDE DEF t, u
  <2> QED BY <2>1, <2>2, <2>3, MarksKept
<1> QED BY <1>1, <1>2

LEMMA FreshKept ==
  ASSUME NEW f, NEW prior, NEW chats, NEW past, Whole(f, chats), Filed(f, past)
  PROVE  Kept(Fresh(f, prior), chats, past)
BY EmptyStack DEF Kept, Fresh

(* More in the file keeps what was kept. *)
LEMMA PastGrows ==
  ASSUME NEW past, NEW later, past \subseteq later
  PROVE  /\ \A f : Filed(f, past) => Filed(f, later)
         /\ \A s, chats : Kept(s, chats, past) => Kept(s, chats, later)
         /\ \A save : Pending(save, past) => Pending(save, later)
<1>1. \A f : Filed(f, past) => Filed(f, later)
  BY DEF Filed
<1>2. \A save : Pending(save, past) => Pending(save, later)
  BY DEF Pending
<1>3. \A s, chats : Kept(s, chats, past) => Kept(s, chats, later)
  BY <1>1 DEF Kept
<1> QED BY <1>1, <1>2, <1>3

LEMMA SessionKept ==
  ASSUME SheetInv, SessionsKept, UNCHANGED sheetFixed, UNCHANGED stage, UNCHANGED written,
         NEW m \in Members, NEW t, session' = [session EXCEPT ![m] = t],
         stage[m] \in {"fetched", "open"} => Kept(t, DOMAIN locks, written),
         stage[m] \in {"closed", "loading"} => ~t.dirty
  PROVE  SessionsKept'
<1>1. \A n \in Members : session'[n] = IF n = m THEN t ELSE session[n]
  BY DEF SheetInv, SheetShape
<1> QED BY <1>1 DEF SessionsKept, sheetFixed

LEMMA SessionsStayKept ==
  ASSUME SessionsKept, UNCHANGED sheetFixed, UNCHANGED stage, written \subseteq written', UNCHANGED session
  PROVE  SessionsKept'
BY PastGrows DEF SessionsKept, sheetFixed

LEMMA SavesStayKept ==
  ASSUME SavesKept, UNCHANGED sheetFixed, UNCHANGED saves, UNCHANGED written PROVE SavesKept'
BY DEF SavesKept, sheetFixed

LEMMA FramesStayKept ==
  ASSUME FramesKept, UNCHANGED sheetFixed, UNCHANGED inbox, UNCHANGED written PROVE FramesKept'
BY DEF FramesKept, sheetFixed

(* A save takes what was frozen: what it does not send the baseline had. *)
LEMMA SubmitKept ==
  ASSUME UNCHANGED sheetFixed, UNCHANGED written, NEW m \in Members, NEW s \in Session,
         Kept(s, DOMAIN locks, written),
         NEW old \in Seq(Saves), NEW flush \in BOOLEAN, Submit(m, s, old, flush),
         \A i \in DOMAIN old : Sparing(old[i].patch, DOMAIN locks) /\ Pending(old[i], written)
  PROVE  SavesKept'
<1> DEFINE patch == Diff(s.saved, s.data)
           save == [by |-> m, patch |-> patch, frozen |-> s.data,
                    flush |-> flush, landed |-> FALSE, settled |-> FALSE,
                    cards |-> Touches(patch), knew |-> known[m] \ Waiting(m)]
<1>1. saves' = Append(old, save)
  BY DEF Submit
<1>2. /\ patch.cut = DOMAIN s.saved \ DOMAIN s.data
      /\ DOMAIN patch.put = {c \in DOMAIN s.data : c \notin DOMAIN s.saved \/ s.saved[c] # s.data[c]}
      /\ \A c \in DOMAIN patch.put : patch.put[c] = s.data[c]
  BY DEF Diff, Restrict
<1>3. save.patch = patch /\ save.frozen = s.data /\ save.landed = FALSE
  OBVIOUS
<1> HIDE DEF patch, save
<1>4. Sparing(save.patch, DOMAIN locks)
  BY <1>2, <1>3 DEF Sparing, Kept, Whole
<1>5. Pending(save, written)
  BY <1>2, <1>3 DEF Pending, Kept, Filed
<1>6. \A i \in DOMAIN saves' : saves'[i] = save \/ (i \in DOMAIN old /\ saves'[i] = old[i])
  BY <1>1
<1> QED BY <1>4, <1>5, <1>6 DEF SavesKept, sheetFixed

(* A save that ended is forgotten. *)
LEMMA OverKept ==
  ASSUME SheetInv, SavesKept, NEW i \in DOMAIN saves
  PROVE  LET done == [saves EXCEPT ![i] = Over(@)]
         IN \A j \in DOMAIN done : Sparing(done[j].patch, DOMAIN locks) /\ Pending(done[j], written)
<1> DEFINE done == [saves EXCEPT ![i] = Over(@)]
<1>1. saves[i] \in Saves
  BY SheetsApart DEF SheetInv
<1>2. Over(saves[i]).patch = saves[i].patch /\ Over(saves[i]).frozen = <<>>
  BY <1>1 DEF Over, Saves
<1>3. Sparing(Over(saves[i]).patch, DOMAIN locks) /\ Pending(Over(saves[i]), written)
  BY <1>2 DEF SavesKept, Pending
<1>4. DOMAIN done = DOMAIN saves /\ \A j \in DOMAIN saves : done[j] = IF j = i THEN Over(saves[i]) ELSE saves[j]
  OBVIOUS
<1> HIDE DEF done
<1>5. \A j \in DOMAIN done : Sparing(done[j].patch, DOMAIN locks) /\ Pending(done[j], written)
  BY <1>3, <1>4 DEF SavesKept
<1> QED BY <1>5 DEF done

LEMMA OpeningSaid ==
  ASSUME SheetInv, SaidInv, UNCHANGED sheetFixed, NEW m \in Members,
         Open(m) \/ Fetch(m) \/ Loaded(m) \/ Close(m)
  PROVE  SaidInv'
<1>1. UNCHANGED <<disk, saves, inbox, written>>
  BY DEF Open, Fetch, Loaded, Close, sheetHistory
<1>2. SessionsKept'
  <2>1. /\ stage' = [stage EXCEPT ![m] = stage'[m]] /\ session' = [session EXCEPT ![m] = session'[m]]
        /\ \/ stage'[m] \in {"closed", "loading"} /\ session'[m] = Fresh(<<>>, {})
           \/ stage'[m] = "fetched" /\ session'[m] = Fresh(disk, InFlight(m))
           \/ stage'[m] = "open" /\ stage[m] = "fetched" /\ session'[m] = session[m]
    BY DEF Open, Fetch, Loaded, Close, SheetInv, SheetShape
  <2>2. \A n \in Members \ {m} : stage'[n] = stage[n] /\ session'[n] = session[n]
    BY <2>1 DEF SheetInv, SheetShape
  <2>3. Kept(Fresh(disk, InFlight(m)), DOMAIN locks, written) /\ ~Fresh(<<>>, {}).dirty
    BY FreshKept DEF SaidInv, Fresh
  <2> QED BY <1>1, <2>1, <2>2, <2>3 DEF SaidInv, SessionsKept, sheetFixed
<1> QED BY <1>1, <1>2, SavesStayKept, FramesStayKept DEF SaidInv, sheetFixed

(* An open session changes, and nothing else. *)
LEMMA ChangeSaid ==
  ASSUME SheetInv, SaidInv, UNCHANGED sheetFixed, NEW m \in Members, Opened(m),
         UNCHANGED <<disk, stage, saves, inbox, written>>,
         NEW t, Kept(t, DOMAIN locks, written), session' = [session EXCEPT ![m] = t]
  PROVE  SaidInv'
<1>1. SessionsKept'
  BY SessionKept DEF SaidInv, Opened
<1> QED BY <1>1, SavesStayKept, FramesStayKept DEF SaidInv, sheetFixed

LEMMA EditingSaid ==
  ASSUME SheetInv, SaidInv, UNCHANGED sheetFixed, NEW m \in Members, NEW c \in Cards,
         Edit(m, c) \/ Remove(m, c)
  PROVE  SaidInv'
<1> DEFINE s == session[m]
           chats == DOMAIN locks
<1>1. /\ Opened(m) /\ c \in DOMAIN s.data
      /\ UNCHANGED <<disk, stage, saves, inbox, written>>
  BY DEF Edit, Remove, sheetHistory
<1>2. s \in Session /\ Kept(s, chats, written)
  BY <1>1, SheetsApart DEF SheetInv, SaidInv, SessionsKept, Opened
<1>3. s.data \in [DOMAIN s.data -> Contents] /\ Whole(s.data, chats)
  BY <1>2, SessionSheets, SheetParts DEF Kept
<1>4. CASE Edit(m, c)
  <2> DEFINE data == [s.data EXCEPT ![c].look = tally.edits]
  <2>1. DOMAIN data = DOMAIN s.data /\ \A d \in DOMAIN s.data : data[d].msgs = s.data[d].msgs
    BY <1>3 DEF Contents
  <2>2. session' = [session EXCEPT ![m] = Changed(s, data, c)]
    BY <1>4 DEF Edit
  <2> HIDE DEF data
  <2>3. Whole(data, chats) /\ \A d \in chats : data[d].msgs = s.data[d].msgs
    BY <1>3, <2>1 DEF Whole
  <2>4. Kept(Changed(s, data, c), chats, written)
    BY <1>2, <2>3, ChangedKept
  <2> QED BY <1>1, <2>2, <2>4, ChangeSaid
<1>5. CASE Remove(m, c)
  <2> DEFINE data == Restrict(s.data, DOMAIN s.data \ {c})
  <2>1. DOMAIN data = DOMAIN s.data \ {c} /\ \A d \in DOMAIN data : data[d] = s.data[d]
    BY DEF Restrict
  <2>2. session' = [session EXCEPT ![m] = Changed(s, data, c)] /\ c \notin chats
    BY <1>5 DEF Remove
  <2> HIDE DEF data
  <2>3. Whole(data, chats) /\ \A d \in chats : data[d].msgs = s.data[d].msgs
    BY <1>3, <2>1, <2>2 DEF Whole
  <2>4. Kept(Changed(s, data, c), chats, written)
    BY <1>2, <2>3, ChangedKept
  <2> QED BY <1>1, <2>2, <2>4, ChangeSaid
<1> QED BY <1>4, <1>5

LEMMA TurningSaid ==
  ASSUME SheetInv, SaidInv, UNCHANGED sheetFixed, NEW m \in Members,
         Undo(m) \/ Redo(m) \/ Arm(m)
  PROVE  SaidInv'
<1> DEFINE s == session[m]
<1>1. Opened(m) /\ UNCHANGED <<disk, stage, saves, inbox, written>>
  BY DEF Undo, Redo, Arm, sheetHistory
<1>2. s \in Session /\ Kept(s, DOMAIN locks, written)
  BY <1>1, SheetsApart DEF SheetInv, SaidInv, SessionsKept, Opened
<1>3. PICK t : Kept(t, DOMAIN locks, written) /\ session' = [session EXCEPT ![m] = t]
  <2>1. CASE Undo(m)
    BY <1>2, <2>1, UndoKept DEF Undo
  <2>2. CASE Redo(m)
    BY <1>2, <2>2, RedoKept DEF Redo
  <2>3. CASE Arm(m)
    <3> DEFINE t == [s EXCEPT !.armed = TRUE]
    <3>1. t.data = s.data /\ t.saved = s.saved /\ t.undo = s.undo /\ t.redo = s.redo /\ t.said = s.said
      BY <1>2 DEF Session, SessionsOf
    <3>2. session' = [session EXCEPT ![m] = t]
      BY <2>3 DEF Arm
    <3> HIDE DEF t
    <3>3. Kept(t, DOMAIN locks, written)
      BY <1>2, <3>1, MarksKept
    <3> QED BY <3>2, <3>3
  <2> QED BY <2>1, <2>2, <2>3
<1> QED BY <1>1, <1>3, ChangeSaid

LEMMA TalkingSaid ==
  ASSUME SheetInv, SaidInv, UNCHANGED sheetFixed, NEW m \in Members,
         NEW c \in DOMAIN locks, Ask(m, c) \/ Reply(m, c)
  PROVE  SaidInv'
<1> DEFINE s == session[m]
<1>1. Opened(m) /\ UNCHANGED <<disk, stage, saves, inbox, written>>
  BY DEF Ask, Reply, sheetHistory
<1>2. s \in Session /\ Kept(s, DOMAIN locks, written) /\ DOMAIN locks \in SUBSET Cards /\ tally.said \in Nat
  BY <1>1, SheetsApart DEF SheetInv, SheetShape, SaidInv, SessionsKept, Opened
<1>3. PICK r : session' = [session EXCEPT ![m] = [Spoken(s, c, tally.said) EXCEPT !.running = r]]
  BY DEF Ask, Reply
<1>4. Kept([Spoken(s, c, tally.said) EXCEPT !.running = r], DOMAIN locks, written)
  BY <1>2, SpokenKept
<1> QED BY <1>1, <1>3, <1>4, ChangeSaid

LEMMA SavingSaid ==
  ASSUME SheetInv, SaidInv, UNCHANGED sheetFixed, NEW m \in Members, Tick(m) \/ Flush(m)
  PROVE  SaidInv'
<1> DEFINE s == session[m]
<1>1. Opened(m) /\ UNCHANGED <<disk, stage, inbox, written>>
  BY DEF Tick, Flush
<1>2. s \in Session /\ Kept(s, DOMAIN locks, written) /\ saves \in Seq(Saves)
  BY <1>1, SheetsApart DEF SheetInv, SheetShape, SaidInv, SessionsKept, Opened
<1>3. SessionsKept'
  <2>1. CASE Tick(m)
    <3> DEFINE t == [s EXCEPT !.armed = FALSE]
    <3>1. t.data = s.data /\ t.saved = s.saved /\ t.undo = s.undo /\ t.redo = s.redo /\ t.said = s.said
      BY <1>2 DEF Session, SessionsOf
    <3>2. session' = [session EXCEPT ![m] = t]
      BY <2>1 DEF Tick
    <3> HIDE DEF t
    <3>3. Kept(t, DOMAIN locks, written)
      BY <1>2, <3>1, MarksKept
    <3> QED BY <1>1, <3>2, <3>3, SessionKept DEF SaidInv, Opened
  <2>2. CASE Flush(m)
    BY <1>1, <2>2, SessionsStayKept DEF Flush, SaidInv
  <2> QED BY <2>1, <2>2
<1>4. SavesKept'
  <2>1. (\E flush \in BOOLEAN : Submit(m, s, saves, flush)) \/ UNCHANGED saves
    BY DEF Tick, Flush
  <2>2. \A i \in DOMAIN saves : Sparing(saves[i].patch, DOMAIN locks) /\ Pending(saves[i], written)
    BY DEF SaidInv, SavesKept
  <2>3. ASSUME NEW flush \in BOOLEAN, Submit(m, s, saves, flush) PROVE SavesKept'
    BY <1>1, <1>2, <2>2, <2>3, SubmitKept
  <2>4. ASSUME UNCHANGED saves PROVE SavesKept'
    BY <1>1, <2>4, SavesStayKept DEF SaidInv
  <2> QED BY <2>1, <2>3, <2>4
<1> QED BY <1>1, <1>3, <1>4, FramesStayKept DEF SaidInv, sheetFixed

(* patch_entity(): what the patch says is in the file. *)
LEMMA LandSaid ==
  ASSUME SheetInv, SaidInv, UNCHANGED sheetFixed, NEW i \in DOMAIN saves, Land(i)
  PROVE  SaidInv'
<1> DEFINE save == saves[i]
           patch == save.patch
<1>1. /\ save \in Saves /\ Sparing(patch, DOMAIN locks) /\ Pending(save, written)
  BY SheetsApart DEF SheetInv, SaidInv, SavesKept
<1>2. /\ UNCHANGED <<stage, session>>
      /\ saves' = [saves EXCEPT ![i] = Landed(@)]
      /\ disk' = Apply(disk, patch)
      /\ \A c \in DOMAIN disk' : disk'[c].msgs \subseteq written'
      /\ written \subseteq written'
  BY DEF Land
<1>3. SessionsKept'
  BY <1>2, SessionsStayKept DEF SaidInv
<1>4. Whole(disk, DOMAIN locks)' /\ Filed(disk, written)'
  <2>1. Whole(disk', DOMAIN locks)
    BY <1>1, <1>2, AppliedWhole DEF SaidInv
  <2> QED BY <1>2, <2>1 DEF Filed, sheetFixed
<1>5. Filed(patch.put, written')
  <2>1. \A c \in DOMAIN patch.put : c \in DOMAIN disk' /\ disk'[c] = patch.put[c]
    BY <1>2 DEF Apply
  <2> QED BY <1>2, <2>1 DEF Filed
<1>6. SavesKept'
  <2>1. /\ Landed(save).landed = TRUE /\ Landed(save).patch = NoPatch
        /\ Landed(save).frozen = save.frozen
    BY <1>1 DEF Landed, Saves
  <2>2. Sparing(Landed(save).patch, DOMAIN locks)
    BY <2>1 DEF Sparing, NoPatch
  <2>3. Pending(Landed(save), written')
    BY <1>1, <1>2, <1>5, <2>1 DEF Pending, Filed
  <2>4. \A j \in DOMAIN saves : Pending(saves[j], written')
    BY <1>2, PastGrows DEF SaidInv, SavesKept
  <2>5. DOMAIN saves' = DOMAIN saves /\ \A j \in DOMAIN saves : saves'[j] = IF j = i THEN Landed(save) ELSE saves[j]
    BY <1>2
  <2> QED BY <2>2, <2>3, <2>4, <2>5 DEF SaidInv, SavesKept, sheetFixed
<1>7. FramesKept'
  <2> DEFINE frame == [by |-> save.by, patch |-> patch, save |-> i]
  <2>1. ASSUME NEW m \in Members, NEW k \in DOMAIN inbox'[m]
        PROVE  inbox'[m][k] = frame \/ (k \in DOMAIN inbox[m] /\ inbox'[m][k] = inbox[m][k])
    <3>1. inbox[m] \in Seq(Frames)
      BY DEF SheetInv, SheetShape
    <3>2. inbox'[m] = inbox[m] \/ inbox'[m] = Append(inbox[m], frame)
      BY DEF Land
    <3> QED BY <2>1, <3>1, <3>2
  <2>2. frame.patch = patch
    OBVIOUS
  <2> HIDE DEF frame
  <2>3. \A m \in Members : \A k \in DOMAIN inbox[m] : Filed(inbox[m][k].patch.put, written')
    BY <1>2, PastGrows DEF SaidInv, FramesKept
  <2>4. ASSUME NEW m \in Members, NEW k \in DOMAIN inbox'[m]
        PROVE  Sparing(inbox'[m][k].patch, DOMAIN locks) /\ Filed(inbox'[m][k].patch.put, written')
    BY <1>1, <1>5, <2>1, <2>2, <2>3, <2>4 DEF SaidInv, FramesKept
  <2> QED BY <2>4 DEF FramesKept, sheetFixed
<1> QED BY <1>3, <1>4, <1>6, <1>7 DEF SaidInv, sheetFixed

(* on_canvas_patch_done(), on_table_patch_done(). *)
LEMMA AckSaid ==
  ASSUME SheetInv, SaidInv, UNCHANGED sheetFixed, NEW i \in DOMAIN saves, Ack(i)
  PROVE  SaidInv'
<1> DEFINE m == saves[i].by
           s == IF Opened(m) THEN Settled(session[m], saves[i]) ELSE session[m]
           done == [saves EXCEPT ![i] = Over(@)]
           kept == stage[m] \in {"fetched", "open"}
<1>1. /\ saves[i] \in Saves /\ m \in Members /\ session[m] \in Session /\ Sound(session[m])
      /\ stage[m] \in {"closed", "loading", "fetched", "open"}
      /\ saves[i].landed /\ Pending(saves[i], written)
  BY SheetsApart DEF SheetInv, SheetShape, SaidInv, SavesKept, Ack
<1>2. UNCHANGED <<disk, stage, inbox, written>> /\ session' = [session EXCEPT ![m] = s]
  BY DEF Ack
<1>3. s \in Session /\ (kept => Kept(s, DOMAIN locks, written)) /\ (~kept => ~s.dirty)
  <2>1. kept => Kept(session[m], DOMAIN locks, written)
    BY <1>1 DEF SaidInv, SessionsKept
  <2>2. ~kept => ~session[m].dirty /\ ~Opened(m)
    BY <1>1 DEF SaidInv, SessionsKept, Opened
  <2>3. Opened(m) => kept
    BY DEF Opened
  <2>4. CASE Opened(m)
    BY <1>1, <2>1, <2>3, <2>4, SettledKept, SettledSound
  <2>5. CASE ~Opened(m)
    BY <1>1, <2>1, <2>2, <2>5
  <2> QED BY <2>4, <2>5
<1>4. SessionsKept'
  <2> HIDE DEF m, s
  <2> QED BY <1>1, <1>2, <1>3, SessionKept DEF SaidInv
<1>5. SavesKept'
  <2>1. /\ done \in Seq(Saves)
        /\ \A j \in DOMAIN done : Sparing(done[j].patch, DOMAIN locks) /\ Pending(done[j], written)
    BY OverKept, MarkedSaves DEF SheetInv, SaidInv
  <2>2. \/ s.dirty /\ Submit(m, s, done, TRUE)
        \/ saves' = done
    BY DEF Ack
  <2> HIDE DEF m, s, done
  <2>3. CASE s.dirty /\ Submit(m, s, done, TRUE)
    BY <1>1, <1>2, <1>3, <2>1, <2>3, SubmitKept
  <2>4. CASE saves' = done
    BY <1>2, <2>1, <2>4 DEF SavesKept, sheetFixed
  <2> QED BY <2>2, <2>3, <2>4
<1> QED BY <1>2, <1>4, <1>5, FramesStayKept DEF SaidInv, sheetFixed

LEMMA FailSaid ==
  ASSUME SheetInv, SaidInv, UNCHANGED sheetFixed, NEW i \in DOMAIN saves, Fail(i)
  PROVE  SaidInv'
<1>1. /\ UNCHANGED <<disk, stage, session, inbox, written>>
      /\ saves' = [saves EXCEPT ![i] = Over(@)]
  BY DEF Fail
<1>2. SavesKept'
  BY <1>1, OverKept DEF SaidInv, SavesKept, sheetFixed
<1> QED BY <1>1, <1>2, SessionsStayKept, FramesStayKept DEF SaidInv, sheetFixed

LEMMA FramesSaid ==
  ASSUME SheetInv, SaidInv, UNCHANGED sheetFixed, NEW m \in Members,
         Receive(m) \/ Cut(m) \/ Link(m)
  PROVE  SaidInv'
<1>1. UNCHANGED <<disk, stage, saves, written>> /\ inbox[m] \in Seq(Frames)
  BY DEF Receive, Cut, Link, sheetHistory, SheetInv, SheetShape
<1>2. FramesKept'
  <2>1. \A n \in Members : \A k \in DOMAIN inbox'[n] :
          \E j \in DOMAIN inbox[n] : inbox'[n][k] = inbox[n][j]
    <3>1. CASE Receive(m)
      <4>1. inbox' = [inbox EXCEPT ![m] = Tail(@)] /\ inbox[m] # <<>>
        BY <3>1 DEF Receive
      <4>2. \A k \in DOMAIN Tail(inbox[m]) : k + 1 \in DOMAIN inbox[m] /\ Tail(inbox[m])[k] = inbox[m][k + 1]
        BY <1>1, <4>1
      <4>3. \A n \in Members : inbox'[n] = IF n = m THEN Tail(inbox[m]) ELSE inbox[n]
        BY <4>1 DEF SheetInv, SheetShape
      <4> QED BY <4>2, <4>3
    <3>2. CASE Cut(m)
      <4>1. \A n \in Members : inbox'[n] = IF n = m THEN <<>> ELSE inbox[n]
        BY <3>2 DEF Cut, SheetInv, SheetShape
      <4> QED BY <4>1
    <3>3. CASE Link(m)
      BY <3>3 DEF Link
    <3> QED BY <3>1, <3>2, <3>3
  <2>2. ASSUME NEW n \in Members, NEW k \in DOMAIN inbox'[n]
        PROVE  Sparing(inbox'[n][k].patch, DOMAIN locks) /\ Filed(inbox'[n][k].patch.put, written)
    BY <2>1, <2>2 DEF SaidInv, FramesKept
  <2> QED BY <1>1, <2>2 DEF FramesKept, sheetFixed
<1>3. SessionsKept'
  <2>1. CASE session' = session
    BY <1>1, <2>1, SessionsStayKept DEF SaidInv
  <2>2. CASE session' # session
    <3> DEFINE frame == Head(inbox[m])
               t == Merge(session[m], frame.patch)
    <3>1. Receive(m) /\ Opened(m) /\ session' = [session EXCEPT ![m] = t]
      BY <2>2 DEF Receive, Cut, Link
    <3>2. frame = inbox[m][1] /\ 1 \in DOMAIN inbox[m] /\ frame \in Frames
      BY <1>1, <3>1 DEF Receive
    <3>3. frame.patch \in Patches /\ Sparing(frame.patch, DOMAIN locks) /\ Filed(frame.patch.put, written)
      BY <3>2 DEF SaidInv, FramesKept, Frames
    <3>4. session[m] \in Session /\ Kept(session[m], DOMAIN locks, written)
      BY <3>1, SheetsApart DEF SheetInv, SaidInv, SessionsKept, Opened
    <3> HIDE DEF frame
    <3>5. Kept(t, DOMAIN locks, written)
      BY <3>3, <3>4, MergeKept DEF SaidInv, SheetInv, SheetShape
    <3> HIDE DEF t
    <3> QED BY <1>1, <3>1, <3>5, SessionKept DEF SaidInv, Opened
  <2> QED BY <2>1, <2>2
<1> QED BY <1>1, <1>2, <1>3, SavesStayKept DEF SaidInv, sheetFixed

LEMMA SaidStarts == SheetInit => SaidInv
<1> SUFFICES ASSUME SheetInit PROVE SaidInv
  OBVIOUS
<1>1. PICK budget \in Budgets, chats \in SUBSET Cards :
        Cardinality(chats) = budget.chats /\ locks \in [chats -> Members] /\ kind = budget.kind
  BY DEF SheetInit
<1>2. kind = "table" => DOMAIN locks = {}
  <2>1. ASSUME kind = "table" PROVE Cardinality(chats) = 0
    BY <1>1, <2>1, SheetAssumption
  <2>2. IsFiniteSet(Cards)
    BY SheetAssumption
  <2> QED BY <1>1, <2>1, <2>2, FS_Subset, FS_EmptySet
<1>3. Whole(disk, DOMAIN locks) /\ Filed(disk, written)
  BY <1>1 DEF SheetInit, Whole, Filed, Content
<1>4. SessionsKept
  BY <1>3, FreshKept DEF SheetInit, SessionsKept
<1>5. SavesKept /\ FramesKept
  BY DEF SheetInit, SavesKept, FramesKept
<1> QED BY <1>2, <1>3, <1>4, <1>5 DEF SaidInv

LEMMA SaidStep == SheetInv /\ SaidInv /\ [SheetNext]_sheetVars => SaidInv'
<1> SUFFICES ASSUME SheetInv, SaidInv, [SheetNext]_sheetVars PROVE SaidInv'
  OBVIOUS
<1>1. CASE UNCHANGED sheetVars
  BY <1>1, SessionsStayKept, SavesStayKept, FramesStayKept DEF SaidInv, sheetVars, sheetFixed, sheetHistory
<1>2. CASE SheetNext
  <2>1. UNCHANGED sheetFixed /\ SheetStep
    BY <1>2 DEF SheetNext
  <2> QED BY <2>1, OpeningSaid, EditingSaid, TurningSaid, TalkingSaid, SavingSaid,
             LandSaid, AckSaid, FailSaid, FramesSaid DEF SheetStep
<1> QED BY <1>1, <1>2

(* The inductive invariant: a baseline, and what will become one, has no message that was   *)
(* not in the file, and no conversation ever leaves a sheet.                                *)
THEOREM SaidTracked == SheetSpec => []SaidInv
BY SheetsTracked, SaidStarts, SaidStep, PTL DEF SheetSpec

(* A message that was never in the file stays in its author's session whatever comes in     *)
(* (apply_remote_patch, merge_messages, undo, on_canvas_patch_done).                        *)
THEOREM MessagesStay == SheetSpec => []UnsavedSaidKept
<1>1. SaidInv => UnsavedSaidKept
  BY DEF SaidInv, SessionsKept, Kept, UnsavedSaidKept, Opened
<1> QED BY <1>1, SaidTracked, PTL

-------------------------------------------------------------------------------
(* Agreement: what a session, the file, the saves and the frames between them have to do *)
(* with each other.  The parts are stated of values, so that a step that leaves these      *)
(* alone keeps them, and of one card at a time.                                            *)

(* The frames of others on a card that wait in the queue q of m. *)
Awaited(q, m, c) == {k \in DOMAIN q : q[k].by # m /\ c \in Touches(q[k].patch)}

(* The saves of m under way. *)
Under(sv, m) == {i \in DOMAIN sv : sv[i].by = m /\ ~sv[i].settled}

(* Cards that others' saves have written which m came to know since it submitted the save. *)
Overtaken(sv, m, ks, save) ==
  UNION {sv[j].cards : j \in {k \in ks \ save.knew : sv[k].by # m}}

(* A frame is a save that has landed. *)
FrameTrue(sv, f) ==
  /\ f.save \in DOMAIN sv /\ sv[f.save].landed
  /\ sv[f.save].by = f.by /\ sv[f.save].cards = Touches(f.patch)

(* Of others' saves m can only know those that landed. *)
KnownTrue(ks, m, sv) == \A j \in ks : j \in DOMAIN sv /\ (sv[j].by = m \/ sv[j].landed)

(* A save knows what its author had received; its patch says what was frozen. *)
SaveTrue(q, sv, save) ==
  /\ KnownTrue(save.knew, save.by, sv)
  /\ \A k \in DOMAIN q : q[k].by # save.by => q[k].save \notin save.knew
  /\ ~save.landed => save.cards = Touches(save.patch)
  /\ ~save.landed /\ ~save.settled =>
       \A c \in save.cards : Same(save.patch.put, save.frozen, c)

(* What a save of m wrote and nobody contests: the save did not fail, was not left, and had *)
(* no other beside it.  It has landed, or else it is the only one under way of a session     *)
(* that is still open and has it to wait for.                                                *)
AloneTrue(st, s, sv, m, i) ==
  /\ sv[i].settled => sv[i].landed
  /\ ~sv[i].settled => st = "open" /\ s.dirty /\ Under(sv, m) = {i} /\ i \notin s.prior

(* Only an open session has unsaved changes. *)
StageTrue(st, s, sv, m) ==
  /\ st # "open" => ~s.dirty
  /\ s.prior \subseteq DOMAIN sv
  /\ st = "fetched" => Under(sv, m) \subseteq s.prior

(* The last frame on a card says what the file has. *)
LastAt(q, m, d, c) ==
  \A k \in Awaited(q, m, c) :
    (\A n \in Awaited(q, m, c) : n <= k) => Same(q[k].patch.put, d, c)

(* An open session s, the file d and a card that nobody contests.  The session shows what  *)
(* the file has, unless the member has changed it or a frame on it waits;                   *)
OwnAt(m, d, s, q, c) ==
  c \notin s.own /\ Awaited(q, m, c) = {} => Same(s.data, d, c)

(* it shows what was sent, unless the member has changed it since or others have;           *)
SentAt(m, s, sv, ks, c) ==
  \A i \in Under(sv, m) :
    ~sv[i].landed /\ c \in sv[i].cards \ (s.own \cup Overtaken(sv, m, ks, sv[i]))
      => Same(s.data, sv[i].frozen, c)

(* what was frozen is in the file, or it was sent and is on its way, unless others have     *)
(* changed it since;                                                                        *)
FrozenAt(m, d, s, q, sv, ks, c) ==
  \A i \in Under(sv, m) \ s.prior :
    /\ c \notin Overtaken(sv, m, ks, sv[i]) /\ Awaited(q, m, c) = {}
    /\ c \in sv[i].cards => sv[i].landed
    => Same(sv[i].frozen, d, c)

(* and so is the baseline, unless the card is adrift or a save under way has written it.    *)
SavedAt(m, d, s, q, sv, c) ==
  /\ c \notin s.adrift /\ Awaited(q, m, c) = {}
  /\ \A i \in Under(sv, m) : sv[i].landed => c \notin sv[i].cards
  => Same(s.saved, d, c)

OpenAt(m, d, s, q, sv, ks, c) ==
  /\ OwnAt(m, d, s, q, c) /\ SentAt(m, s, sv, ks, c)
  /\ FrozenAt(m, d, s, q, sv, ks, c) /\ SavedAt(m, d, s, q, sv, c)

(* What the GET has read is what the file has, but for frames that it did not cover.       *)
FetchedAt(m, d, f, q, ks, c) ==
  (\A k \in Awaited(q, m, c) : q[k].save \in ks) => Same(f, d, c)

ViewAt(m, d, st, s, q, sv, ks, c) ==
  /\ st = "open" => OpenAt(m, d, s, q, sv, ks, c)
  /\ st = "fetched" => FetchedAt(m, d, s.data, q, ks, c)

(* Of one member: its frames and saves, *)
RoomTrue(m, q, sv, ks) ==
  /\ \A k \in DOMAIN q : FrameTrue(sv, q[k])
  /\ KnownTrue(ks, m, sv)
  /\ \A i \in DOMAIN sv : sv[i].by = m => SaveTrue(q, sv, sv[i])

(* and its session, with the cards that are contested or of which it was not told. *)
MemberTrue(m, d, st, s, q, sv, ks, mi, co) ==
  /\ StageTrue(st, s, sv, m)
  /\ \A i \in DOMAIN sv : sv[i].by = m /\ sv[i].cards \ co # {} => AloneTrue(st, s, sv, m, i)
  /\ \A c \in Cards \ co : LastAt(q, m, d, c)
  /\ \A c \in Cards \ (co \cup mi) : ViewAt(m, d, st, s, q, sv, ks, c)

AgreeAt(d, st, se, sv, ln, ib, kn, mi, co) ==
  \A m \in Members :
    /\ m \notin ln => ib[m] = <<>>
    /\ RoomTrue(m, ib[m], sv, kn[m])
    /\ MemberTrue(m, d, st[m], se[m], ib[m], sv, kn[m], mi[m], co)

AgreeInv == AgreeAt(disk, stage, session, saves, linked, inbox, known, missed, contested)

-------------------------------------------------------------------------------
(* Cards that two sheets have alike. *)

LEMMA SameLaws ==
  ASSUME NEW f, NEW g, NEW h, NEW c
  PROVE  /\ Same(f, f, c)
         /\ Same(f, g, c) => Same(g, f, c)
         /\ Same(f, g, c) /\ Same(g, h, c) => Same(f, h, c)
BY DEF Same

LEMMA AppliedAt ==
  ASSUME NEW f, NEW p, NEW c
  PROVE  IF c \in Touches(p) THEN Same(Apply(f, p), p.put, c) ELSE Same(Apply(f, p), f, c)
BY DEF Same, Apply, Touches

LEMMA DiffAt ==
  ASSUME NEW f, NEW g, NEW c
  PROVE  IF c \in Touches(Diff(f, g)) THEN Same(Diff(f, g).put, g, c) ELSE Same(f, g, c)
BY DEF Same, Diff, Touches, Restrict

-------------------------------------------------------------------------------
(* What other steps than the member's own leave as it is. *)

(* The saves go on: there may be more, and more of them landed. *)
Onward(sv, new) ==
  /\ DOMAIN sv \subseteq DOMAIN new
  /\ \A i \in DOMAIN sv : /\ new[i].by = sv[i].by /\ new[i].cards = sv[i].cards
                          /\ sv[i].landed => new[i].landed

LEMMA KnownOn ==
  ASSUME NEW ks, NEW m, NEW sv, NEW new, KnownTrue(ks, m, sv), Onward(sv, new)
  PROVE  KnownTrue(ks, m, new)
BY DEF KnownTrue, Onward

LEMMA SaveOn ==
  ASSUME NEW q, NEW sv, NEW new, NEW save, SaveTrue(q, sv, save), Onward(sv, new)
  PROVE  SaveTrue(q, new, save)
BY KnownOn DEF SaveTrue

LEMMA FrameOn ==
  ASSUME NEW f, NEW sv, NEW new, FrameTrue(sv, f), Onward(sv, new)
  PROVE  FrameTrue(new, f)
BY DEF FrameTrue, Onward

(* The room of m, when none of its frames are others and its own saves are well. *)
LEMMA RoomOn ==
  ASSUME NEW m, NEW q, NEW sv, NEW ks, RoomTrue(m, q, sv, ks), NEW new, Onward(sv, new),
         \A i \in DOMAIN new : new[i].by = m =>
           (i \in DOMAIN sv /\ new[i] = sv[i]) \/ SaveTrue(q, new, new[i])
  PROVE  RoomTrue(m, q, new, ks)
<1>1. \A k \in DOMAIN q : FrameTrue(new, q[k])
  BY FrameOn DEF RoomTrue
<1>2. KnownTrue(ks, m, new)
  BY KnownOn DEF RoomTrue
<1>3. ASSUME NEW i \in DOMAIN new, new[i].by = m PROVE SaveTrue(q, new, new[i])
  BY <1>3, SaveOn DEF RoomTrue
<1> QED BY <1>1, <1>2, <1>3 DEF RoomTrue

(* The same saves, for m: those it has under way, and what it knows of others'. *)
Alike(m, sv, new, ks) ==
  /\ Onward(sv, new)
  /\ \A i \in DOMAIN new : new[i].by = m => i \in DOMAIN sv /\ new[i] = sv[i]
  /\ \A j \in ks : j \in DOMAIN sv

LEMMA AlikeUnder ==
  ASSUME NEW m, NEW sv, NEW new, NEW ks, Alike(m, sv, new, ks)
  PROVE  /\ Under(new, m) = Under(sv, m)
         /\ \A i \in Under(sv, m) : new[i] = sv[i]
         /\ \A save : Overtaken(new, m, ks, save) = Overtaken(sv, m, ks, save)
<1>1. Under(new, m) \subseteq Under(sv, m) /\ \A i \in Under(sv, m) : new[i] = sv[i]
  <2>1. \A i \in Under(sv, m) : new[i].by = m /\ i \in DOMAIN new
    BY DEF Alike, Onward, Under
  <2> QED BY <2>1 DEF Alike, Onward, Under
<1>2. Under(sv, m) \subseteq Under(new, m)
  BY <1>1 DEF Alike, Onward, Under
<1>3. ASSUME NEW save PROVE Overtaken(new, m, ks, save) = Overtaken(sv, m, ks, save)
  BY DEF Alike, Onward, Overtaken
<1> QED BY <1>1, <1>2, <1>3

LEMMA ViewAlike ==
  ASSUME NEW m, NEW d, NEW st, NEW s, NEW q, NEW sv, NEW ks, NEW c, NEW new,
         ViewAt(m, d, st, s, q, sv, ks, c), Alike(m, sv, new, ks)
  PROVE  ViewAt(m, d, st, s, q, new, ks, c)
<1>1. /\ Under(new, m) = Under(sv, m)
      /\ \A i \in Under(sv, m) : new[i] = sv[i]
      /\ \A save : Overtaken(new, m, ks, save) = Overtaken(sv, m, ks, save)
  BY AlikeUnder
<1>2. ASSUME OpenAt(m, d, s, q, sv, ks, c) PROVE OpenAt(m, d, s, q, new, ks, c)
  BY <1>1, <1>2 DEF OpenAt, OwnAt, SentAt, FrozenAt, SavedAt
<1> QED BY <1>2 DEF ViewAt

(* A member whose session, queue and saves a step leaves alone. *)
LEMMA MemberAlike ==
  ASSUME NEW m, NEW d, NEW st, NEW s, NEW q, NEW sv, NEW ks, NEW mi, NEW co,
         MemberTrue(m, d, st, s, q, sv, ks, mi, co),
         NEW new, Alike(m, sv, new, ks), NEW mi2, mi \subseteq mi2, NEW co2, co \subseteq co2
  PROVE  MemberTrue(m, d, st, s, q, new, ks, mi2, co2)
<1>1. Under(new, m) = Under(sv, m) /\ DOMAIN sv \subseteq DOMAIN new
  BY AlikeUnder DEF Alike, Onward
<1>2. StageTrue(st, s, new, m)
  BY <1>1 DEF MemberTrue, StageTrue
<1>3. ASSUME NEW i \in DOMAIN new, new[i].by = m, new[i].cards \ co2 # {}
      PROVE  AloneTrue(st, s, new, m, i)
  <2>1. i \in DOMAIN sv /\ new[i] = sv[i] /\ sv[i].by = m /\ sv[i].cards \ co # {}
    BY <1>3 DEF Alike
  <2>2. AloneTrue(st, s, sv, m, i)
    BY <2>1 DEF MemberTrue
  <2> QED BY <1>1, <2>1, <2>2 DEF AloneTrue
<1>4. \A c \in Cards \ co2 : LastAt(q, m, d, c)
  BY DEF MemberTrue
<1>5. \A c \in Cards \ (co2 \cup mi2) : ViewAt(m, d, st, s, q, new, ks, c)
  BY ViewAlike DEF MemberTrue
<1> QED BY <1>2, <1>3, <1>4, <1>5 DEF MemberTrue

LEMMA AlikeSelf ==
  ASSUME NEW m, NEW sv, NEW ks, KnownTrue(ks, m, sv) PROVE Alike(m, sv, sv, ks)
BY DEF Alike, Onward, KnownTrue

(* A step of one member, *)
LEMMA SavesAgree ==
  ASSUME AgreeInv, UNCHANGED disk, NEW m \in Members,
         \A n \in Members \ {m} :
           /\ stage'[n] = stage[n] /\ session'[n] = session[n] /\ inbox'[n] = inbox[n]
           /\ known'[n] = known[n] /\ missed'[n] = missed[n]
           /\ Alike(n, saves, saves', known[n])
           /\ n \in linked => n \in linked',
         contested \subseteq contested',
         m \notin linked' => inbox'[m] = <<>>,
         RoomTrue(m, inbox'[m], saves', known'[m]),
         MemberTrue(m, disk, stage'[m], session'[m], inbox'[m], saves', known'[m], missed'[m],
                    contested')
  PROVE  AgreeInv'
<1>1. ASSUME NEW n \in Members \ {m}
      PROVE  /\ n \notin linked' => inbox'[n] = <<>>
             /\ RoomTrue(n, inbox'[n], saves', known'[n])
             /\ MemberTrue(n, disk, stage'[n], session'[n], inbox'[n], saves', known'[n], missed'[n],
                           contested')
  <2>1. /\ n \notin linked => inbox[n] = <<>>
        /\ RoomTrue(n, inbox[n], saves, known[n])
        /\ MemberTrue(n, disk, stage[n], session[n], inbox[n], saves, known[n], missed[n], contested)
    BY DEF AgreeInv, AgreeAt
  <2>2. Alike(n, saves, saves', known[n])
    OBVIOUS
  <2>3. RoomTrue(n, inbox[n], saves', known[n])
    BY <2>1, <2>2, RoomOn DEF Alike
  <2>4. MemberTrue(n, disk, stage[n], session[n], inbox[n], saves', known[n], missed[n], contested')
    BY <2>1, <2>2, MemberAlike
  <2> QED BY <2>1, <2>3, <2>4
<1>2. AgreeAt(disk', stage', session', saves', linked', inbox', known', missed', contested')
  BY <1>1 DEF AgreeAt
<1> QED BY <1>2 DEF AgreeInv

(* and when it leaves the saves alone. *)
LEMMA StepAgree ==
  ASSUME AgreeInv, UNCHANGED <<disk, saves>>, NEW m \in Members,
         \A n \in Members \ {m} :
           /\ stage'[n] = stage[n] /\ session'[n] = session[n] /\ inbox'[n] = inbox[n]
           /\ known'[n] = known[n] /\ missed'[n] = missed[n]
           /\ n \in linked => n \in linked',
         contested \subseteq contested',
         m \notin linked' => inbox'[m] = <<>>,
         RoomTrue(m, inbox'[m], saves, known'[m]),
         MemberTrue(m, disk, stage'[m], session'[m], inbox'[m], saves, known'[m], missed'[m],
                    contested')
  PROVE  AgreeInv'
<1>1. \A n \in Members : Alike(n, saves, saves, known[n])
  BY AlikeSelf DEF AgreeInv, AgreeAt, RoomTrue
<1> QED BY <1>1, SavesAgree

-------------------------------------------------------------------------------
(* The steps. *)

(* What is true of each member, from the invariants. *)
LEMMA AgreeParts ==
  ASSUME SheetInv, AgreeInv, NEW m \in Members
  PROVE  /\ session[m] \in Session /\ Sound(session[m])
         /\ m \notin linked => inbox[m] = <<>>
         /\ RoomTrue(m, inbox[m], saves, known[m])
         /\ MemberTrue(m, disk, stage[m], session[m], inbox[m], saves, known[m], missed[m], contested)
BY SheetsApart DEF SheetInv, AgreeInv, AgreeAt

(* open_canvas(), open_table(), close_file_tab(): what it leaves under way is contested. *)
LEMMA LeavingAgree ==
  ASSUME SheetInv, AgreeInv, NEW m \in Members, Open(m) \/ Close(m)
  PROVE  AgreeInv'
<1>1. /\ UNCHANGED <<disk, saves, linked, inbox, known, missed>>
      /\ contested \subseteq contested'
      /\ Opened(m) => UNION {saves[i].cards : i \in InFlight(m)} \subseteq contested'
  BY DEF Open, Close, Leave
<1>2. /\ stage'[m] # "open" /\ stage'[m] # "fetched" /\ session'[m] = Fresh(<<>>, {})
      /\ \A n \in Members \ {m} : stage'[n] = stage[n] /\ session'[n] = session[n]
  BY DEF Open, Close, SheetInv, SheetShape
<1>3. RoomTrue(m, inbox[m], saves, known[m]) /\ (m \notin linked => inbox[m] = <<>>)
      /\ MemberTrue(m, disk, stage[m], session[m], inbox[m], saves, known[m], missed[m], contested)
  BY AgreeParts
<1>4. MemberTrue(m, disk, stage'[m], session'[m], inbox[m], saves, known[m], missed[m], contested')
  <2>1. StageTrue(stage'[m], session'[m], saves, m)
    BY <1>2 DEF StageTrue, Fresh
  <2>2. ASSUME NEW i \in DOMAIN saves, saves[i].by = m, saves[i].cards \ contested' # {}
        PROVE  AloneTrue(stage'[m], session'[m], saves, m, i)
    <3>1. AloneTrue(stage[m], session[m], saves, m, i)
      BY <1>1, <1>3, <2>2 DEF MemberTrue
    <3>2. saves[i].settled
      BY <1>1, <2>2, <3>1 DEF AloneTrue, InFlight, Opened
    <3> QED BY <3>1, <3>2 DEF AloneTrue
  <2>3. \A c \in Cards \ contested' : LastAt(inbox[m], m, disk, c)
    BY <1>1, <1>3 DEF MemberTrue
  <2> QED BY <1>2, <2>1, <2>2, <2>3 DEF MemberTrue, ViewAt
<1> QED BY <1>1, <1>2, <1>3, <1>4, StepAgree

(* What the server answers is the file. *)
LEMMA FetchAgree ==
  ASSUME SheetInv, AgreeInv, NEW m \in Members, Fetch(m)
  PROVE  AgreeInv'
<1>1. UNCHANGED <<disk, saves, linked, inbox, contested>> /\ stage[m] = "loading"
  BY DEF Fetch
<1>2. /\ stage'[m] = "fetched" /\ session'[m] = Fresh(disk, InFlight(m)) /\ missed'[m] = {}
      /\ known'[m] = known[m] \cup {i \in DOMAIN saves : saves[i].landed}
      /\ \A n \in Members \ {m} : /\ stage'[n] = stage[n] /\ session'[n] = session[n]
                                  /\ known'[n] = known[n] /\ missed'[n] = missed[n]
  BY DEF Fetch, SheetInv, SheetShape
<1>3. RoomTrue(m, inbox[m], saves, known[m]) /\ (m \notin linked => inbox[m] = <<>>)
      /\ MemberTrue(m, disk, stage[m], session[m], inbox[m], saves, known[m], missed[m], contested)
  BY AgreeParts
<1>4. RoomTrue(m, inbox[m], saves, known'[m])
  BY <1>2, <1>3 DEF RoomTrue, KnownTrue
<1>5. MemberTrue(m, disk, stage'[m], session'[m], inbox[m], saves, known'[m], missed'[m], contested)
  <2>1. StageTrue(stage'[m], session'[m], saves, m)
    BY <1>2 DEF StageTrue, Fresh, InFlight, Under
  <2>2. ASSUME NEW i \in DOMAIN saves, saves[i].by = m, saves[i].cards \ contested # {}
        PROVE  AloneTrue(stage'[m], session'[m], saves, m, i)
    <3>1. AloneTrue(stage[m], session[m], saves, m, i)
      BY <1>3, <2>2 DEF MemberTrue
    <3> QED BY <1>1, <3>1 DEF AloneTrue
  <2>3. \A c \in Cards : FetchedAt(m, disk, session'[m].data, inbox[m], known'[m], c)
    BY <1>2, SameLaws DEF FetchedAt, Fresh
  <2> QED BY <1>2, <1>3, <2>1, <2>2, <2>3 DEF MemberTrue, ViewAt
<1> QED BY <1>1, <1>2, <1>3, <1>4, <1>5, StepAgree

(* on_loaded(). *)
LEMMA LoadedAgree ==
  ASSUME SheetInv, AgreeInv, NEW m \in Members, Loaded(m)
  PROVE  AgreeInv'
<1> DEFINE s == session[m]
<1>1. /\ UNCHANGED <<disk, session, saves, linked, inbox, known, missed, contested>>
      /\ stage[m] = "fetched"
  BY DEF Loaded, sheetHistory
<1>2. stage'[m] = "open" /\ \A n \in Members \ {m} : stage'[n] = stage[n]
  BY DEF Loaded, SheetInv, SheetShape
<1>3. /\ Sound(s) /\ RoomTrue(m, inbox[m], saves, known[m]) /\ (m \notin linked => inbox[m] = <<>>)
      /\ MemberTrue(m, disk, stage[m], s, inbox[m], saves, known[m], missed[m], contested)
  BY AgreeParts
<1>4. /\ ~s.dirty /\ s.own = {} /\ s.saved = s.data
      /\ s.prior \subseteq DOMAIN saves /\ Under(saves, m) \subseteq s.prior
  BY <1>1, <1>3 DEF MemberTrue, StageTrue, Sound
<1>5. ASSUME NEW i \in DOMAIN saves, saves[i].by = m, saves[i].cards \ contested # {}
      PROVE  saves[i].settled /\ saves[i].landed
  BY <1>1, <1>3, <1>5 DEF MemberTrue, AloneTrue
<1>6. ASSUME NEW c \in Cards \ (contested \cup missed[m])
      PROVE  OpenAt(m, disk, s, inbox[m], saves, known[m], c)
  <2>1. FetchedAt(m, disk, s.data, inbox[m], known[m], c)
    BY <1>1, <1>3 DEF MemberTrue, ViewAt
  <2>2. Awaited(inbox[m], m, c) = {} => Same(s.data, disk, c)
    BY <2>1 DEF FetchedAt
  <2>3. \A i \in Under(saves, m) : c \notin saves[i].cards
    BY <1>5 DEF Under
  <2> QED BY <1>4, <2>2, <2>3 DEF OpenAt, OwnAt, SentAt, FrozenAt, SavedAt
<1>7. MemberTrue(m, disk, stage'[m], s, inbox[m], saves, known[m], missed[m], contested)
  <2>1. StageTrue(stage'[m], s, saves, m)
    BY <1>2, <1>4 DEF StageTrue
  <2>2. ASSUME NEW i \in DOMAIN saves, saves[i].by = m, saves[i].cards \ contested # {}
        PROVE  AloneTrue(stage'[m], s, saves, m, i)
    BY <1>5, <2>2 DEF AloneTrue
  <2> QED BY <1>2, <1>3, <1>6, <2>1, <2>2 DEF MemberTrue, ViewAt
<1> QED BY <1>1, <1>2, <1>3, <1>7, StepAgree

(* A change by hand counts as the member's own. *)
LEMMA HandMember ==
  ASSUME NEW m, NEW d, NEW s, NEW q, NEW sv, NEW ks, NEW mi, NEW co,
         MemberTrue(m, d, "open", s, q, sv, ks, mi, co),
         NEW t, t.prior = s.prior, t.saved = s.saved, t.adrift = s.adrift,
         s.dirty => t.dirty, s.own \subseteq t.own, Differ(s.data, t.data) \subseteq t.own
  PROVE  MemberTrue(m, d, "open", t, q, sv, ks, mi, co)
<1>1. StageTrue("open", t, sv, m)
  BY DEF MemberTrue, StageTrue
<1>2. ASSUME NEW i \in DOMAIN sv, sv[i].by = m, sv[i].cards \ co # {}
      PROVE  AloneTrue("open", t, sv, m, i)
  BY <1>2 DEF MemberTrue, AloneTrue
<1>3. ASSUME NEW c \in Cards \ (co \cup mi) PROVE OpenAt(m, d, t, q, sv, ks, c)
  <2>1. OpenAt(m, d, s, q, sv, ks, c)
    BY DEF MemberTrue, ViewAt
  <2>2. c \notin t.own => c \notin s.own /\ Same(s.data, t.data, c)
    BY DEF Differ
  <2>3. OwnAt(m, d, t, q, c)
    BY <2>1, <2>2, SameLaws DEF OpenAt, OwnAt
  <2>4. SentAt(m, t, sv, ks, c)
    <3> SUFFICES ASSUME NEW i \in Under(sv, m), ~sv[i].landed,
                        c \in sv[i].cards \ (t.own \cup Overtaken(sv, m, ks, sv[i]))
                 PROVE  Same(t.data, sv[i].frozen, c)
      BY DEF SentAt
    <3>1. Same(s.data, sv[i].frozen, c)
      BY <2>1, <2>2 DEF OpenAt, SentAt
    <3> QED BY <2>2, <3>1, SameLaws
  <2>5. FrozenAt(m, d, t, q, sv, ks, c) /\ SavedAt(m, d, t, q, sv, c)
    BY <2>1 DEF OpenAt, FrozenAt, SavedAt
  <2> QED BY <2>3, <2>4, <2>5 DEF OpenAt
<1> QED BY <1>1, <1>2, <1>3 DEF MemberTrue, ViewAt

(* Changes by hand, and the deadline of the autosave. *)
LEMMA HandAgree ==
  ASSUME SheetInv, AgreeInv, NEW m \in Members, Opened(m),
         UNCHANGED <<disk, stage, saves, linked, inbox, known, missed, contested>>,
         NEW t, t.prior = session[m].prior, t.saved = session[m].saved,
         t.adrift = session[m].adrift, session[m].dirty => t.dirty,
         session[m].own \subseteq t.own, Differ(session[m].data, t.data) \subseteq t.own,
         session' = [session EXCEPT ![m] = t]
  PROVE  AgreeInv'
<1>1. session'[m] = t /\ \A n \in Members \ {m} : session'[n] = session[n]
  BY DEF SheetInv, SheetShape
<1>2. RoomTrue(m, inbox[m], saves, known[m]) /\ (m \notin linked => inbox[m] = <<>>)
      /\ MemberTrue(m, disk, "open", session[m], inbox[m], saves, known[m], missed[m], contested)
  BY AgreeParts DEF Opened
<1>3. MemberTrue(m, disk, "open", t, inbox[m], saves, known[m], missed[m], contested)
  BY <1>2, HandMember
<1> QED BY <1>1, <1>2, <1>3, StepAgree DEF Opened

LEMMA EditingAgree ==
  ASSUME SheetInv, AgreeInv, NEW m \in Members, NEW c \in Cards, Edit(m, c) \/ Remove(m, c)
  PROVE  AgreeInv'
<1> DEFINE s == session[m]
<1>1. /\ Opened(m) /\ c \in DOMAIN s.data
      /\ UNCHANGED <<disk, stage, saves, linked, inbox, known, missed, contested>>
  BY DEF Edit, Remove, sheetHistory
<1>2. s \in Session
  BY AgreeParts
<1>3. PICK data : /\ session' = [session EXCEPT ![m] = Changed(s, data, c)]
                  /\ Differ(s.data, data) \subseteq {c}
  <2>1. CASE Edit(m, c)
    <3> DEFINE data == [s.data EXCEPT ![c].look = tally.edits]
    <3>1. Differ(s.data, data) \subseteq {c}
      BY DEF Differ, Same
    <3>2. session' = [session EXCEPT ![m] = Changed(s, data, c)]
      BY <2>1 DEF Edit
    <3> QED BY <3>1, <3>2
  <2>2. CASE Remove(m, c)
    <3> DEFINE data == Restrict(s.data, DOMAIN s.data \ {c})
    <3>1. Differ(s.data, data) \subseteq {c}
      BY DEF Differ, Same, Restrict
    <3>2. session' = [session EXCEPT ![m] = Changed(s, data, c)]
      BY <2>2 DEF Remove
    <3> QED BY <3>1, <3>2
  <2> QED BY <1>1, <2>1, <2>2
<1> DEFINE t == Changed(s, data, c)
<1>4. /\ t.data = data /\ t.prior = s.prior /\ t.saved = s.saved /\ t.adrift = s.adrift
      /\ t.dirty /\ t.own = s.own \cup {c}
  BY <1>2 DEF Changed, Touched, Session, SessionsOf
<1> HIDE DEF t
<1>5. session' = [session EXCEPT ![m] = t]
  BY <1>3 DEF t
<1> QED BY <1>1, <1>3, <1>4, <1>5, HandAgree

LEMMA TurningAgree ==
  ASSUME SheetInv, AgreeInv, NEW m \in Members, Undo(m) \/ Redo(m)
  PROVE  AgreeInv'
<1> DEFINE s == session[m]
<1>1. Opened(m) /\ UNCHANGED <<disk, stage, saves, linked, inbox, known, missed, contested>>
  BY DEF Undo, Redo, sheetHistory
<1>2. s \in Session /\ Sound(s)
  BY AgreeParts
<1>3. PICK last, undo, redo :
        /\ session' = [session EXCEPT
                        ![m] = [Restored(s, last) EXCEPT !.undo = undo, !.redo = redo]]
        /\ Differ(s.data, last.data) \subseteq last.own
  <2>1. s.undo \in Seq(Snapshots) /\ s.redo \in Seq(Snapshots)
        /\ Chain(s.undo, s.data) /\ Chain(s.redo, s.data)
    BY <1>2, SessionStacks DEF Sound
  <2>2. CASE Undo(m)
    <3>1. s.undo # <<>>
      BY <2>2 DEF Undo
    <3>2. Differ(s.undo[Len(s.undo)].data, s.data) \subseteq s.undo[Len(s.undo)].own
      BY <2>1, <3>1, PoppedChain
    <3>3. Differ(s.data, s.undo[Len(s.undo)].data) \subseteq s.undo[Len(s.undo)].own
      BY <3>2 DEF Differ, Same
    <3> QED BY <2>2, <3>3 DEF Undo
  <2>3. CASE Redo(m)
    <3>1. s.redo # <<>>
      BY <2>3 DEF Redo
    <3>2. Differ(s.redo[Len(s.redo)].data, s.data) \subseteq s.redo[Len(s.redo)].own
      BY <2>1, <3>1, PoppedChain
    <3>3. Differ(s.data, s.redo[Len(s.redo)].data) \subseteq s.redo[Len(s.redo)].own
      BY <3>2 DEF Differ, Same
    <3> QED BY <2>3, <3>3 DEF Redo
  <2> QED BY <2>2, <2>3
<1> DEFINE t == [Restored(s, last) EXCEPT !.undo = undo, !.redo = redo]
<1>4. /\ t.data = last.data /\ t.prior = s.prior /\ t.saved = s.saved /\ t.adrift = s.adrift
      /\ t.dirty /\ t.own = s.own \cup last.own
  BY <1>2 DEF Restored, Touched, Session, SessionsOf
<1> HIDE DEF t
<1>5. session' = [session EXCEPT ![m] = t]
  BY <1>3 DEF t
<1> QED BY <1>1, <1>3, <1>4, <1>5, HandAgree

LEMMA TalkingAgree ==
  ASSUME SheetInv, AgreeInv, NEW m \in Members, NEW c \in DOMAIN locks, Ask(m, c) \/ Reply(m, c)
  PROVE  AgreeInv'
<1> DEFINE s == session[m]
           data == [s.data EXCEPT ![c].msgs = @ \cup {tally.said}]
<1>1. Opened(m) /\ UNCHANGED <<disk, stage, saves, linked, inbox, known, missed, contested>>
  BY DEF Ask, Reply, sheetHistory
<1>2. s \in Session
  BY AgreeParts
<1>3. PICK r : session' = [session EXCEPT ![m] = [Spoken(s, c, tally.said) EXCEPT !.running = r]]
  BY DEF Ask, Reply
<1> DEFINE t == [Spoken(s, c, tally.said) EXCEPT !.running = r]
<1>4. /\ t.data = data /\ t.prior = s.prior /\ t.saved = s.saved /\ t.adrift = s.adrift
      /\ t.dirty /\ t.own = s.own \cup {c}
  BY <1>2 DEF Spoken, Touched, Session, SessionsOf
<1>5. Differ(s.data, data) \subseteq {c}
  BY DEF Differ, Same
<1> HIDE DEF t, data
<1>6. session' = [session EXCEPT ![m] = t]
  BY <1>3 DEF t
<1> QED BY <1>1, <1>4, <1>5, <1>6, HandAgree

LEMMA ArmAgree ==
  ASSUME SheetInv, AgreeInv, NEW m \in Members, Arm(m)
  PROVE  AgreeInv'
<1> DEFINE s == session[m]
           t == [s EXCEPT !.armed = TRUE]
<1>1. /\ Opened(m) /\ UNCHANGED <<disk, stage, saves, linked, inbox, known, missed, contested>>
      /\ session' = [session EXCEPT ![m] = t]
  BY DEF Arm, sheetHistory
<1>2. /\ t.data = s.data /\ t.prior = s.prior /\ t.saved = s.saved /\ t.adrift = s.adrift
      /\ t.dirty = s.dirty /\ t.own = s.own
  BY AgreeParts DEF Session, SessionsOf
<1>3. Differ(s.data, s.data) = {}
  BY DEF Differ, Same
<1> HIDE DEF t
<1> QED BY <1>1, <1>2, <1>3, HandAgree

(* The connection ends: of what was on its way the session is not told. *)
LEMMA LinkAgree ==
  ASSUME SheetInv, AgreeInv, NEW m \in Members, Cut(m) \/ Link(m)
  PROVE  AgreeInv'
<1>1. UNCHANGED <<disk, stage, session, saves, known, contested>>
  BY DEF Cut, Link, sheetHistory
<1>2. /\ RoomTrue(m, inbox[m], saves, known[m]) /\ (m \notin linked => inbox[m] = <<>>)
      /\ MemberTrue(m, disk, stage[m], session[m], inbox[m], saves, known[m], missed[m], contested)
  BY AgreeParts
<1>3. CASE Link(m)
  <2>1. UNCHANGED <<inbox, missed>> /\ linked' = linked \cup {m}
    BY <1>3 DEF Link, sheetHistory
  <2> QED BY <1>1, <1>2, <2>1, StepAgree
<1>4. CASE Cut(m)
  <2>1. /\ inbox'[m] = <<>> /\ linked' = linked \ {m}
        /\ missed'[m] = missed[m] \cup UNION {Touches(inbox[m][k].patch) : k \in DOMAIN inbox[m]}
        /\ \A n \in Members \ {m} : inbox'[n] = inbox[n] /\ missed'[n] = missed[n]
    BY <1>4 DEF Cut, SheetInv, SheetShape
  <2>2. \A c \in Cards \ missed'[m] : c \notin missed[m] /\ Awaited(inbox[m], m, c) = {}
    BY <2>1 DEF Awaited
  <2>3. \A c : Awaited(<<>>, m, c) = {}
    BY DEF Awaited
  <2>4. RoomTrue(m, <<>>, saves, known[m])
    BY <1>2 DEF RoomTrue, SaveTrue
  <2>5. ASSUME NEW c \in Cards \ (contested \cup missed'[m])
        PROVE  ViewAt(m, disk, stage[m], session[m], <<>>, saves, known[m], c)
    <3>1. /\ ViewAt(m, disk, stage[m], session[m], inbox[m], saves, known[m], c)
          /\ Awaited(inbox[m], m, c) = {} /\ Awaited(<<>>, m, c) = {}
      BY <1>2, <2>2, <2>3 DEF MemberTrue
    <3> QED BY <3>1 DEF ViewAt, OpenAt, OwnAt, SentAt, FrozenAt, SavedAt, FetchedAt
  <2>6. \A c : LastAt(<<>>, m, disk, c)
    BY <2>3 DEF LastAt
  <2>7. MemberTrue(m, disk, stage[m], session[m], <<>>, saves, known[m], missed'[m], contested)
    BY <1>2, <2>5, <2>6 DEF MemberTrue
  <2> QED BY <1>1, <2>1, <2>4, <2>7, StepAgree
<1> QED BY <1>3, <1>4

(* A frame leaves the queue. *)
LEMMA AwaitedRest ==
  ASSUME NEW q \in Seq(Frames), q # <<>>, NEW m, NEW c, NEW k \in Awaited(q, m, c), k # 1
  PROVE  \E j \in Awaited(Tail(q), m, c) : j \in Nat /\ k = j + 1
<1>1. /\ Len(q) \in Nat \ {0} /\ DOMAIN q = 1..Len(q) /\ DOMAIN Tail(q) = 1..(Len(q) - 1)
      /\ \A j \in DOMAIN Tail(q) : Tail(q)[j] = q[j + 1]
  OBVIOUS
<1>2. k \in DOMAIN q
  BY DEF Awaited
<1>3. k - 1 \in DOMAIN Tail(q) /\ k - 1 + 1 = k /\ k - 1 \in Nat
  BY <1>1, <1>2
<1>4. Tail(q)[k - 1] = q[k]
  BY <1>1, <1>3
<1> QED BY <1>3, <1>4 DEF Awaited

LEMMA AwaitedTail ==
  ASSUME NEW q \in Seq(Frames), q # <<>>, NEW m, NEW c
  PROVE  /\ \A k \in DOMAIN Tail(q) : k \in Nat /\ k + 1 \in DOMAIN q /\ Tail(q)[k] = q[k + 1]
         /\ \A k : k \in Awaited(Tail(q), m, c) <=> k \in Nat /\ k # 0 /\ k + 1 \in Awaited(q, m, c)
         /\ 1 \in Awaited(q, m, c) => Head(q).by # m /\ c \in Touches(Head(q).patch)
         /\ Head(q).by # m /\ c \in Touches(Head(q).patch) => 1 \in Awaited(q, m, c)
         /\ Head(q) = q[1] /\ 1 \in DOMAIN q
<1>1. /\ Len(q) \in Nat \ {0} /\ DOMAIN q = 1..Len(q) /\ DOMAIN Tail(q) = 1..(Len(q) - 1)
      /\ Head(q) = q[1]
      /\ \A k \in DOMAIN Tail(q) : Tail(q)[k] = q[k + 1]
  OBVIOUS
<1>2. \A k \in DOMAIN Tail(q) : k \in Nat /\ k + 1 \in DOMAIN q /\ Tail(q)[k] = q[k + 1]
  BY <1>1
<1>3. ASSUME NEW k PROVE k \in Awaited(Tail(q), m, c) <=> k \in Nat /\ k # 0 /\ k + 1 \in Awaited(q, m, c)
  <2>1. k \in DOMAIN Tail(q) <=> k \in Nat /\ k # 0 /\ k + 1 \in DOMAIN q
    BY <1>1
  <2> QED BY <1>2, <2>1 DEF Awaited
<1>4. ASSUME 1 \in Awaited(q, m, c) PROVE Head(q).by # m /\ c \in Touches(Head(q).patch)
  BY <1>1, <1>4 DEF Awaited
<1>5. 1 \in DOMAIN q
  BY <1>1
<1>6. Head(q).by # m /\ c \in Touches(Head(q).patch) => 1 \in Awaited(q, m, c)
  BY <1>1, <1>5 DEF Awaited
<1> QED BY <1>1, <1>2, <1>3, <1>4, <1>5, <1>6

(* Last of the frames on a card, it stays the last. *)
LEMMA LastTail ==
  ASSUME NEW q \in Seq(Frames), q # <<>>, NEW m, NEW d, NEW c, LastAt(q, m, d, c)
  PROVE  LastAt(Tail(q), m, d, c)
<1> SUFFICES ASSUME NEW k \in Awaited(Tail(q), m, c),
                    \A n \in Awaited(Tail(q), m, c) : n <= k
             PROVE  Same(Tail(q)[k].patch.put, d, c)
  BY DEF LastAt
<1>1. /\ k \in Nat /\ k # 0 /\ k + 1 \in Awaited(q, m, c) /\ k \in DOMAIN Tail(q)
      /\ Tail(q)[k] = q[k + 1]
  BY AwaitedTail DEF Awaited
<1>2. ASSUME NEW n \in Awaited(q, m, c) PROVE n <= k + 1
  <2>1. CASE n = 1
    BY <1>1, <2>1
  <2>2. CASE n # 1
    <3>1. PICK j \in Awaited(Tail(q), m, c) : j \in Nat /\ n = j + 1
      BY <2>2, AwaitedRest
    <3> QED BY <1>1, <3>1
  <2> QED BY <2>1, <2>2
<1> QED BY <1>1, <1>2 DEF LastAt

(* The first of the frames on a card, when it is the only one. *)
LEMMA LastHead ==
  ASSUME NEW q \in Seq(Frames), q # <<>>, NEW m, NEW d, NEW c, LastAt(q, m, d, c),
         Head(q).by # m, c \in Touches(Head(q).patch), Awaited(Tail(q), m, c) = {}
  PROVE  Same(Head(q).patch.put, d, c)
<1>1. Awaited(q, m, c) = {1}
  BY AwaitedTail, AwaitedRest
<1>2. Head(q) = q[1]
  BY AwaitedTail
<1> QED BY <1>1, <1>2 DEF LastAt

(* The patch of another moves the session and its baseline, each card that it has. *)
LEMMA MergedAt ==
  ASSUME NEW s \in Session, Sound(s), NEW p \in Patches, NEW c \in Cards,
         kind \in {"canvas", "table"}
  PROVE  LET t == Merge(s, p)
         IN /\ t.own = s.own /\ t.prior = s.prior /\ t.dirty = s.dirty
            /\ c \notin Touches(p) => /\ Same(t.data, s.data, c) /\ Same(t.saved, s.saved, c)
                                      /\ c \in t.adrift => c \in s.adrift
                                      /\ c \in s.adrift => c \in t.adrift
            /\ c \in Touches(p) /\ c \notin s.own => Same(t.data, p.put, c)
            /\ c \in Touches(p) /\ c \notin t.adrift => Same(t.saved, p.put, c)
<1> DEFINE came == Apply(s.data, p)
           kept == Guarded(s, p)
           data == IF kind = "canvas"
                   THEN [x \in DOMAIN came |->
                          IF x \in kept
                          THEN [came[x] EXCEPT !.msgs = MergeMessages(@, s.data[x].msgs)]
                          ELSE came[x]]
                   ELSE came
           saved == IF kind = "canvas" THEN Apply(s.saved, p)
                    ELSE IF s.dirty THEN s.saved ELSE came
           adrift == Behind(s, saved, p)
           t == Merge(s, p)
<1>1. /\ t.data = data /\ t.saved = saved /\ t.adrift = adrift
      /\ t.own = s.own /\ t.prior = s.prior /\ t.dirty = s.dirty
  BY DEF Merge, MergeCanvas, MergeTable, Session, SessionsOf
<1>2. IF c \in Touches(p) THEN Same(came, p.put, c) ELSE Same(came, s.data, c)
  BY AppliedAt
<1>3. kept \subseteq DOMAIN p.put /\ (kind = "canvas" => kept \cap Cards \subseteq s.own)
  <2>1. kept \cap Cards \subseteq Differ(s.saved, s.data)
    BY DEF Guarded, Differ, Same
  <2> QED BY <2>1 DEF Guarded, Sound
<1>4. kind = "table" \/ c \notin kept => Same(data, came, c)
  BY DEF Same
<1>5. c \notin Touches(p) => Same(saved, s.saved, c)
  <2>1. c \notin Touches(p) => Same(Apply(s.saved, p), s.saved, c)
    BY AppliedAt
  <2>2. ~s.dirty => s.data = s.saved
    BY DEF Sound
  <2> QED BY <1>2, <2>1, <2>2, SameLaws
<1>6. /\ c \notin Touches(p) => (c \in adrift <=> c \in s.adrift)
      /\ c \in Touches(p) /\ c \notin adrift => Same(saved, came, c)
  BY DEF Behind
<1>7. c \notin Touches(p) => Same(data, s.data, c)
  BY <1>2, <1>3, <1>4, SameLaws DEF Touches
<1>8. c \in Touches(p) /\ c \notin s.own => Same(data, p.put, c)
  BY <1>2, <1>3, <1>4, SameLaws
<1> HIDE DEF came, kept, data, saved, adrift
<1>9. c \in Touches(p) /\ c \notin adrift => Same(saved, p.put, c)
  BY <1>2, <1>6, SameLaws
<1> QED BY <1>1, <1>5, <1>6, <1>7, <1>8, <1>9

(* A frame that is the member's own, or not on the card, changes nothing of it. *)
LEMMA PassedOpen ==
  ASSUME NEW m, NEW d, NEW s, NEW q \in Seq(Frames), q # <<>>, NEW sv, NEW ks, NEW c,
         OpenAt(m, d, s, q, sv, ks, c), FrameTrue(sv, Head(q)),
         Head(q).by = m \/ c \notin Touches(Head(q).patch),
         NEW t, t.own = s.own, t.prior = s.prior,
         Same(t.data, s.data, c), Same(t.saved, s.saved, c), c \in s.adrift => c \in t.adrift
  PROVE  OpenAt(m, d, t, Tail(q), sv, ks \cup {Head(q).save}, c)
<1> DEFINE f == Head(q)
           ks2 == ks \cup {f.save}
<1>1. Awaited(Tail(q), m, c) = {} => Awaited(q, m, c) = {}
  BY AwaitedTail, AwaitedRest
<1>2. \A save : c \in Overtaken(sv, m, ks, save) => c \in Overtaken(sv, m, ks2, save)
  BY DEF Overtaken
<1>3. OwnAt(m, d, t, Tail(q), c)
  BY <1>1, SameLaws DEF OpenAt, OwnAt
<1>4. SentAt(m, t, sv, ks2, c)
  <2> SUFFICES ASSUME NEW i \in Under(sv, m), ~sv[i].landed,
                      c \in sv[i].cards \ (t.own \cup Overtaken(sv, m, ks2, sv[i]))
               PROVE  Same(t.data, sv[i].frozen, c)
    BY DEF SentAt
  <2>1. Same(s.data, sv[i].frozen, c)
    BY <1>2 DEF OpenAt, SentAt
  <2> QED BY <2>1, SameLaws
<1>5. FrozenAt(m, d, t, Tail(q), sv, ks2, c)
  BY <1>1, <1>2 DEF OpenAt, FrozenAt
<1>6. SavedAt(m, d, t, Tail(q), sv, c)
  BY <1>1, SameLaws DEF OpenAt, SavedAt
<1> QED BY <1>3, <1>4, <1>5, <1>6 DEF OpenAt

(* A frame of another on the card: what was frozen is overtaken, and the last frame is    *)
(* what the file has.                                                                     *)
LEMMA MergedOpen ==
  ASSUME NEW m, NEW d, NEW q \in Seq(Frames), q # <<>>, NEW sv, NEW ks, NEW c,
         RoomTrue(m, q, sv, ks), LastAt(q, m, d, c),
         Head(q).by # m, c \in Touches(Head(q).patch),
         NEW t, c \notin t.own => Same(t.data, Head(q).patch.put, c),
         c \notin t.adrift => Same(t.saved, Head(q).patch.put, c)
  PROVE  OpenAt(m, d, t, Tail(q), sv, ks \cup {Head(q).save}, c)
<1> DEFINE f == Head(q)
           ks2 == ks \cup {f.save}
<1>1. f = q[1] /\ 1 \in DOMAIN q
  BY AwaitedTail
<1>2. sv[f.save].by # m /\ c \in sv[f.save].cards
  BY <1>1 DEF RoomTrue, FrameTrue
<1>3. ASSUME NEW i \in Under(sv, m) PROVE c \in Overtaken(sv, m, ks2, sv[i])
  <2>1. sv[i].by = m /\ SaveTrue(q, sv, sv[i])
    BY DEF RoomTrue, Under
  <2>2. f.save \notin sv[i].knew
    BY <1>1, <2>1 DEF SaveTrue
  <2> QED BY <1>2, <2>2 DEF Overtaken
<1>4. Awaited(Tail(q), m, c) = {} => Same(f.patch.put, d, c)
  BY LastHead
<1>5. OwnAt(m, d, t, Tail(q), c)
  BY <1>4, SameLaws DEF OwnAt
<1>6. SentAt(m, t, sv, ks2, c)
  BY <1>3 DEF SentAt
<1>7. FrozenAt(m, d, t, Tail(q), sv, ks2, c)
  BY <1>3 DEF FrozenAt
<1>8. SavedAt(m, d, t, Tail(q), sv, c)
  BY <1>4, SameLaws DEF SavedAt
<1> QED BY <1>5, <1>6, <1>7, <1>8 DEF OpenAt

(* What the GET has read covers the frame, or the frame is not on the card. *)
LEMMA PassedFetched ==
  ASSUME NEW m, NEW d, NEW g, NEW q \in Seq(Frames), q # <<>>, NEW sv, NEW ks, NEW c,
         RoomTrue(m, q, sv, ks), FetchedAt(m, d, g, q, ks, c),
         Head(q).save \in ks \/ c \notin Touches(Head(q).patch)
  PROVE  FetchedAt(m, d, g, Tail(q), ks \cup {Head(q).save}, c)
<1> DEFINE f == Head(q)
<1> SUFFICES ASSUME \A k \in Awaited(Tail(q), m, c) : Tail(q)[k].save \in ks \cup {f.save},
                    NEW k \in Awaited(q, m, c)
             PROVE  q[k].save \in ks
  BY DEF FetchedAt
<1>1. f = q[1] /\ 1 \in DOMAIN q
  BY AwaitedTail
<1>2. k \in DOMAIN q /\ c \in Touches(q[k].patch)
  BY DEF Awaited
<1>3. CASE k = 1
  BY <1>1, <1>2, <1>3
<1>4. CASE k # 1
  <2>1. q[k].save \in ks \cup {f.save}
    <3>1. PICK j \in Awaited(Tail(q), m, c) : k = j + 1
      BY <1>4, AwaitedRest
    <3>2. Tail(q)[j] = q[k]
      BY <3>1, AwaitedTail DEF Awaited
    <3> QED BY <3>2
  <2>2. q[k].save = f.save => Touches(q[k].patch) = Touches(f.patch)
    BY <1>1, <1>2 DEF RoomTrue, FrameTrue
  <2> QED BY <1>2, <2>1, <2>2
<1> QED BY <1>3, <1>4

(* What the room of m is after a frame. *)
LEMMA RoomTail ==
  ASSUME NEW m, NEW q \in Seq(Frames), q # <<>>, NEW sv, NEW ks, RoomTrue(m, q, sv, ks)
  PROVE  RoomTrue(m, Tail(q), sv, ks \cup {Head(q).save})
<1>1. \A k \in DOMAIN Tail(q) : k + 1 \in DOMAIN q /\ Tail(q)[k] = q[k + 1]
  BY AwaitedTail
<1>2. FrameTrue(sv, Head(q))
  BY AwaitedTail DEF RoomTrue
<1>3. KnownTrue(ks \cup {Head(q).save}, m, sv)
  BY <1>2 DEF RoomTrue, KnownTrue, FrameTrue
<1>4. \A i \in DOMAIN sv : sv[i].by = m => SaveTrue(Tail(q), sv, sv[i])
  BY <1>1 DEF RoomTrue, SaveTrue
<1> QED BY <1>1, <1>3, <1>4 DEF RoomTrue

(* on_remote_canvas_patch(), on_remote_table_patch(). *)
LEMMA ReceivingAgree ==
  ASSUME SheetInv, AgreeInv, NEW m \in Members, Receive(m)
  PROVE  AgreeInv'
<1> DEFINE q == inbox[m]
           f == Head(q)
           s == session[m]
           t == session'[m]
           ks == known[m]
           merged == Opened(m) /\ f.by # m
<1>1. /\ UNCHANGED <<disk, stage, saves, linked, contested>> /\ q # <<>>
      /\ inbox'[m] = Tail(q) /\ known'[m] = ks \cup {f.save}
      /\ missed'[m] = IF Opened(m) \/ f.save \in ks THEN missed[m]
                      ELSE missed[m] \cup Touches(f.patch)
      /\ t = IF merged THEN Merge(s, f.patch) ELSE s
      /\ \A n \in Members \ {m} : /\ session'[n] = session[n] /\ inbox'[n] = inbox[n]
                                  /\ known'[n] = known[n] /\ missed'[n] = missed[n]
  BY DEF Receive, SheetInv, SheetShape
<1>2. /\ s \in Session /\ Sound(s) /\ (m \notin linked => q = <<>>)
      /\ RoomTrue(m, q, saves, ks)
      /\ MemberTrue(m, disk, stage[m], s, q, saves, ks, missed[m], contested)
  BY AgreeParts
<1>3. q \in Seq(Frames) /\ kind \in {"canvas", "table"}
  BY DEF SheetInv, SheetShape
<1>4. f = q[1] /\ 1 \in DOMAIN q /\ f \in Frames /\ FrameTrue(saves, f)
  BY <1>1, <1>2, <1>3, AwaitedTail DEF RoomTrue
<1>5. f.patch \in Patches
  BY <1>4 DEF Frames
<1> HIDE DEF f, q, s, t, ks
<1>6. RoomTrue(m, Tail(q), saves, ks \cup {f.save})
  BY <1>1, <1>2, <1>3, RoomTail DEF f
<1>7. /\ t.own = s.own /\ t.prior = s.prior /\ t.dirty = s.dirty
      /\ ~merged => t = s
      /\ \A c \in Cards :
           /\ c \notin Touches(f.patch) =>
                /\ Same(t.data, s.data, c) /\ Same(t.saved, s.saved, c)
                /\ c \in s.adrift => c \in t.adrift
           /\ merged /\ c \in Touches(f.patch) =>
                /\ c \notin t.own => Same(t.data, f.patch.put, c)
                /\ c \notin t.adrift => Same(t.saved, f.patch.put, c)
  <2>1. CASE merged
    <3>1. t = Merge(s, f.patch)
      BY <1>1, <2>1
    <3> HIDE DEF merged
    <3>2. t.own = s.own /\ t.prior = s.prior /\ t.dirty = s.dirty
      BY <3>1 DEF Merge, MergeCanvas, MergeTable, Session, SessionsOf
    <3> QED BY <1>2, <1>3, <1>5, <2>1, <3>1, <3>2, MergedAt
  <2>2. CASE ~merged
    BY <1>1, <2>2, SameLaws
  <2> QED BY <2>1, <2>2
<1>8. ASSUME NEW c \in Cards \ (contested \cup missed'[m])
      PROVE  ViewAt(m, disk, stage[m], t, Tail(q), saves, ks \cup {f.save}, c)
  <2>1. /\ c \in Cards \ (contested \cup missed[m])
        /\ LastAt(q, m, disk, c) /\ ViewAt(m, disk, stage[m], s, q, saves, ks, c)
    BY <1>1, <1>2, <1>8 DEF MemberTrue
  <2>2. CASE stage[m] = "open"
    <3>1. OpenAt(m, disk, s, q, saves, ks, c)
      BY <2>1, <2>2 DEF ViewAt
    <3>2. CASE merged /\ c \in Touches(f.patch)
      <4>1. f.by # m
        BY <3>2
      <4>2. /\ c \notin t.own => Same(t.data, f.patch.put, c)
            /\ c \notin t.adrift => Same(t.saved, f.patch.put, c)
        BY <1>7, <2>1, <3>2
      <4>3. OpenAt(m, disk, t, Tail(q), saves, ks \cup {f.save}, c)
        BY <1>1, <1>2, <1>3, <2>1, <3>2, <4>1, <4>2, MergedOpen DEF f
      <4> QED BY <2>2, <4>3 DEF ViewAt
    <3>3. CASE f.by = m \/ c \notin Touches(f.patch)
      <4>1. /\ t.own = s.own /\ t.prior = s.prior
            /\ Same(t.data, s.data, c) /\ Same(t.saved, s.saved, c) /\ (c \in s.adrift => c \in t.adrift)
        BY <1>7, <2>1, <3>3, SameLaws
      <4>2. OpenAt(m, disk, t, Tail(q), saves, ks \cup {f.save}, c)
        BY <1>1, <1>3, <1>4, <3>1, <3>3, <4>1, PassedOpen DEF f
      <4> QED BY <2>2, <4>2 DEF ViewAt
    <3> QED BY <2>2, <3>2, <3>3 DEF Opened
  <2>3. CASE stage[m] = "fetched"
    <3>1. ~Opened(m) /\ t = s
      BY <1>7, <2>3 DEF Opened
    <3>2. f.save \in ks \/ c \notin Touches(f.patch)
      BY <1>1, <1>8, <3>1
    <3>3. FetchedAt(m, disk, s.data, q, ks, c)
      BY <2>1, <2>3 DEF ViewAt
    <3>4. FetchedAt(m, disk, s.data, Tail(q), ks \cup {f.save}, c)
      BY <1>1, <1>2, <1>3, <3>2, <3>3, PassedFetched DEF f
    <3> QED BY <2>3, <3>1, <3>4 DEF ViewAt
  <2>4. CASE stage[m] # "open" /\ stage[m] # "fetched"
    BY <2>4 DEF ViewAt
  <2> QED BY <2>2, <2>3, <2>4
<1>9. MemberTrue(m, disk, stage[m], t, Tail(q), saves, ks \cup {f.save}, missed'[m], contested)
  <2>1. StageTrue(stage[m], t, saves, m)
    BY <1>2, <1>7 DEF MemberTrue, StageTrue
  <2>2. ASSUME NEW i \in DOMAIN saves, saves[i].by = m, saves[i].cards \ contested # {}
        PROVE  AloneTrue(stage[m], t, saves, m, i)
    BY <1>2, <1>7, <2>2 DEF MemberTrue, AloneTrue
  <2>3. \A c \in Cards \ contested : LastAt(Tail(q), m, disk, c)
    BY <1>1, <1>2, <1>3, LastTail DEF MemberTrue
  <2> QED BY <1>8, <2>1, <2>2, <2>3 DEF MemberTrue
<1> QED BY <1>1, <1>2, <1>6, <1>9, StepAgree DEF q, t, ks

(* One more save. *)
LEMMA SavesGrow ==
  ASSUME NEW old \in Seq(Saves), NEW save
  PROVE  LET new == Append(old, save)
             k == Len(old) + 1
         IN /\ Onward(old, new) /\ DOMAIN new = DOMAIN old \cup {k} /\ k \notin DOMAIN old
            /\ new[k] = save /\ \A i \in DOMAIN old : new[i] = old[i]
<1>1. LET new == Append(old, save)
          k == Len(old) + 1
      IN /\ DOMAIN new = DOMAIN old \cup {k} /\ k \notin DOMAIN old
         /\ new[k] = save /\ \A i \in DOMAIN old : new[i] = old[i]
  OBVIOUS
<1> QED BY <1>1 DEF Onward

(* The frames of others that wait are what m does not know. *)
LEMMA SubmitRoom ==
  ASSUME NEW m \in Members, NEW old \in Seq(Saves), NEW q, NEW ks, RoomTrue(m, q, old, ks),
         NEW waiting, \A k \in DOMAIN q : q[k].by # m => q[k].save \in waiting,
         NEW save, save.by = m, save.knew = ks \ waiting,
         save.cards = Touches(save.patch),
         \A c \in save.cards : Same(save.patch.put, save.frozen, c)
  PROVE  RoomTrue(m, q, Append(old, save), ks \cup {Len(old) + 1})
<1> DEFINE new == Append(old, save)
           k == Len(old) + 1
<1>1. /\ Onward(old, new) /\ DOMAIN new = DOMAIN old \cup {k} /\ k \notin DOMAIN old
      /\ new[k] = save /\ \A i \in DOMAIN old : new[i] = old[i]
  BY SavesGrow
<1> HIDE DEF new, k
<1>2. KnownTrue(ks, m, new)
  BY <1>1, KnownOn DEF RoomTrue
<1>3. SaveTrue(q, new, save)
  BY <1>2 DEF SaveTrue, KnownTrue
<1>4. RoomTrue(m, q, new, ks)
  BY <1>1, <1>3, RoomOn
<1> QED BY <1>1, <1>2, <1>4 DEF RoomTrue, KnownTrue, new, k

(* A card after the submission: what is frozen is what the session shows, and what it does *)
(* not send is the baseline.                                                                *)
LEMMA SubmitOpen ==
  ASSUME NEW m \in Members, NEW d, NEW s, NEW old \in Seq(Saves), NEW q, NEW ks, NEW c,
         OpenAt(m, d, s, q, old, ks, c), KnownTrue(ks, m, old),
         NEW save, save.by = m, ~save.landed, ~save.settled,
         save.frozen = s.data, c \notin save.cards => Same(s.saved, s.data, c),
         c \in s.adrift => ~Same(s.data, s.saved, c),
         \A i \in Under(old, m) : c \notin old[i].cards
  PROVE  OpenAt(m, d, s, q, Append(old, save), ks \cup {Len(old) + 1}, c)
<1> DEFINE new == Append(old, save)
           k == Len(old) + 1
           ks2 == ks \cup {k}
<1>1. /\ DOMAIN new = DOMAIN old \cup {k} /\ k \notin DOMAIN old
      /\ new[k] = save /\ \A i \in DOMAIN old : new[i] = old[i]
  BY SavesGrow
<1> HIDE DEF new, k
<1>2. Under(new, m) = Under(old, m) \cup {k} /\ \A i \in Under(old, m) : new[i] = old[i]
  BY <1>1 DEF Under
<1>3. \A x : Overtaken(new, m, ks2, x) = Overtaken(old, m, ks, x)
  BY <1>1 DEF Overtaken, KnownTrue
<1>4. SentAt(m, s, new, ks2, c)
  BY <1>1, <1>2, <1>3, SameLaws DEF OpenAt, SentAt
<1>5. FrozenAt(m, d, s, q, new, ks2, c)
  <2>1. Awaited(q, m, c) = {} /\ c \notin save.cards => Same(s.data, d, c)
    BY SameLaws DEF OpenAt, SavedAt
  <2> QED BY <1>1, <1>2, <1>3, <2>1 DEF OpenAt, FrozenAt
<1>6. SavedAt(m, d, s, q, new, c)
  BY <1>2 DEF OpenAt, SavedAt
<1> QED BY <1>4, <1>5, <1>6 DEF OpenAt, new, k

(* space_submit_canvas_save(), space_submit_table_save(). *)
LEMMA SubmitMember ==
  ASSUME SheetInv, NEW m \in Members, NEW s \in Session, s.dirty, NEW old \in Seq(Saves),
         RoomTrue(m, inbox[m], old, known[m]),
         MemberTrue(m, disk, "open", s, inbox[m], old, known[m], missed[m], contested),
         NEW flush, Submit(m, s, old, flush)
  PROVE  /\ known'[m] = known[m] \cup {Len(old) + 1}
         /\ \A n \in Members \ {m} : known'[n] = known[n]
         /\ contested \subseteq contested'
         /\ RoomTrue(m, inbox[m], saves', known'[m])
         /\ MemberTrue(m, disk, "open", s, inbox[m], saves', known'[m], missed[m], contested')
         /\ \A n \in Members \ {m} : \A ks : KnownTrue(ks, n, old) => Alike(n, old, saves', ks)
<1> DEFINE patch == Diff(s.saved, s.data)
           save == [by |-> m, patch |-> patch, frozen |-> s.data,
                    flush |-> flush, landed |-> FALSE, settled |-> FALSE,
                    cards |-> Touches(patch), knew |-> known[m] \ Waiting(m)]
           k == Len(old) + 1
           ks2 == known[m] \cup {k}
           q == inbox[m]
<1>1. /\ saves' = Append(old, save)
      /\ known' = [known EXCEPT ![m] = @ \cup {k}]
      /\ contested' = contested \cup {c \in s.adrift : Same(s.data, s.saved, c)}
           \cup (IF Under(old, m) = {} THEN {}
                 ELSE save.cards \cup UNION {old[i].cards : i \in Under(old, m)})
  BY DEF Submit, Under
<1>2. known'[m] = ks2 /\ \A n \in Members \ {m} : known'[n] = known[n]
  BY <1>1 DEF SheetInv, SheetShape
<1>3. \A c \in Cards : IF c \in save.cards THEN Same(patch.put, s.data, c) ELSE Same(s.saved, s.data, c)
  BY DiffAt
<1>4. save.cards \subseteq Cards
  BY SessionSheets, DiffPatch, Applied
<1>5. /\ save.by = m /\ save.patch = patch /\ save.frozen = s.data /\ save.cards = Touches(patch)
      /\ ~save.landed /\ ~save.settled /\ save.knew = known[m] \ Waiting(m)
  OBVIOUS
<1> HIDE DEF patch, save
<1>6. /\ Onward(old, saves') /\ DOMAIN saves' = DOMAIN old \cup {k} /\ k \notin DOMAIN old
      /\ saves'[k] = save /\ \A i \in DOMAIN old : saves'[i] = old[i]
  BY <1>1, SavesGrow
<1>7. RoomTrue(m, q, saves', ks2)
  <2>1. \A n \in DOMAIN q : q[n].by # m => q[n].save \in Waiting(m)
    BY DEF Waiting
  <2>2. \A c \in save.cards : Same(save.patch.put, save.frozen, c)
    BY <1>3, <1>4, <1>5
  <2> QED BY <1>1, <1>5, <2>1, <2>2, SubmitRoom
<1> HIDE DEF k
<1>8. Under(saves', m) = Under(old, m) \cup {k}
  BY <1>5, <1>6 DEF Under
<1>9. contested \subseteq contested'
  BY <1>1
<1>10. StageTrue("open", s, saves', m)
  BY <1>6 DEF MemberTrue, StageTrue
<1>11. ASSUME NEW i \in DOMAIN saves', saves'[i].by = m, saves'[i].cards \ contested' # {}
       PROVE  AloneTrue("open", s, saves', m, i)
  <2>1. CASE i = k
    <3>1. Under(old, m) = {}
      BY <1>1, <1>6, <1>11, <2>1
    <3>2. k \notin s.prior
      BY <1>6 DEF MemberTrue, StageTrue
    <3> QED BY <1>5, <1>6, <1>8, <2>1, <3>1, <3>2 DEF AloneTrue
  <2>2. CASE i \in DOMAIN old
    <3>1. AloneTrue("open", s, old, m, i) /\ saves'[i] = old[i]
      BY <1>6, <1>9, <1>11, <2>2 DEF MemberTrue
    <3>2. i \notin Under(old, m)
      BY <1>1, <1>11, <3>1
    <3> QED BY <1>11, <2>2, <3>1, <3>2 DEF AloneTrue, Under
  <2> QED BY <1>6, <1>11, <2>1, <2>2
<1>12. ASSUME NEW c \in Cards \ (contested' \cup missed[m])
       PROVE  OpenAt(m, disk, s, q, saves', ks2, c)
  <2>1. OpenAt(m, disk, s, q, old, known[m], c)
    BY <1>9 DEF MemberTrue, ViewAt
  <2>2. /\ c \in s.adrift => ~Same(s.data, s.saved, c)
        /\ \A i \in Under(old, m) : c \notin old[i].cards
    BY <1>1
  <2>3. KnownTrue(known[m], m, old)
    BY DEF RoomTrue
  <2>4. c \notin save.cards => Same(s.saved, s.data, c)
    BY <1>3
  <2> QED BY <1>1, <1>5, <2>1, <2>2, <2>3, <2>4, SubmitOpen DEF k
<1>13. MemberTrue(m, disk, "open", s, q, saves', ks2, missed[m], contested')
  BY <1>9, <1>10, <1>11, <1>12 DEF MemberTrue, ViewAt
<1>14. ASSUME NEW n \in Members \ {m}, NEW ks, KnownTrue(ks, n, old)
       PROVE  Alike(n, old, saves', ks)
  BY <1>5, <1>6, <1>14 DEF Alike, KnownTrue
<1> QED BY <1>2, <1>7, <1>9, <1>13, <1>14 DEF k

(* A save is over. *)
Ended(sv, i) == [sv EXCEPT ![i] = Over(@)]

LEMMA SaveOver ==
  ASSUME NEW sv \in Seq(Saves), NEW i \in DOMAIN sv, NEW ks
  PROVE  LET new == Ended(sv, i)
         IN /\ DOMAIN new = DOMAIN sv /\ Onward(sv, new)
            /\ \A j \in DOMAIN sv \ {i} : new[j] = sv[j]
            /\ new[i].settled /\ new[i].by = sv[i].by /\ new[i].landed = sv[i].landed
            /\ new[i].cards = sv[i].cards /\ new[i].patch = sv[i].patch /\ new[i].knew = {}
            /\ \A m : Under(new, m) = Under(sv, m) \ {i}
            /\ \A m : KnownTrue(ks, m, sv) =>
                 \A save : Overtaken(new, m, ks, save) = Overtaken(sv, m, ks, save)
<1> DEFINE new == Ended(sv, i)
<1>1. sv[i] \in Saves
  OBVIOUS
<1>2. /\ DOMAIN new = DOMAIN sv /\ \A j \in DOMAIN sv \ {i} : new[j] = sv[j]
      /\ new[i] = Over(sv[i])
  BY DEF Ended
<1> HIDE DEF new
<1>3. /\ new[i].settled /\ new[i].by = sv[i].by /\ new[i].landed = sv[i].landed
      /\ new[i].cards = sv[i].cards /\ new[i].patch = sv[i].patch /\ new[i].knew = {}
  BY <1>1, <1>2 DEF Over, Saves
<1>4. Onward(sv, new) /\ \A m : Under(new, m) = Under(sv, m) \ {i}
  BY <1>2, <1>3 DEF Onward, Under
<1>5. ASSUME NEW m, KnownTrue(ks, m, sv), NEW save
      PROVE  Overtaken(new, m, ks, save) = Overtaken(sv, m, ks, save)
  BY <1>2, <1>3, <1>5 DEF Overtaken, KnownTrue
<1> QED BY <1>2, <1>3, <1>4, <1>5 DEF new

LEMMA OverRoom ==
  ASSUME NEW m, NEW q, NEW sv \in Seq(Saves), NEW i \in DOMAIN sv, sv[i].by = m,
         NEW ks, RoomTrue(m, q, sv, ks)
  PROVE  /\ RoomTrue(m, q, Ended(sv, i), ks)
         /\ \A n \in Members \ {m} : \A kn : KnownTrue(kn, n, sv) =>
              Alike(n, sv, Ended(sv, i), kn)
<1> DEFINE new == Ended(sv, i)
<1>1. /\ DOMAIN new = DOMAIN sv /\ Onward(sv, new)
      /\ \A j \in DOMAIN sv \ {i} : new[j] = sv[j]
      /\ new[i].settled /\ new[i].by = sv[i].by /\ new[i].landed = sv[i].landed
      /\ new[i].cards = sv[i].cards /\ new[i].patch = sv[i].patch /\ new[i].knew = {}
  BY SaveOver
<1> HIDE DEF new
<1>2. SaveTrue(q, new, new[i])
  BY <1>1 DEF RoomTrue, SaveTrue, KnownTrue
<1>3. RoomTrue(m, q, new, ks)
  BY <1>1, <1>2, RoomOn
<1>4. ASSUME NEW n \in Members \ {m}, NEW kn, KnownTrue(kn, n, sv) PROVE Alike(n, sv, new, kn)
  BY <1>1, <1>4 DEF Alike, KnownTrue
<1> QED BY <1>3, <1>4 DEF new

LEMMA OverMember ==
  ASSUME NEW m, NEW d, NEW st, NEW s, NEW q, NEW sv \in Seq(Saves), NEW ks, NEW mi, NEW co,
         MemberTrue(m, d, st, s, q, sv, ks, mi, co),
         NEW i \in DOMAIN sv, sv[i].by = m, ~sv[i].settled,
         NEW co2, co \subseteq co2, sv[i].landed \/ sv[i].cards \subseteq co2,
         NEW t, t.prior = s.prior, t.dirty => s.dirty,
         \A c \in Cards \ (co2 \cup mi) : ViewAt(m, d, st, t, q, Ended(sv, i), ks, c)
  PROVE  MemberTrue(m, d, st, t, q, Ended(sv, i), ks, mi, co2)
<1> DEFINE new == Ended(sv, i)
<1>1. /\ DOMAIN new = DOMAIN sv
      /\ \A j \in DOMAIN sv \ {i} : new[j] = sv[j]
      /\ new[i].settled /\ new[i].by = sv[i].by /\ new[i].landed = sv[i].landed
      /\ new[i].cards = sv[i].cards
      /\ Under(new, m) = Under(sv, m) \ {i}
  BY SaveOver
<1>2. i \in Under(sv, m)
  BY DEF Under
<1>3. \A c \in Cards \ (co2 \cup mi) : ViewAt(m, d, st, t, q, new, ks, c)
  OBVIOUS
<1> HIDE DEF new
<1>4. StageTrue(st, t, new, m)
  BY <1>1 DEF MemberTrue, StageTrue
<1>5. ASSUME NEW j \in DOMAIN new, new[j].by = m, new[j].cards \ co2 # {}
      PROVE  AloneTrue(st, t, new, m, j)
  <2>1. CASE j = i
    BY <1>1, <1>5, <2>1 DEF AloneTrue
  <2>2. CASE j # i
    <3>1. AloneTrue(st, s, sv, m, j) /\ new[j] = sv[j] /\ (j \in Under(sv, m) \/ sv[j].settled)
      BY <1>1, <1>5, <2>2 DEF MemberTrue, Under
    <3>2. sv[j].settled /\ AloneTrue(st, s, sv, m, j)
      BY <1>1, <1>2, <1>5, <2>2, <3>1 DEF AloneTrue, MemberTrue
    <3> QED BY <1>1, <1>5, <2>2, <3>2 DEF AloneTrue
  <2> QED BY <2>1, <2>2
<1>6. \A c \in Cards \ co2 : LastAt(q, m, d, c)
  BY DEF MemberTrue
<1> QED BY <1>3, <1>4, <1>5, <1>6 DEF MemberTrue, new

(* It failed, or the session has been changed since: what it wrote is adrift. *)
LEMMA OverOpen ==
  ASSUME NEW m, NEW d, NEW s, NEW q, NEW sv \in Seq(Saves), NEW ks, NEW c,
         OpenAt(m, d, s, q, sv, ks, c), KnownTrue(ks, m, sv), NEW i \in DOMAIN sv,
         NEW t, t.data = s.data, t.saved = s.saved, t.own = s.own, t.prior = s.prior,
         c \in s.adrift \cup sv[i].cards => c \in t.adrift
  PROVE  OpenAt(m, d, t, q, Ended(sv, i), ks, c)
<1> DEFINE new == Ended(sv, i)
<1>1. /\ Under(new, m) = Under(sv, m) \ {i}
      /\ \A j \in Under(new, m) : new[j] = sv[j]
      /\ \A save : Overtaken(new, m, ks, save) = Overtaken(sv, m, ks, save)
  <2>1. \A j \in DOMAIN sv \ {i} : new[j] = sv[j]
    BY SaveOver
  <2>2. Under(new, m) = Under(sv, m) \ {i}
    BY SaveOver
  <2>3. \A save : Overtaken(new, m, ks, save) = Overtaken(sv, m, ks, save)
    BY SaveOver
  <2> HIDE DEF new
  <2> QED BY <2>1, <2>2, <2>3 DEF Under
<1> HIDE DEF new
<1>2. SentAt(m, t, new, ks, c) /\ FrozenAt(m, d, t, q, new, ks, c) /\ OwnAt(m, d, t, q, c)
  BY <1>1 DEF OpenAt, OwnAt, SentAt, FrozenAt
<1>3. SavedAt(m, d, t, q, new, c)
  BY <1>1 DEF OpenAt, SavedAt
<1> QED BY <1>2, <1>3 DEF OpenAt, new

(* It has not: what the session shows is in the file, unless a change was set back. *)
LEMMA AckedOpen ==
  ASSUME NEW m, NEW d, NEW s, NEW q, NEW sv \in Seq(Saves), NEW ks, NEW c,
         OpenAt(m, d, s, q, sv, ks, c), KnownTrue(ks, m, sv), NEW i \in Under(sv, m),
         sv[i].landed, s.data = sv[i].frozen,
         c \in s.own => i \notin s.prior /\ c \notin Overtaken(sv, m, ks, sv[i]),
         \A j \in Under(sv, m) : j # i => c \notin sv[j].cards,
         NEW t, t.data = s.data, t.saved = s.data, t.prior = s.prior
  PROVE  OpenAt(m, d, t, q, Ended(sv, i), ks, c)
<1> DEFINE new == Ended(sv, i)
<1>1. /\ Under(new, m) = Under(sv, m) \ {i}
      /\ \A j \in Under(new, m) : new[j] = sv[j]
      /\ \A save : Overtaken(new, m, ks, save) = Overtaken(sv, m, ks, save)
  <2>1. i \in DOMAIN sv
    BY DEF Under
  <2>2. \A j \in DOMAIN sv \ {i} : new[j] = sv[j]
    BY <2>1, SaveOver
  <2>3. Under(new, m) = Under(sv, m) \ {i}
    BY <2>1, SaveOver
  <2>4. \A save : Overtaken(new, m, ks, save) = Overtaken(sv, m, ks, save)
    BY <2>1, SaveOver
  <2> HIDE DEF new
  <2> QED BY <2>2, <2>3, <2>4 DEF Under
<1>2. Awaited(q, m, c) = {} => Same(s.data, d, c)
  BY DEF OpenAt, OwnAt, FrozenAt
<1> HIDE DEF new
<1>3. SentAt(m, t, new, ks, c) /\ FrozenAt(m, d, t, q, new, ks, c)
  BY <1>1 DEF OpenAt, SentAt, FrozenAt
<1>4. OwnAt(m, d, t, q, c) /\ SavedAt(m, d, t, q, new, c)
  BY <1>2 DEF OwnAt, SavedAt
<1> QED BY <1>3, <1>4 DEF OpenAt, new

LEMMA AlikeThrough ==
  ASSUME NEW n, NEW sv, NEW mid, NEW new, NEW ks,
         Alike(n, sv, mid, ks), Alike(n, mid, new, ks)
  PROVE  Alike(n, sv, new, ks)
<1>1. Onward(sv, new)
  BY DEF Alike, Onward
<1>2. ASSUME NEW i \in DOMAIN new, new[i].by = n PROVE i \in DOMAIN sv /\ new[i] = sv[i]
  <2>1. i \in DOMAIN mid /\ new[i] = mid[i]
    BY <1>2 DEF Alike
  <2>2. i \in DOMAIN sv /\ mid[i] = sv[i]
    BY <1>2, <2>1 DEF Alike
  <2> QED BY <2>1, <2>2
<1> QED BY <1>1, <1>2 DEF Alike

LEMMA FailAgree ==
  ASSUME SheetInv, AgreeInv, NEW i \in DOMAIN saves, Fail(i)
  PROVE  AgreeInv'
<1> DEFINE m == saves[i].by
           s == session[m]
<1>1. /\ UNCHANGED <<disk, stage, session, linked, inbox, known, missed>>
      /\ saves' = Ended(saves, i) /\ ~saves[i].settled
      /\ contested' = contested \cup saves[i].cards
  BY DEF Fail, Ended
<1>2. saves \in Seq(Saves) /\ m \in Members
  BY SheetsApart DEF SheetInv, SheetShape
<1>3. /\ RoomTrue(m, inbox[m], saves, known[m]) /\ (m \notin linked => inbox[m] = <<>>)
      /\ MemberTrue(m, disk, stage[m], s, inbox[m], saves, known[m], missed[m], contested)
      /\ \A n \in Members : KnownTrue(known[n], n, saves)
  BY <1>2, AgreeParts DEF RoomTrue
<1> HIDE DEF m, s
<1>4. RoomTrue(m, inbox[m], saves', known[m])
      /\ \A n \in Members \ {m} : Alike(n, saves, saves', known[n])
  BY <1>1, <1>2, <1>3, OverRoom DEF m
<1>5. ASSUME NEW c \in Cards \ (contested' \cup missed[m])
      PROVE  ViewAt(m, disk, stage[m], s, inbox[m], saves', known[m], c)
  <2>1. ViewAt(m, disk, stage[m], s, inbox[m], saves, known[m], c) /\ c \notin saves[i].cards
    BY <1>1, <1>3 DEF MemberTrue
  <2>2. OpenAt(m, disk, s, inbox[m], saves, known[m], c)
          => OpenAt(m, disk, s, inbox[m], saves', known[m], c)
    BY <1>1, <1>2, <1>3, <2>1, OverOpen
  <2> QED BY <2>1, <2>2 DEF ViewAt
<1>6. MemberTrue(m, disk, stage[m], s, inbox[m], saves', known[m], missed[m], contested')
  BY <1>1, <1>2, <1>3, <1>5, OverMember DEF m
<1> QED BY <1>1, <1>2, <1>3, <1>4, <1>6, SavesAgree DEF s

(* on_canvas_patch_done(), on_table_patch_done(). *)
LEMMA AckedMember ==
  ASSUME SheetInv, AgreeInv, NEW i \in DOMAIN saves, saves[i].landed, ~saves[i].settled
  PROVE  LET m == saves[i].by
             s == session[m]
             t == IF Opened(m) THEN Settled(s, saves[i]) ELSE s
         IN MemberTrue(m, disk, stage[m], t, inbox[m], Ended(saves, i), known[m], missed[m],
                       contested \cup Mistaken(m, i))
<1> DEFINE m == saves[i].by
           s == session[m]
           t == IF Opened(m) THEN Settled(s, saves[i]) ELSE s
           q == inbox[m]
           ks == known[m]
           new == Ended(saves, i)
           co2 == contested \cup Mistaken(m, i)
<1>1. saves \in Seq(Saves) /\ m \in Members /\ i \in Under(saves, m)
  BY SheetsApart DEF SheetInv, SheetShape, Under
<1>2. /\ s \in Session /\ s.own \subseteq Cards
      /\ KnownTrue(ks, m, saves)
      /\ MemberTrue(m, disk, stage[m], s, q, saves, ks, missed[m], contested)
  BY <1>1, AgreeParts, SessionSheets DEF RoomTrue
<1>3. /\ t.data = s.data /\ t.prior = s.prior /\ (t.dirty => s.dirty)
      /\ IF Opened(m) /\ s.data = saves[i].frozen
         THEN t.saved = s.data
         ELSE t.saved = s.saved /\ t.own = s.own
              /\ (Opened(m) => s.adrift \cup saves[i].cards \subseteq t.adrift)
  BY <1>2 DEF Settled, Session, SessionsOf
<1>4. Opened(m) /\ s.data = saves[i].frozen =>
        Mistaken(m, i) = s.own \cap (IF i \in s.prior THEN Cards ELSE Overtaken(saves, m, ks, saves[i]))
  BY DEF Mistaken, Overtaken
<1> HIDE DEF t
<1>5. ASSUME NEW c \in Cards \ (co2 \cup missed[m])
      PROVE  ViewAt(m, disk, stage[m], t, q, new, ks, c)
  <2>1. ViewAt(m, disk, stage[m], s, q, saves, ks, c) /\ c \notin contested
    BY <1>2 DEF MemberTrue
  <2>2. CASE Opened(m) /\ s.data = saves[i].frozen
    <3>1. OpenAt(m, disk, s, q, saves, ks, c)
      BY <2>1, <2>2 DEF ViewAt, Opened
    <3>2. c \in s.own => i \notin s.prior /\ c \notin Overtaken(saves, m, ks, saves[i])
      BY <1>4, <2>2
    <3>3. \A j \in Under(saves, m) : j # i => c \notin saves[j].cards
      BY <1>1, <1>2, <2>1 DEF MemberTrue, AloneTrue, Under
    <3>4. t.data = s.data /\ t.saved = s.data /\ t.prior = s.prior
      BY <1>3, <2>2
    <3> HIDE DEF m, s, q, ks, new
    <3>5. OpenAt(m, disk, t, q, new, ks, c)
      BY <1>1, <1>2, <2>2, <3>1, <3>2, <3>3, <3>4, AckedOpen DEF new
    <3> QED BY <2>2, <3>5 DEF ViewAt, Opened
  <2>3. CASE Opened(m) /\ s.data # saves[i].frozen
    <3>1. OpenAt(m, disk, s, q, saves, ks, c)
      BY <2>1, <2>3 DEF ViewAt, Opened
    <3>2. /\ t.data = s.data /\ t.saved = s.saved /\ t.own = s.own /\ t.prior = s.prior
          /\ c \in s.adrift \cup saves[i].cards => c \in t.adrift
      BY <1>3, <2>3
    <3> HIDE DEF m, s, q, ks, new
    <3>3. OpenAt(m, disk, t, q, new, ks, c)
      BY <1>1, <1>2, <3>1, <3>2, OverOpen DEF new
    <3> QED BY <2>3, <3>3 DEF ViewAt, Opened
  <2>4. CASE ~Opened(m)
    BY <1>3, <2>1, <2>4 DEF ViewAt, Opened
  <2> QED BY <2>2, <2>3, <2>4
<1>6. contested \subseteq co2
  OBVIOUS
<1> HIDE DEF co2, s, q, ks
<1>7. MemberTrue(m, disk, stage[m], t, q, new, ks, missed[m], co2)
  BY <1>1, <1>2, <1>3, <1>5, <1>6, OverMember
<1> QED BY <1>7 DEF co2, s, q, ks, t

LEMMA AckAgree ==
  ASSUME SheetInv, AgreeInv, NEW i \in DOMAIN saves, Ack(i)
  PROVE  AgreeInv'
<1> DEFINE m == saves[i].by
           s == session[m]
           t == IF Opened(m) THEN Settled(s, saves[i]) ELSE s
           done == Ended(saves, i)
<1>1. /\ UNCHANGED <<disk, stage, linked, inbox, missed>>
      /\ saves[i].landed /\ ~saves[i].settled
      /\ session' = [session EXCEPT ![m] = t]
      /\ IF saves[i].flush /\ t.dirty THEN Submit(m, t, done, TRUE)
         ELSE /\ saves' = done /\ contested' = contested \cup Mistaken(m, i) /\ UNCHANGED known
  BY DEF Ack, Ended
<1>2. /\ saves \in Seq(Saves) /\ m \in Members /\ saves[i] \in Saves
      /\ s \in Session /\ Sound(s)
  BY SheetsApart DEF SheetInv, SheetShape
<1>3. /\ RoomTrue(m, inbox[m], saves, known[m]) /\ (m \notin linked => inbox[m] = <<>>)
      /\ MemberTrue(m, disk, stage[m], s, inbox[m], saves, known[m], missed[m], contested)
      /\ \A n \in Members : KnownTrue(known[n], n, saves)
  BY <1>2, AgreeParts DEF RoomTrue
<1>4. MemberTrue(m, disk, stage[m], t, inbox[m], done, known[m], missed[m],
                 contested \cup Mistaken(m, i))
  BY <1>1, AckedMember
<1>5. t.dirty => Opened(m) /\ Mistaken(m, i) = {}
  <2>1. t.dirty => s.dirty /\ ~(Opened(m) /\ s.data = saves[i].frozen)
    BY <1>2 DEF Settled, Session, SessionsOf
  <2>2. s.dirty => Opened(m)
    BY <1>3 DEF MemberTrue, StageTrue, Opened
  <2> QED BY <2>1, <2>2 DEF Mistaken
<1>6. t \in Session /\ done \in Seq(Saves)
  <2>1. t \in Session
    BY <1>2, SettledSound
  <2>2. done \in Seq(Saves)
    BY MarkedSaves DEF SheetInv, Ended
  <2> QED BY <2>1, <2>2
<1>7. RoomTrue(m, inbox[m], done, known[m])
      /\ \A n \in Members \ {m} : Alike(n, saves, done, known[n])
  BY <1>2, <1>3, OverRoom
<1> HIDE DEF m, s, t, done
<1>8. session'[m] = t /\ \A n \in Members \ {m} : session'[n] = session[n]
  BY <1>1, <1>2 DEF SheetInv, SheetShape
<1>9. CASE saves[i].flush /\ t.dirty
  <2>1. Submit(m, t, done, TRUE) /\ t.dirty /\ stage[m] = "open"
    BY <1>1, <1>5, <1>9 DEF Opened
  <2>2. MemberTrue(m, disk, "open", t, inbox[m], done, known[m], missed[m], contested)
    BY <1>4, <1>5, <2>1
  <2>3. /\ \A n \in Members \ {m} : known'[n] = known[n]
        /\ contested \subseteq contested'
        /\ RoomTrue(m, inbox[m], saves', known'[m])
        /\ MemberTrue(m, disk, "open", t, inbox[m], saves', known'[m], missed[m], contested')
        /\ \A n \in Members \ {m} : \A ks : KnownTrue(ks, n, done) => Alike(n, done, saves', ks)
    BY <1>2, <1>6, <1>7, <2>1, <2>2, SubmitMember
  <2>4. ASSUME NEW n \in Members \ {m} PROVE Alike(n, saves, saves', known[n])
    <3>1. Alike(n, saves, done, known[n]) /\ KnownTrue(known[n], n, done)
      BY <1>3, <1>7, KnownOn DEF Alike
    <3>2. Alike(n, done, saves', known[n])
      BY <2>3, <3>1
    <3> QED BY <3>1, <3>2, AlikeThrough
  <2> QED BY <1>1, <1>2, <1>3, <1>8, <2>1, <2>3, <2>4, SavesAgree
<1>10. CASE ~(saves[i].flush /\ t.dirty)
  <2>1. saves' = done /\ contested' = contested \cup Mistaken(m, i) /\ known' = known
    BY <1>1, <1>10
  <2> QED BY <1>1, <1>2, <1>3, <1>4, <1>7, <1>8, <2>1, SavesAgree
<1> QED BY <1>9, <1>10

LEMMA SavingAgree ==
  ASSUME SheetInv, AgreeInv, NEW m \in Members, Tick(m) \/ Flush(m)
  PROVE  AgreeInv'
<1> DEFINE s == session[m]
<1>1. /\ UNCHANGED <<disk, stage, linked, inbox, missed>> /\ stage[m] = "open"
      /\ \/ s.dirty /\ \E flush \in BOOLEAN : Submit(m, s, saves, flush)
         \/ ~s.dirty /\ UNCHANGED <<saves, known, contested>>
      /\ session' = [session EXCEPT ![m] = [s EXCEPT !.armed = FALSE]] \/ session' = session
  BY DEF Tick, Flush, Opened
<1>2. /\ s \in Session /\ saves \in Seq(Saves)
      /\ RoomTrue(m, inbox[m], saves, known[m])
      /\ MemberTrue(m, disk, "open", s, inbox[m], saves, known[m], missed[m], contested)
      /\ m \notin linked => inbox[m] = <<>>
      /\ \A n \in Members : KnownTrue(known[n], n, saves)
  BY <1>1, AgreeParts DEF RoomTrue, SheetInv, SheetShape
<1>3. /\ RoomTrue(m, inbox[m], saves', known'[m])
      /\ MemberTrue(m, disk, "open", s, inbox[m], saves', known'[m], missed[m], contested')
      /\ contested \subseteq contested'
      /\ \A n \in Members \ {m} : known'[n] = known[n] /\ Alike(n, saves, saves', known[n])
  <2>1. CASE ~s.dirty /\ UNCHANGED <<saves, known, contested>>
    BY <1>2, <2>1, AlikeSelf
  <2>2. CASE s.dirty
    <3>1. PICK flush \in BOOLEAN : Submit(m, s, saves, flush)
      BY <1>1, <2>2
    <3> QED BY <1>2, <2>2, <3>1, SubmitMember
  <2> QED BY <1>1, <2>1, <2>2
<1>4. MemberTrue(m, disk, "open", session'[m], inbox[m], saves', known'[m], missed[m], contested')
      /\ \A n \in Members \ {m} : session'[n] = session[n]
  <2>1. CASE session' = session
    BY <1>3, <2>1
  <2>2. CASE session' = [session EXCEPT ![m] = [s EXCEPT !.armed = FALSE]]
    <3> DEFINE t == [s EXCEPT !.armed = FALSE]
    <3>1. /\ t.data = s.data /\ t.prior = s.prior /\ t.saved = s.saved /\ t.adrift = s.adrift
          /\ t.dirty = s.dirty /\ t.own = s.own
      BY <1>2 DEF Session, SessionsOf
    <3>2. Differ(s.data, s.data) = {}
      BY DEF Differ, Same
    <3>3. session'[m] = t /\ \A n \in Members \ {m} : session'[n] = session[n]
      BY <2>2 DEF SheetInv, SheetShape
    <3> HIDE DEF t
    <3>4. MemberTrue(m, disk, "open", t, inbox[m], saves', known'[m], missed[m], contested')
      BY <1>3, <3>1, <3>2, HandMember
    <3> QED BY <3>3, <3>4
  <2> QED BY <1>1, <2>1, <2>2
<1> QED BY <1>1, <1>2, <1>3, <1>4, SavesAgree

(* patch_entity(): a save lands. *)
LandedAt(sv, i) == [sv EXCEPT ![i] = Landed(@)]

LEMMA SaveLanded ==
  ASSUME NEW sv \in Seq(Saves), NEW i \in DOMAIN sv
  PROVE  LET new == LandedAt(sv, i)
         IN /\ DOMAIN new = DOMAIN sv /\ Onward(sv, new)
            /\ \A j \in DOMAIN sv \ {i} : new[j] = sv[j]
            /\ new[i].landed /\ new[i].by = sv[i].by /\ new[i].settled = sv[i].settled
            /\ new[i].cards = sv[i].cards /\ new[i].frozen = sv[i].frozen
            /\ new[i].knew = sv[i].knew
            /\ \A m : Under(new, m) = Under(sv, m)
<1> DEFINE new == LandedAt(sv, i)
<1>1. sv[i] \in Saves
  OBVIOUS
<1>2. /\ DOMAIN new = DOMAIN sv /\ \A j \in DOMAIN sv \ {i} : new[j] = sv[j]
      /\ new[i] = Landed(sv[i])
  BY DEF LandedAt
<1> HIDE DEF new
<1>3. /\ new[i].landed /\ new[i].by = sv[i].by /\ new[i].settled = sv[i].settled
      /\ new[i].cards = sv[i].cards /\ new[i].frozen = sv[i].frozen
      /\ new[i].knew = sv[i].knew
  BY <1>1, <1>2 DEF Landed, Saves
<1>4. Onward(sv, new) /\ \A m : Under(new, m) = Under(sv, m)
  BY <1>2, <1>3 DEF Onward, Under
<1> QED BY <1>2, <1>3, <1>4 DEF new

(* Neither what is overtaken nor what each save froze changes. *)
LEMMA LandedParts ==
  ASSUME NEW sv \in Seq(Saves), NEW i \in DOMAIN sv, NEW m, NEW ks, KnownTrue(ks, m, sv)
  PROVE  LET new == LandedAt(sv, i)
         IN \A j \in Under(sv, m) :
              /\ new[j].frozen = sv[j].frozen /\ new[j].cards = sv[j].cards
              /\ new[j].landed <=> (j = i \/ sv[j].landed)
              /\ Overtaken(new, m, ks, new[j]) = Overtaken(sv, m, ks, sv[j])
<1> DEFINE new == LandedAt(sv, i)
<1>1. /\ DOMAIN new = DOMAIN sv
      /\ \A j \in DOMAIN sv : /\ new[j].by = sv[j].by /\ new[j].cards = sv[j].cards
                              /\ new[j].frozen = sv[j].frozen /\ new[j].knew = sv[j].knew
                              /\ new[j].landed <=> (j = i \/ sv[j].landed)
  BY SaveLanded
<1> HIDE DEF new
<1>2. ASSUME NEW j \in Under(sv, m)
      PROVE  Overtaken(new, m, ks, new[j]) = Overtaken(sv, m, ks, sv[j])
  BY <1>1 DEF Overtaken, KnownTrue, Under
<1> QED BY <1>1, <1>2 DEF Under, new

(* A card that the patch does not have: nothing changes of it. *)
LEMMA LandedApart ==
  ASSUME NEW sv \in Seq(Saves), NEW i \in DOMAIN sv, NEW m, NEW ks, KnownTrue(ks, m, sv),
         NEW d, NEW new, NEW st, NEW s, NEW q, NEW longer, NEW c, c \notin sv[i].cards,
         ViewAt(m, d, st, s, q, sv, ks, c), Same(d, new, c),
         Awaited(longer, m, c) = Awaited(q, m, c),
         \A k \in Awaited(q, m, c) : longer[k] = q[k]
  PROVE  ViewAt(m, new, st, s, longer, LandedAt(sv, i), ks, c)
<1> DEFINE after == LandedAt(sv, i)
<1>1. /\ Under(after, m) = Under(sv, m)
      /\ \A j \in Under(sv, m) :
           /\ after[j].frozen = sv[j].frozen /\ after[j].cards = sv[j].cards
           /\ after[j].landed <=> (j = i \/ sv[j].landed)
           /\ Overtaken(after, m, ks, after[j]) = Overtaken(sv, m, ks, sv[j])
  BY SaveLanded, LandedParts
<1> HIDE DEF after
<1>2. ASSUME OpenAt(m, d, s, q, sv, ks, c) PROVE OpenAt(m, new, s, longer, after, ks, c)
  <2>1. OwnAt(m, new, s, longer, c)
    BY <1>2, SameLaws DEF OpenAt, OwnAt
  <2>2. SentAt(m, s, after, ks, c)
    BY <1>1, <1>2 DEF OpenAt, SentAt
  <2>3. FrozenAt(m, new, s, longer, after, ks, c)
    BY <1>1, <1>2, SameLaws DEF OpenAt, FrozenAt
  <2>4. SavedAt(m, new, s, longer, after, c)
    BY <1>1, <1>2, SameLaws DEF OpenAt, SavedAt
  <2> QED BY <2>1, <2>2, <2>3, <2>4 DEF OpenAt
<1>3. ASSUME FetchedAt(m, d, s.data, q, ks, c) PROVE FetchedAt(m, new, s.data, longer, ks, c)
  BY <1>3, SameLaws DEF FetchedAt
<1> QED BY <1>2, <1>3 DEF ViewAt, after

(* The frame is on its way to another: what it has of the card is still to come. *)
LEMMA LandedElsewhere ==
  ASSUME NEW sv \in Seq(Saves), NEW i \in DOMAIN sv, NEW m, NEW ks, KnownTrue(ks, m, sv),
         sv[i].by # m, ~sv[i].landed,
         NEW d, NEW new, NEW st, NEW s, NEW q, NEW longer, NEW c,
         ViewAt(m, d, st, s, q, sv, ks, c),
         NEW k \in Awaited(longer, m, c), longer[k].save = i
  PROVE  ViewAt(m, new, st, s, longer, LandedAt(sv, i), ks, c)
<1> DEFINE after == LandedAt(sv, i)
<1>1. /\ Under(after, m) = Under(sv, m)
      /\ \A j \in Under(sv, m) :
           /\ after[j].frozen = sv[j].frozen /\ after[j].cards = sv[j].cards
           /\ after[j].landed <=> (j = i \/ sv[j].landed)
           /\ Overtaken(after, m, ks, after[j]) = Overtaken(sv, m, ks, sv[j])
  BY SaveLanded, LandedParts
<1> HIDE DEF after
<1>2. ASSUME OpenAt(m, d, s, q, sv, ks, c) PROVE OpenAt(m, new, s, longer, after, ks, c)
  <2>1. SentAt(m, s, after, ks, c)
    BY <1>1, <1>2 DEF OpenAt, SentAt
  <2> QED BY <2>1 DEF OpenAt, OwnAt, FrozenAt, SavedAt
<1>3. i \notin ks
  BY DEF KnownTrue
<1>4. FetchedAt(m, new, s.data, longer, ks, c)
  BY <1>3 DEF FetchedAt
<1> QED BY <1>2, <1>4 DEF ViewAt, after

(* The author: nobody else has written the card in between, so no frame on it waits, and   *)
(* what was frozen is now in the file.                                                     *)
LEMMA LandedMine ==
  ASSUME NEW sv \in Seq(Saves), NEW i \in DOMAIN sv, NEW m, sv[i].by = m, ~sv[i].landed,
         NEW d, NEW st, NEW s, NEW q, NEW ks, NEW mi, NEW co, RoomTrue(m, q, sv, ks),
         MemberTrue(m, d, st, s, q, sv, ks, mi, co),
         NEW c \in Cards \ co, c \in sv[i].cards,
         \A j \in DOMAIN sv : sv[j].landed /\ c \in sv[j].cards => j \in sv[i].knew
  PROVE  /\ Awaited(q, m, c) = {}
         /\ c \notin mi => \A longer : Awaited(longer, m, c) = {} =>
              ViewAt(m, Apply(d, sv[i].patch), st, s, longer, LandedAt(sv, i), ks, c)
<1> DEFINE after == LandedAt(sv, i)
           new == Apply(d, sv[i].patch)
<1>1. SaveTrue(q, sv, sv[i]) /\ KnownTrue(ks, m, sv) /\ \A k \in DOMAIN q : FrameTrue(sv, q[k])
  BY DEF RoomTrue
<1>2. Awaited(q, m, c) = {}
  BY <1>1 DEF Awaited, SaveTrue, FrameTrue
<1>3. c \notin Overtaken(sv, m, ks, sv[i])
  BY <1>1 DEF Overtaken, KnownTrue
<1>4. AloneTrue(st, s, sv, m, i)
  BY DEF MemberTrue
<1>5. st = "open" /\ ~sv[i].settled /\ Under(sv, m) = {i} /\ i \notin s.prior
  BY <1>4 DEF AloneTrue
<1>6. Same(sv[i].frozen, new, c)
  <2>1. c \in Touches(sv[i].patch) /\ Same(sv[i].patch.put, sv[i].frozen, c)
    BY <1>1, <1>5 DEF SaveTrue
  <2>2. Same(new, sv[i].patch.put, c)
    BY <2>1, AppliedAt
  <2> HIDE DEF new
  <2> QED BY <2>1, <2>2, SameLaws
<1>7. /\ Under(after, m) = {i} /\ after[i].landed /\ after[i].cards = sv[i].cards
      /\ after[i].frozen = sv[i].frozen
  BY <1>5, SaveLanded
<1> HIDE DEF after, new
<1>8. ASSUME c \notin mi, NEW longer, Awaited(longer, m, c) = {}
      PROVE  ViewAt(m, new, st, s, longer, after, ks, c)
  <2>1. OpenAt(m, d, s, q, sv, ks, c)
    BY <1>5, <1>8 DEF MemberTrue, ViewAt
  <2>2. c \notin s.own => Same(s.data, sv[i].frozen, c)
    BY <1>3, <1>5, <2>1 DEF OpenAt, SentAt
  <2>3. OwnAt(m, new, s, longer, c)
    BY <1>6, <2>2, SameLaws DEF OwnAt
  <2>4. SentAt(m, s, after, ks, c) /\ FrozenAt(m, new, s, longer, after, ks, c)
    BY <1>6, <1>7 DEF SentAt, FrozenAt
  <2>5. SavedAt(m, new, s, longer, after, c)
    BY <1>7 DEF SavedAt
  <2> QED BY <1>5, <2>3, <2>4, <2>5 DEF ViewAt, OpenAt
<1> QED BY <1>2, <1>8 DEF after, new

(* One more frame. *)
LEMMA AwaitedMore ==
  ASSUME NEW q \in Seq(Frames), NEW f, NEW m, NEW c
  PROVE  LET longer == Append(q, f)
             k == Len(q) + 1
         IN /\ Awaited(longer, m, c) =
                 IF f.by # m /\ c \in Touches(f.patch) THEN Awaited(q, m, c) \cup {k}
                 ELSE Awaited(q, m, c)
            /\ \A n \in Awaited(q, m, c) : longer[n] = q[n] /\ n <= k
            /\ longer[k] = f /\ k <= k /\ k \in Nat
            /\ \A n \in DOMAIN longer : (n = k /\ longer[n] = f) \/ (n \in DOMAIN q /\ longer[n] = q[n])
            /\ \A n \in Awaited(q, m, c) : ~(k <= n)
<1> DEFINE longer == Append(q, f)
           k == Len(q) + 1
<1>1. /\ Len(q) \in Nat /\ DOMAIN q = 1..Len(q) /\ DOMAIN longer = 1..k
      /\ \A n \in DOMAIN q : longer[n] = q[n]
      /\ longer[k] = f
  OBVIOUS
<1>2. /\ k \in Nat /\ k <= k /\ DOMAIN longer = DOMAIN q \cup {k}
      /\ \A n \in DOMAIN q : n <= k /\ ~(k <= n)
  BY <1>1
<1> HIDE DEF longer, k
<1>3. Awaited(longer, m, c) = IF f.by # m /\ c \in Touches(f.patch) THEN Awaited(q, m, c) \cup {k}
                              ELSE Awaited(q, m, c)
  BY <1>1, <1>2 DEF Awaited
<1>4. \A n \in Awaited(q, m, c) : longer[n] = q[n] /\ n <= k /\ ~(k <= n)
  BY <1>1, <1>2 DEF Awaited
<1> QED BY <1>1, <1>2, <1>3, <1>4 DEF longer, k

(* What the room of n is when a save has landed. *)
LEMMA LandedRoom ==
  ASSUME NEW sv \in Seq(Saves), NEW i \in DOMAIN sv, ~sv[i].landed,
         sv[i].cards = Touches(sv[i].patch),
         NEW n, NEW q \in Seq(Frames), NEW ks, RoomTrue(n, q, sv, ks), NEW longer,
         longer \in {q, Append(q, [by |-> sv[i].by, patch |-> sv[i].patch, save |-> i])}
  PROVE  RoomTrue(n, longer, LandedAt(sv, i), ks)
<1> DEFINE new == LandedAt(sv, i)
           f == [by |-> sv[i].by, patch |-> sv[i].patch, save |-> i]
<1>1. /\ DOMAIN new = DOMAIN sv /\ Onward(sv, new)
      /\ \A j \in DOMAIN sv \ {i} : new[j] = sv[j]
      /\ new[i].landed /\ new[i].by = sv[i].by /\ new[i].settled = sv[i].settled
      /\ new[i].cards = sv[i].cards /\ new[i].knew = sv[i].knew
  BY SaveLanded
<1>2. f.by = sv[i].by /\ f.patch = sv[i].patch /\ f.save = i
  OBVIOUS
<1>3. \A k \in DOMAIN longer : longer[k] = f \/ \E j \in DOMAIN q : longer[k] = q[j]
  <2>1. longer = q \/ longer = Append(q, f)
    OBVIOUS
  <2> HIDE DEF f
  <2> QED BY <2>1, AwaitedMore
<1> HIDE DEF f, new
<1>4. FrameTrue(new, f)
  BY <1>1, <1>2 DEF FrameTrue
<1>5. \A k \in DOMAIN longer : FrameTrue(new, longer[k])
  BY <1>1, <1>3, <1>4, FrameOn DEF RoomTrue
<1>6. KnownTrue(ks, n, new)
  BY <1>1, KnownOn DEF RoomTrue
<1>7. ASSUME NEW j \in DOMAIN new, new[j].by = n PROVE SaveTrue(longer, new, new[j])
  <2>1. SaveTrue(q, sv, sv[j]) /\ sv[j].by = n
    BY <1>1, <1>7 DEF RoomTrue
  <2>2. \A k \in DOMAIN longer : longer[k].by # n => longer[k].save \notin sv[j].knew
    BY <1>2, <1>3, <2>1 DEF SaveTrue, KnownTrue
  <2>3. KnownTrue(sv[j].knew, n, new)
    BY <1>1, <2>1, KnownOn DEF SaveTrue
  <2>4. CASE j = i
    BY <1>1, <2>1, <2>2, <2>3, <2>4 DEF SaveTrue
  <2>5. CASE j # i
    BY <1>1, <2>1, <2>2, <2>3, <2>5 DEF SaveTrue
  <2> QED BY <2>4, <2>5
<1> QED BY <1>5, <1>6, <1>7 DEF RoomTrue, new

(* What a member is when a save has landed. *)
LEMMA LandedMember ==
  ASSUME SheetInv, AgreeInv, NEW i \in DOMAIN saves, Land(i), NEW n \in Members
  PROVE  MemberTrue(n, disk', stage[n], session[n], inbox'[n], saves', known[n], missed'[n], contested')
<1> DEFINE save == saves[i]
           q == inbox[n]
           longer == inbox'[n]
           s == session[n]
           ks == known[n]
           f == [by |-> save.by, patch |-> save.patch, save |-> i]
<1>1. /\ ~save.landed
      /\ saves' = LandedAt(saves, i) /\ disk' = Apply(disk, save.patch)
      /\ longer = IF n \in linked /\ save.patch # NoPatch THEN Append(q, f) ELSE q
      /\ missed'[n] = IF n \in linked \cup {save.by} THEN missed[n] ELSE missed[n] \cup save.cards
      /\ contested \subseteq contested'
      /\ \A c \in save.cards \ contested' : \A j \in DOMAIN saves :
           saves[j].landed /\ c \in saves[j].cards => j \in save.knew
  BY DEF Land, LandedAt
<1>2. /\ saves \in Seq(Saves) /\ save.by \in Members /\ q \in Seq(Frames)
      /\ save.cards \subseteq Cards
  BY SheetsApart DEF SheetInv, SheetShape
<1>3. /\ n \notin linked => q = <<>>
      /\ RoomTrue(n, q, saves, ks) /\ KnownTrue(ks, n, saves)
      /\ MemberTrue(n, disk, stage[n], s, q, saves, ks, missed[n], contested)
      /\ save.cards = Touches(save.patch)
  <2>1. RoomTrue(save.by, inbox[save.by], saves, known[save.by])
    BY <1>2, AgreeParts
  <2>2. save.cards = Touches(save.patch)
    BY <1>1, <2>1 DEF RoomTrue, SaveTrue
  <2> QED BY <2>2, AgreeParts DEF RoomTrue
<1>4. f.by = save.by /\ f.patch = save.patch /\ f.save = i
  OBVIOUS
<1>5. save.patch = NoPatch => save.cards = {}
  BY <1>3 DEF NoPatch, Touches
<1> HIDE DEF save, q, longer, s, ks, f
<1>6. ASSUME NEW c, c \notin save.cards \/ n = save.by
      PROVE  Awaited(longer, n, c) = Awaited(q, n, c) /\ \A k \in Awaited(q, n, c) : longer[k] = q[k]
  <2>1. CASE longer = q
    BY <2>1
  <2>2. CASE longer = Append(q, f)
    <3>1. f.by = n \/ c \notin Touches(f.patch)
      BY <1>3, <1>4, <1>6
    <3> DEFINE k == Len(q) + 1
    <3>2. /\ DOMAIN longer = DOMAIN q \cup {k} /\ longer[k] = f
          /\ \A j \in DOMAIN q : longer[j] = q[j]
      BY <1>2, <2>2
    <3> HIDE DEF k
    <3> QED BY <3>1, <3>2 DEF Awaited
  <2> QED BY <1>1, <2>1, <2>2
<1>7. ASSUME NEW c \in save.cards, n # save.by, n \in linked
      PROVE  \E k \in Awaited(longer, n, c) :
               /\ longer[k] = f
               /\ \A j \in Awaited(longer, n, c) : k <= j => j = k
  <2> DEFINE k == Len(q) + 1
  <2>1. longer = Append(q, f)
    BY <1>1, <1>5, <1>7
  <2>2. /\ Awaited(longer, n, c) = Awaited(q, n, c) \cup {k} /\ longer[k] = f
        /\ \A j \in Awaited(q, n, c) : ~(k <= j)
    BY <1>2, <1>3, <1>4, <1>7, <2>1, AwaitedMore
  <2> HIDE DEF k
  <2> QED BY <2>2
<1>8. ASSUME NEW c PROVE IF c \in save.cards THEN Same(save.patch.put, disk', c) ELSE Same(disk, disk', c)
  <2>1. IF c \in Touches(save.patch) THEN Same(Apply(disk, save.patch), save.patch.put, c)
        ELSE Same(Apply(disk, save.patch), disk, c)
    BY AppliedAt
  <2>2. IF c \in save.cards THEN Same(disk', save.patch.put, c) ELSE Same(disk', disk, c)
    BY <1>1, <1>3, <2>1
  <2> QED BY <2>2 DEF Same
<1>9. ASSUME NEW c \in Cards \ contested' PROVE LastAt(longer, n, disk', c)
  <2> SUFFICES ASSUME NEW k \in Awaited(longer, n, c), \A j \in Awaited(longer, n, c) : j <= k
               PROVE  Same(longer[k].patch.put, disk', c)
    BY DEF LastAt
  <2>1. CASE c \notin save.cards
    <3>1. k \in Awaited(q, n, c) /\ longer[k] = q[k] /\ \A j \in Awaited(q, n, c) : j <= k
      BY <1>6, <2>1
    <3>2. Same(q[k].patch.put, disk, c)
      BY <1>1, <1>3, <1>9, <3>1 DEF MemberTrue, LastAt
    <3> QED BY <1>8, <2>1, <3>1, <3>2, SameLaws
  <2>2. CASE c \in save.cards /\ n # save.by
    <3>1. n \in linked
      BY <1>1, <1>3 DEF Awaited
    <3>2. PICK last \in Awaited(longer, n, c) :
            longer[last] = f /\ \A j \in Awaited(longer, n, c) : last <= j => j = last
      BY <1>7, <2>2, <3>1
    <3>3. longer[k] = f
      BY <3>2
    <3> QED BY <1>4, <1>8, <2>2, <3>3
  <2>3. CASE c \in save.cards /\ n = save.by
    <3>1. Awaited(q, n, c) = {}
      BY <1>1, <1>2, <1>3, <1>9, <2>3, LandedMine DEF save
    <3> QED BY <1>6, <2>3, <3>1
  <2> QED BY <2>1, <2>2, <2>3
<1>10. ASSUME NEW c \in Cards \ (contested' \cup missed'[n])
       PROVE  ViewAt(n, disk', stage[n], s, longer, saves', ks, c)
  <2>1. c \notin contested /\ c \notin missed[n] /\ ViewAt(n, disk, stage[n], s, q, saves, ks, c)
    BY <1>1, <1>3, <1>10 DEF MemberTrue
  <2>2. CASE c \notin save.cards
    <3>1. Awaited(longer, n, c) = Awaited(q, n, c) /\ \A k \in Awaited(q, n, c) : longer[k] = q[k]
      BY <1>6, <2>2
    <3>2. Same(disk, disk', c)
      BY <1>8, <2>2
    <3> QED BY <1>1, <1>2, <1>3, <2>1, <2>2, <3>1, <3>2, LandedApart DEF save
  <2>3. CASE c \in save.cards /\ n # save.by
    <3>1. n \in linked
      BY <1>1, <1>10, <2>3
    <3>2. PICK k \in Awaited(longer, n, c) : longer[k].save = i
      BY <1>4, <1>7, <2>3, <3>1
    <3> QED BY <1>1, <1>2, <1>3, <2>1, <2>3, <3>2, LandedElsewhere DEF save
  <2>4. CASE c \in save.cards /\ n = save.by
    <3>1. /\ Awaited(q, n, c) = {}
          /\ \A other : Awaited(other, n, c) = {} =>
               ViewAt(n, Apply(disk, saves[i].patch), stage[n], s, other, LandedAt(saves, i), ks, c)
      BY <1>1, <1>2, <1>3, <1>10, <2>1, <2>4, LandedMine DEF save
    <3>2. Awaited(longer, n, c) = {}
      BY <1>6, <2>4, <3>1
    <3> QED BY <1>1, <3>1, <3>2 DEF save
  <2> QED BY <2>2, <2>3, <2>4
<1>11. /\ DOMAIN saves' = DOMAIN saves /\ Under(saves', n) = Under(saves, n)
       /\ \A j \in DOMAIN saves : /\ saves'[j].by = saves[j].by /\ saves'[j].cards = saves[j].cards
                                  /\ saves'[j].settled = saves[j].settled
                                  /\ saves[j].landed => saves'[j].landed
  BY <1>1, <1>2, SaveLanded
<1>12. StageTrue(stage[n], s, saves', n)
  BY <1>3, <1>11 DEF MemberTrue, StageTrue
<1>13. ASSUME NEW j \in DOMAIN saves', saves'[j].by = n, saves'[j].cards \ contested' # {}
       PROVE  AloneTrue(stage[n], s, saves', n, j)
  <2>1. AloneTrue(stage[n], s, saves, n, j)
    BY <1>1, <1>3, <1>11, <1>13 DEF MemberTrue
  <2> QED BY <1>11, <1>13, <2>1 DEF AloneTrue
<1>14. MemberTrue(n, disk', stage[n], s, longer, saves', ks, missed'[n], contested')
  BY <1>9, <1>10, <1>12, <1>13 DEF MemberTrue
<1> QED BY <1>14 DEF s, longer, ks

LEMMA LandAgree ==
  ASSUME SheetInv, AgreeInv, NEW i \in DOMAIN saves, Land(i)
  PROVE  AgreeInv'
<1> DEFINE save == saves[i]
           f == [by |-> save.by, patch |-> save.patch, save |-> i]
<1>1. /\ UNCHANGED <<stage, session, linked, known>> /\ ~save.landed
      /\ saves' = LandedAt(saves, i)
      /\ \A n \in Members : inbox'[n] = IF n \in linked /\ save.patch # NoPatch
                                        THEN Append(inbox[n], f) ELSE inbox[n]
  BY DEF Land, LandedAt
<1>2. saves \in Seq(Saves) /\ save.by \in Members /\ \A n \in Members : inbox[n] \in Seq(Frames)
  BY SheetsApart DEF SheetInv, SheetShape
<1>3. save.cards = Touches(save.patch)
  <2>1. RoomTrue(save.by, inbox[save.by], saves, known[save.by])
    BY <1>2, AgreeParts
  <2> QED BY <1>1, <2>1 DEF RoomTrue, SaveTrue
<1>4. ASSUME NEW n \in Members
      PROVE  /\ n \notin linked' => inbox'[n] = <<>>
             /\ RoomTrue(n, inbox'[n], saves', known'[n])
             /\ MemberTrue(n, disk', stage'[n], session'[n], inbox'[n], saves', known'[n], missed'[n],
                           contested')
  <2>1. (n \notin linked => inbox[n] = <<>>) /\ RoomTrue(n, inbox[n], saves, known[n])
    BY AgreeParts
  <2>2. inbox'[n] \in {inbox[n], Append(inbox[n], f)} /\ (n \notin linked => inbox'[n] = inbox[n])
    BY <1>1
  <2>3. RoomTrue(n, inbox'[n], saves', known[n])
    BY <1>1, <1>2, <1>3, <2>1, <2>2, LandedRoom
  <2> QED BY <1>1, <2>1, <2>2, <2>3, LandedMember
<1>5. AgreeAt(disk', stage', session', saves', linked', inbox', known', missed', contested')
  BY <1>4 DEF AgreeAt
<1> QED BY <1>5 DEF AgreeInv

LEMMA AgreeStarts == SheetInit => AgreeInv
<1> SUFFICES ASSUME SheetInit, NEW m \in Members
             PROVE  /\ m \notin linked => inbox[m] = <<>>
                    /\ RoomTrue(m, inbox[m], saves, known[m])
                    /\ MemberTrue(m, disk, stage[m], session[m], inbox[m], saves, known[m], missed[m],
                                  contested)
  BY DEF AgreeInv, AgreeAt
<1>1. /\ stage[m] = "open" /\ session[m] = Fresh(disk, {}) /\ saves = <<>>
      /\ inbox[m] = <<>> /\ known[m] = {}
  BY DEF SheetInit
<1>2. DOMAIN saves = {} /\ DOMAIN inbox[m] = {} /\ Under(saves, m) = {}
      /\ \A c : Awaited(inbox[m], m, c) = {}
  BY <1>1 DEF Under, Awaited
<1>3. RoomTrue(m, inbox[m], saves, known[m])
  BY <1>1, <1>2 DEF RoomTrue, KnownTrue
<1>4. StageTrue(stage[m], session[m], saves, m) /\ \A c : LastAt(inbox[m], m, disk, c)
  BY <1>1, <1>2 DEF StageTrue, LastAt, Fresh
<1>5. \A c : OpenAt(m, disk, session[m], inbox[m], saves, known[m], c)
  BY <1>1, <1>2, SameLaws DEF OpenAt, OwnAt, SentAt, FrozenAt, SavedAt, Fresh
<1> QED BY <1>1, <1>2, <1>3, <1>4, <1>5 DEF MemberTrue, ViewAt

LEMMA AgreeStep == SheetInv /\ AgreeInv /\ [SheetNext]_sheetVars => AgreeInv'
<1> SUFFICES ASSUME SheetInv, AgreeInv, [SheetNext]_sheetVars PROVE AgreeInv'
  OBVIOUS
<1>1. CASE UNCHANGED sheetVars
  BY <1>1 DEF AgreeInv, sheetVars, sheetFixed, sheetHistory
<1>2. CASE SheetNext
  <2>1. SheetStep
    BY <1>2 DEF SheetNext
  <2> QED BY <2>1, LeavingAgree, FetchAgree, LoadedAgree, EditingAgree, TurningAgree, TalkingAgree,
             ArmAgree, SavingAgree, LandAgree, AckAgree, FailAgree, ReceivingAgree, LinkAgree
          DEF SheetStep
<1> QED BY <1>1, <1>2

(* The inductive invariant: what every session, its baseline and its saves under way have  *)
(* to do with the file, card by card, and the frames that are to come.                      *)
THEOREM AgreementTracked == SheetSpec => []AgreeInv
BY SheetsTracked, AgreeStarts, AgreeStep, PTL DEF SheetSpec

(* Who has nothing unsaved and nothing to receive shows the file, but for contested cards   *)
(* and those it was not told of.                                                             *)
THEOREM SheetsAgree == SheetSpec => []Agreement
<1>1. SheetInv /\ AgreeInv => Agreement
  <2> SUFFICES ASSUME SheetInv, AgreeInv, NEW m \in Members, Opened(m), ~session[m].dirty,
                      inbox[m] = <<>>, NEW c \in Cards \ (contested \cup missed[m])
               PROVE  Same(session[m].data, disk, c)
    BY DEF Agreement
  <2>1. /\ Sound(session[m])
        /\ MemberTrue(m, disk, stage[m], session[m], inbox[m], saves, known[m], missed[m], contested)
    BY AgreeParts
  <2>2. c \notin session[m].own
    BY <2>1 DEF Sound
  <2>3. Awaited(inbox[m], m, c) = {}
    BY DEF Awaited
  <2> QED BY <2>1, <2>2, <2>3 DEF MemberTrue, ViewAt, OpenAt, OwnAt, Opened
<1> QED BY <1>1, SheetsTracked, AgreementTracked, PTL


===============================================================================
