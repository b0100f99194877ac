------------------------------ MODULE SharedSheet ------------------------------
(***************************************************************************)
(* One canvas or one table that several members edit in a space: the       *)
(* session of each member with its saved baseline (space_actions.rs,       *)
(* canvas_actions.rs, table_actions.rs), the patches between the two       *)
(* (vault.rs), the server that merges them into the file and tells the     *)
(* room (patches.rs, ws.rs), and the merge of what others have landed      *)
(* (canvas_collab.rs).                                                     *)
(*                                                                         *)
(* A sheet maps the cards it has (nodes and edges; fields and rows) to     *)
(* their contents, an appearance and, for a conversation card, the set of  *)
(* its messages.  Two saves of one member may be under way at once: unlike *)
(* notes, sheets have no rule against it.  The file keeps its name and its *)
(* id; the order of rows is left out.                                      *)
(***************************************************************************)
EXTENDS Integers, Sequences, FiniteSets, Functions

CONSTANTS
  Members,
  Cards,     \* the cards of the file at first
  UndoDepth, \* UNDO_DEPTH
  MaxSaves,  \* bound: saves
  Budgets    \* bounds: what may happen to a sheet of which kind, with how many conversations

ASSUME SheetAssumption ==
  /\ UndoDepth \in Nat \ {0} /\ MaxSaves \in Nat
  /\ IsFiniteSet(Cards)
  /\ Budgets \subseteq [kind : {"canvas", "table"}, chats : Nat,
                        edits : Nat, said : Nat, left : Nat, faults : Nat]
  /\ \A b \in Budgets : b.kind = "table" => b.chats = 0

VARIABLES
  kind,      \* "canvas" or "table"
  locks,     \* the conversation cards of a canvas, and who holds the lock of each
  disk,      \* the file
  stage,     \* stage[m]: "closed", "loading", "fetched", "open"
  session,   \* session[m]: CanvasSession, TableSession; when fetched, what the GET has read
  saves,     \* the saves in the order they were submitted
  linked,    \* members in the room
  inbox,     \* inbox[m]: frames on their way to m
  tally,     \* bounds: edits, messages, sessions to leave, faults to come
  known,     \* history: saves that m submitted, read from the file or received
  missed,    \* history: cards whose patch m's session was never shown
  contested, \* history: cards whose last writers did not know of each other, or mistaken
  written    \* history: messages that were in the file

sheetFixed == <<kind, locks>>
sheetHistory == <<known, missed, contested, written>>
sheetVars == <<sheetFixed, disk, stage, session, saves, linked, inbox, tally, sheetHistory>>

-------------------------------------------------------------------------------
(* Sheets and patches. *)

Content(look, msgs) == [look |-> look, msgs |-> msgs]

(* compute_canvas_patch(), compute_table_patch(). *)
Diff(base, now) ==
  [put |-> Restrict(now, {c \in DOMAIN now : c \notin DOMAIN base \/ base[c] # now[c]}),
   cut |-> DOMAIN base \ DOMAIN now]

(* apply_canvas_patch(), apply_table_patch(). *)
Apply(sheet, patch) ==
  [c \in DOMAIN patch.put \cup (DOMAIN sheet \ patch.cut) |->
     IF c \in DOMAIN patch.put THEN patch.put[c] ELSE sheet[c]]

Touches(patch) == DOMAIN patch.put \cup patch.cut

NoPatch == [put |-> <<>>, cut |-> {}]

(* Mutant of MergeMessages: what came replaces what is here. *)
MergeMessagesReplacing(remote, local) == remote

(* merge_messages(): what only this member has is added to what came. *)
MergeMessages(remote, local) == remote \cup local

(* The messages of a card that the baseline does not have as they are are kept. *)
Guarded(s, patch) ==
  {c \in DOMAIN patch.put \cap DOMAIN locks \cap DOMAIN s.data :
     s.data[c].msgs # (IF c \in DOMAIN s.saved THEN s.saved[c].msgs ELSE {})}

(* A session just loaded.  running: cards whose answer is being written.  For the       *)
(* properties, own: cards the member changed since it was last clean; said: its         *)
(* messages; adrift: cards saved since, or come in from others, which the baseline has  *)
(* as they were before; prior: saves that were under way before it was loaded.          *)
Fresh(sheet, prior) ==
  [data |-> sheet, saved |-> sheet, dirty |-> FALSE, armed |-> FALSE,
   undo |-> <<>>, redo |-> <<>>, running |-> {},
   own |-> {}, adrift |-> {}, said |-> {}, prior |-> prior]

Opened(m) == stage[m] = "open"

Count(field) == [tally EXCEPT ![field] = @ - 1]

InFlight(m) == {i \in DOMAIN saves : saves[i].by = m /\ ~saves[i].settled}

(* gate(): unsaved changes are saved first.  A session that is left does not know how its *)
(* saves end.                                                                              *)
Leave(m) ==
  /\ ~session[m].dirty
  /\ tally.left > 0
  /\ tally' = Count("left")
  /\ contested' = contested \cup UNION {saves[i].cards : i \in InFlight(m)}

-------------------------------------------------------------------------------
(* Opening and closing. *)

(* open_canvas(), open_table(): the old session goes, the GET leaves. *)
Open(m) ==
  /\ stage[m] \in {"closed", "open"}
  /\ IF Opened(m) THEN Leave(m) ELSE UNCHANGED <<tally, contested>>
  /\ stage' = [stage EXCEPT ![m] = "loading"]
  /\ session' = [session EXCEPT ![m] = Fresh(<<>>, {})]
  /\ UNCHANGED <<disk, saves, linked, inbox, known, missed, written>>

(* The server answers the GET. *)
Fetch(m) ==
  /\ stage[m] = "loading"
  /\ stage' = [stage EXCEPT ![m] = "fetched"]
  /\ session' = [session EXCEPT ![m] = Fresh(disk, InFlight(m))]
  /\ known' = [known EXCEPT ![m] = @ \cup {i \in DOMAIN saves : saves[i].landed}]
  /\ missed' = [missed EXCEPT ![m] = {}]
  /\ UNCHANGED <<disk, saves, linked, inbox, tally, contested, written>>

(* on_loaded(). *)
Loaded(m) ==
  /\ stage[m] = "fetched"
  /\ stage' = [stage EXCEPT ![m] = "open"]
  /\ UNCHANGED <<disk, session, saves, linked, inbox, tally, sheetHistory>>

(* close_file_tab(). *)
Close(m) ==
  /\ Opened(m)
  /\ Leave(m)
  /\ stage' = [stage EXCEPT ![m] = "closed"]
  /\ session' = [session EXCEPT ![m] = Fresh(<<>>, {})]
  /\ UNCHANGED <<disk, saves, linked, inbox, known, missed, written>>

-------------------------------------------------------------------------------
(* Changes by hand. *)

(* Mutant of Bounded: the oldest snapshot is not dropped. *)
BoundedNever(stack) == stack

Bounded(stack) ==
  IF Len(stack) > UndoDepth THEN Tail(stack) ELSE stack

Snapshot(s, own) == [data |-> s.data, own |-> own]

(* Every snapshot remembers, for the properties, which cards its owner changed since. *)
Marking(stack, c) == [k \in DOMAIN stack |-> [stack[k] EXCEPT !.own = @ \cup {c}]]

(* touch(), and the deadline of the autosave. *)
Touched(s, data, cards) ==
  [s EXCEPT !.data = data, !.dirty = TRUE, !.armed = TRUE, !.own = @ \cup cards]

(* push_undo(), then the change. *)
Changed(s, data, c) ==
  [Touched(s, data, {c}) EXCEPT
     !.undo = Bounded(Marking(Append(s.undo, Snapshot(s, {})), c)), !.redo = <<>>]

Edit(m, c) ==
  LET s == session[m]
  IN /\ Opened(m) /\ tally.edits > 0
     /\ c \in DOMAIN s.data
     /\ session' = [session EXCEPT
          ![m] = Changed(s, [s.data EXCEPT ![c].look = tally.edits], c)]
     /\ tally' = Count("edits")
     /\ UNCHANGED <<disk, stage, saves, linked, inbox, sheetHistory>>

(* delete_selection(): not a card another member has locked; here, no conversation. *)
Remove(m, c) ==
  LET s == session[m]
  IN /\ Opened(m) /\ tally.edits > 0
     /\ c \in DOMAIN s.data \ DOMAIN locks
     /\ session' = [session EXCEPT
          ![m] = Changed(s, Restrict(s.data, DOMAIN s.data \ {c}), c)]
     /\ tally' = Count("edits")
     /\ UNCHANGED <<disk, stage, saves, linked, inbox, sheetHistory>>

(* restore_snapshot(), ops::restore(). *)
Restored(s, snapshot) ==
  [Touched(s, snapshot.data, snapshot.own) EXCEPT
     !.said = @ \cap UNION {snapshot.data[c].msgs : c \in DOMAIN snapshot.data}]

(* undo(): not while an answer is being written. *)
Undo(m) ==
  LET s == session[m]
      last == s.undo[Len(s.undo)]
  IN /\ Opened(m) /\ s.running = {} /\ s.undo # <<>>
     /\ session' = [session EXCEPT
          ![m] = [Restored(s, last) EXCEPT
                    !.undo = SubSeq(s.undo, 1, Len(s.undo) - 1),
                    !.redo = Append(s.redo, Snapshot(s, last.own))]]
     /\ UNCHANGED <<disk, stage, saves, linked, inbox, tally, sheetHistory>>

(* redo(). *)
Redo(m) ==
  LET s == session[m]
      last == s.redo[Len(s.redo)]
  IN /\ Opened(m) /\ s.running = {} /\ s.redo # <<>>
     /\ session' = [session EXCEPT
          ![m] = [Restored(s, last) EXCEPT
                    !.undo = Bounded(Append(s.undo, Snapshot(s, last.own))),
                    !.redo = SubSeq(s.redo, 1, Len(s.redo) - 1)]]
     /\ UNCHANGED <<disk, stage, saves, linked, inbox, tally, sheetHistory>>

(* upsert_message(): no snapshot is taken. *)
Spoken(s, c, k) ==
  [Touched(s, [s.data EXCEPT ![c].msgs = @ \cup {k}], {c}) EXCEPT
     !.said = @ \cup {k}, !.undo = Marking(@, c), !.redo = Marking(@, c)]

(* A question to the assistant; its answer is on the way. *)
Ask(m, c) ==
  /\ Opened(m) /\ locks[c] = m /\ session[m].running = {}
  /\ tally.said > 0
  /\ session' = [session EXCEPT
       ![m] = [Spoken(@, c, tally.said) EXCEPT !.running = {c}]]
  /\ tally' = Count("said")
  /\ UNCHANGED <<disk, stage, saves, linked, inbox, sheetHistory>>

(* RunEvent::Snapshot, then Finished. *)
Reply(m, c) ==
  /\ Opened(m) /\ c \in session[m].running
  /\ tally.said > 0
  /\ session' = [session EXCEPT
       ![m] = [Spoken(@, c, tally.said) EXCEPT !.running = {}]]
  /\ tally' = Count("said")
  /\ UNCHANGED <<disk, stage, saves, linked, inbox, sheetHistory>>

-------------------------------------------------------------------------------
(* Saving. *)

Same(f, g, c) ==
  /\ c \in DOMAIN f <=> c \in DOMAIN g
  /\ c \in DOMAIN f => f[c] = g[c]

(* Saves of others that m is still to receive. *)
Waiting(m) == {inbox[m][k].save : k \in {n \in DOMAIN inbox[m] : inbox[m][n].by # m}}

(* space_submit_canvas_save(), space_submit_table_save(): old are the saves so far. *)
Submit(m, s, old, flush) ==
  LET patch == Diff(s.saved, s.data)
      save == [by |-> m, patch |-> patch, frozen |-> s.data,
               flush |-> flush, landed |-> FALSE, settled |-> FALSE,
               cards |-> Touches(patch), knew |-> known[m] \ Waiting(m)]
      under == {i \in DOMAIN old : old[i].by = m /\ ~old[i].settled}
  IN /\ Len(old) < MaxSaves
     /\ saves' = Append(old, save)
     /\ known' = [known EXCEPT ![m] = @ \cup {Len(old) + 1}]
     /\ contested' = contested \cup {c \in s.adrift : Same(s.data, s.saved, c)}
          \cup (IF under = {} THEN {}
                ELSE save.cards \cup UNION {old[i].cards : i \in under})

(* schedule_canvas_save(): any message of a canvas with unsaved changes sets a deadline. *)
Arm(m) ==
  /\ kind = "canvas" /\ Opened(m) /\ session[m].dirty /\ ~session[m].armed
  /\ session' = [session EXCEPT ![m].armed = TRUE]
  /\ UNCHANGED <<disk, stage, saves, linked, inbox, tally, sheetHistory>>

(* AutosaveTick, at the deadline. *)
Tick(m) ==
  /\ Opened(m) /\ session[m].armed
  /\ session' = [session EXCEPT ![m].armed = FALSE]
  /\ IF session[m].dirty
     THEN Submit(m, session[m], saves, FALSE)
     ELSE UNCHANGED <<saves, known, contested>>
  /\ UNCHANGED <<disk, stage, linked, inbox, tally, missed, written>>

(* A save before something else, or by hand. *)
Flush(m) ==
  /\ Opened(m) /\ session[m].dirty
  /\ Submit(m, session[m], saves, TRUE)
  /\ UNCHANGED <<disk, stage, session, linked, inbox, tally, missed, written>>

(* What is over is forgotten: the request at the server, the frozen copy at its author. *)
Landed(save) ==
  [save EXCEPT !.landed = TRUE, !.patch = NoPatch]
Over(save) ==
  [save EXCEPT !.settled = TRUE, !.frozen = <<>>, !.flush = FALSE, !.knew = {}]

(* patch_entity() under its locks, with the broadcast; no patch is but a GET. *)
Land(i) ==
  LET save == saves[i]
      unknown == {j \in DOMAIN saves \ (save.knew \cup {i}) : saves[j].landed}
  IN /\ ~save.landed
     /\ saves' = [saves EXCEPT ![i] = Landed(@)]
     /\ disk' = Apply(disk, save.patch)
     /\ inbox' = [m \in Members |->
          IF m \in linked /\ save.patch # NoPatch
          THEN Append(inbox[m], [by |-> save.by, patch |-> save.patch, save |-> i])
          ELSE inbox[m]]
     /\ missed' = [m \in Members |->
          IF m \in linked \cup {save.by} THEN missed[m] ELSE missed[m] \cup save.cards]
     /\ contested' = contested \cup
          (save.cards \cap UNION {saves[j].cards : j \in unknown})
     /\ written' = written \cup UNION {disk'[c].msgs : c \in DOMAIN disk'}
     /\ UNCHANGED <<stage, session, linked, tally, known>>

(* Mutant of Settled: what has been changed since is not looked at. *)
SettledAnyway(s, save) ==
  [s EXCEPT !.dirty = FALSE, !.saved = save.frozen, !.own = {}, !.adrift = {}]

(* Mutant of Settled: the current data become the baseline, though the frozen ones went. *)
SettledAtCurrent(s, save) ==
  [s EXCEPT !.dirty = FALSE, !.saved = s.data, !.own = {}, !.adrift = {}]

(* on_canvas_patch_done(), on_table_patch_done(): the answer. *)
Settled(s, save) ==
  IF s.data = save.frozen
  THEN [s EXCEPT !.dirty = FALSE, !.saved = save.frozen, !.own = {}, !.adrift = {}]
  ELSE [s EXCEPT !.adrift = @ \cup save.cards]

(* For the properties, cards that others wrote while the save was under way and the member *)
(* has set back to what the save has: the answer takes its change for saved.               *)
Mistaken(m, i) ==
  LET s == session[m]
      since == {j \in known[m] \ saves[i].knew : saves[j].by # m}
  IN IF Opened(m) /\ s.data = saves[i].frozen
     THEN s.own \cap (IF i \in s.prior THEN Cards ELSE UNION {saves[j].cards : j \in since})
     ELSE {}

Ack(i) ==
  LET m == saves[i].by
      s == IF Opened(m) THEN Settled(session[m], saves[i]) ELSE session[m]
      done == [saves EXCEPT ![i] = Over(@)]
  IN /\ saves[i].landed /\ ~saves[i].settled
     /\ session' = [session EXCEPT ![m] = s]
     /\ IF saves[i].flush /\ s.dirty
        THEN Submit(m, s, done, TRUE)
        ELSE /\ saves' = done
             /\ contested' = contested \cup Mistaken(m, i)
             /\ UNCHANGED known
     /\ UNCHANGED <<disk, stage, linked, inbox, tally, missed, written>>

(* The same with an error, the request or its answer lost: the member is told, and the *)
(* session stays as it is.                                                              *)
Fail(i) ==
  /\ ~saves[i].settled /\ tally.faults > 0
  /\ saves' = [saves EXCEPT ![i] = Over(@)]
  /\ tally' = Count("faults")
  /\ contested' = contested \cup saves[i].cards
  /\ UNCHANGED <<disk, stage, session, linked, inbox, known, missed, written>>

-------------------------------------------------------------------------------
(* What others have landed. *)

(* Mutant of MergeCanvas: the baseline stays, as in a dirty table. *)
MergeCanvasAsTable(s, patch) ==
  [s EXCEPT !.data = Apply(@, patch), !.saved = IF s.dirty THEN @ ELSE Apply(s.data, patch)]

(* apply_remote_patch(): both baselines move on. *)
MergeCanvas(s, patch) ==
  LET kept == Guarded(s, patch)
      data == Apply(s.data, patch)
  IN [s EXCEPT
        !.data = [c \in DOMAIN data |->
          IF c \in kept
          THEN [data[c] EXCEPT !.msgs = MergeMessages(@, s.data[c].msgs)]
          ELSE data[c]],
        !.saved = Apply(@, patch)]

(* on_remote_table_patch(): the baseline of a clean session moves on. *)
MergeTable(s, patch) ==
  LET data == Apply(s.data, patch)
  IN [s EXCEPT !.data = data, !.saved = IF s.dirty THEN @ ELSE data]

(* For the properties: of the cards that came, adrift are those the baseline has not. *)
Behind(s, saved, patch) ==
  (s.adrift \ Touches(patch)) \cup {c \in Touches(patch) : ~Same(saved, Apply(s.data, patch), c)}

(* on_remote_canvas_patch(), on_remote_table_patch(). *)
Merge(s, patch) ==
  LET t == IF kind = "canvas" THEN MergeCanvas(s, patch) ELSE MergeTable(s, patch)
  IN [t EXCEPT !.undo = <<>>, !.redo = <<>>, !.adrift = Behind(s, t.saved, patch)]

(* A member passes over its own patches, and over all when it has no session. *)
Receive(m) ==
  LET frame == Head(inbox[m])
  IN /\ inbox[m] # <<>>
     /\ inbox' = [inbox EXCEPT ![m] = Tail(@)]
     /\ known' = [known EXCEPT ![m] = @ \cup {frame.save}]
     /\ IF Opened(m) /\ frame.by # m
        THEN session' = [session EXCEPT ![m] = Merge(@, frame.patch)]
        ELSE UNCHANGED session
     /\ missed' = [missed EXCEPT
          ![m] = IF Opened(m) \/ frame.save \in known[m] THEN @
                 ELSE @ \cup Touches(frame.patch)]
     /\ UNCHANGED <<disk, stage, saves, linked, tally, contested, written>>

(* The connection ends with what was on its way. *)
Cut(m) ==
  /\ m \in linked /\ tally.faults > 0
  /\ linked' = linked \ {m}
  /\ inbox' = [inbox EXCEPT ![m] = <<>>]
  /\ missed' = [missed EXCEPT
       ![m] = @ \cup UNION {Touches(inbox[m][k].patch) : k \in DOMAIN inbox[m]}]
  /\ tally' = Count("faults")
  /\ UNCHANGED <<disk, stage, session, saves, known, contested, written>>

(* It is there again; the sheet is not read anew. *)
Link(m) ==
  /\ m \notin linked
  /\ linked' = linked \cup {m}
  /\ UNCHANGED <<disk, stage, session, saves, inbox, tally, sheetHistory>>

-------------------------------------------------------------------------------

(* All members have just opened the file. *)
SheetInit ==
  /\ \E budget \in Budgets, chats \in SUBSET Cards :
       /\ Cardinality(chats) = budget.chats
       /\ locks \in [chats -> Members]
       /\ kind = budget.kind
       /\ tally = Restrict(budget, {"edits", "said", "left", "faults"})
  /\ disk = [c \in Cards |-> Content(0, {})]
  /\ stage = [m \in Members |-> "open"]
  /\ session = [m \in Members |-> Fresh(disk, {})]
  /\ saves = <<>>
  /\ linked = Members
  /\ inbox = [m \in Members |-> <<>>]
  /\ known = [m \in Members |-> {}]
  /\ missed = [m \in Members |-> {}]
  /\ contested = {} /\ written = {}

SheetStep ==
  \/ \E m \in Members :
       \/ Open(m) \/ Fetch(m) \/ Loaded(m) \/ Close(m)
       \/ Undo(m) \/ Redo(m) \/ Arm(m) \/ Tick(m) \/ Flush(m)
       \/ Receive(m) \/ Cut(m) \/ Link(m)
  \/ \E m \in Members, c \in Cards : Edit(m, c) \/ Remove(m, c)
  \/ \E m \in Members, c \in DOMAIN locks : Ask(m, c) \/ Reply(m, c)
  \/ \E i \in DOMAIN saves : Land(i) \/ Ack(i) \/ Fail(i)

SheetNext ==
  /\ UNCHANGED sheetFixed
  /\ SheetStep

SheetSpec == SheetInit /\ [][SheetNext]_sheetVars

-------------------------------------------------------------------------------
(* Properties. *)

IsSheet(f) ==
  /\ DOMAIN f \subseteq Cards
  /\ \A c \in DOMAIN f : f[c].look \in Nat /\ f[c].msgs \subseteq Nat

(* The types of the variables. *)
SheetTypeOK ==
  /\ IsSheet(disk)
  /\ stage \in [Members -> {"closed", "loading", "fetched", "open"}]
  /\ \A m \in Members :
       LET s == session[m]
       IN /\ IsSheet(s.data) /\ IsSheet(s.saved)
          /\ {s.dirty, s.armed} \subseteq BOOLEAN
          /\ Len(s.undo) <= UndoDepth /\ Len(s.redo) <= UndoDepth
          /\ s.running \subseteq DOMAIN locks /\ s.own \subseteq Cards /\ s.said \subseteq Nat
  /\ linked \subseteq Members
  /\ \A m \in Members, k \in 1..MaxSaves :
       k \in DOMAIN inbox[m] => inbox[m][k].save \in DOMAIN saves
  /\ known \in [Members -> SUBSET (DOMAIN saves)]
  /\ missed \in [Members -> SUBSET Cards]
  /\ contested \subseteq Cards /\ written \subseteq Nat

(* A session without unsaved changes is its baseline, so that the next save sends what  *)
(* is changed after and nothing else (Settled, Merge): the flag and the two sheets are  *)
(* moved by answers and by frames that overtake each other.                              *)
CleanIsSaved ==
  \A m \in Members : Opened(m) /\ ~session[m].dirty => session[m].data = session[m].saved

(* What a canvas would send is what its member changed: a merge advances the baseline   *)
(* too, and nothing a member undoes takes back what came from others                     *)
(* (on_remote_canvas_patch: the stacks are void).                                        *)
OnlyOwnChanges ==
  \A m \in Members : kind = "canvas" /\ Opened(m) =>
    LET s == session[m] IN Touches(Diff(s.saved, s.data)) \subseteq s.own

(* A member that has nothing unsaved and nothing to receive shows the file, but for cards  *)
(* written by two members (or by two saves of one) that did not know of each other, or set *)
(* back by hand to what a save under way or a baseline left behind has, and for frames it  *)
(* was never given: the order of the frames is that of the patches, and what a member has  *)
(* merged its own save does not take back.                                                  *)
Agreement ==
  \A m \in Members :
    (Opened(m) /\ ~session[m].dirty /\ inbox[m] = <<>>) =>
      \A c \in Cards \ (contested \cup missed[m]) : Same(session[m].data, disk, c)

(* A message that was never in the file is not lost when another member's older copy of   *)
(* its card comes in (apply_remote_patch: messages that are not in the baseline as they    *)
(* are).                                                                                   *)
UnsavedSaidKept ==
  \A m \in Members : Opened(m) =>
    LET data == session[m].data
    IN session[m].said \subseteq written \cup UNION {data[c].msgs : c \in DOMAIN data}

(* The code's claim: only what is on the disk counts as saved (on_canvas_patch_done).      *)
CleanIsOnDisk ==
  \A m \in Members :
    Opened(m) /\ ~session[m].dirty /\ InFlight(m) = {} /\ inbox[m] = <<>>
      => session[m].data = disk

===============================================================================
