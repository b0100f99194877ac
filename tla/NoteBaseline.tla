------------------------------ MODULE NoteBaseline ------------------------------
(***************************************************************************)
(* One note that several members edit: the document and the baselines of   *)
(* NoteCollab (note_collab.rs), driven by the shell (space_actions.rs,     *)
(* lib.rs), carried by the server room (ws.rs) and saved over HTTP.        *)
(*                                                                         *)
(* A text is a set of lines, each inserted once and by one member; lines   *)
(* do not conflict, and a member never deletes one by hand: whatever goes  *)
(* goes by a merge.  The document is the yrs one: a seed made of the       *)
(* baseline's text, which is the same for all who have the same baseline,  *)
(* and insertions numbered by the client that made them, shown when no     *)
(* earlier one of that client is missing.  Two members exchange updates    *)
(* only under the same baseline, named by its text (its hash: no two texts *)
(* have one); otherwise the greater tag wins and the other member merges   *)
(* and starts a new document.                                              *)
(***************************************************************************)
EXTENDS Naturals, Sequences, FiniteSets, SequencesExt

CONSTANTS
  Members,   \* numbers, in the order of their author ids
  MaxTyped,  \* bound: lines a member types
  MaxOpens,  \* bound: loads of the note
  MaxLinks,  \* bound: connections
  MaxSaves,  \* bound: saves
  MaxDocs,   \* bound: documents a member makes
  MaxQueue   \* bound: frames that wait while a member types, saves or connects

ASSUME NoteAssumption ==
  /\ Members \subseteq Nat \ {0} /\ IsFiniteSet(Members)
  /\ {MaxTyped, MaxOpens, MaxLinks, MaxSaves, MaxDocs, MaxQueue} \subseteq Nat

VARIABLES
  server,    \* the file
  loading,   \* loading[m]: what the GET in flight has read, a set of at most one text
  doc,       \* doc[m]: [tag, items, gone]; items is {} and tag the null tag when closed
  opened,    \* members that have the note open
  lastFlushed, \* lastFlushed[m]: last_flushed and space_note_flushed
  dirty,     \* members with unsaved words
  saving,    \* saving[m]: {[frozen, merged]} while a save is in flight
  roomSeq,   \* roomSeq[m]: room_seqs of the note
  replied,   \* members that answered with a baseline within the last two seconds
  maker,     \* maker[m]: documents m has made: its client id
  linked,    \* members in the room
  outgoing,  \* outgoing[m]: frames on their way to the server; without a connection, kept
  incoming,  \* incoming[m]: frames on their way to m
  typed,     \* typed[m]: lines m has typed
  tally,     \* bounds: loads, connections, saves so far
  parted,    \* history: a connection ended
  hushed,    \* history: a baseline was not answered, for the two seconds
  aligned,   \* history: a save changed a document silently
  filed      \* history: lines that were in the file once

fileVars == <<server, loading, saving, lastFlushed, dirty>>
docVars == <<doc, opened, roomSeq, replied, maker>>
wireVars == <<linked, outgoing, incoming>>
noteHistory == <<parted, hushed, aligned, filed>>
noteVars == <<fileVars, docVars, wireVars, typed, tally, noteHistory>>

-------------------------------------------------------------------------------
(* Texts and documents. *)

(* merge3(): what either side added or deleted since the ancestor. *)
Merge3(base, ours, theirs) ==
  (ours \cap theirs) \cup (ours \ base) \cup (theirs \ base)

NullTag == [seq |-> 0, author |-> 0, id |-> {}]

(* compare(), up to its third key, the text: one author announces one text *)
(* under a number within the bounds.                                       *)
Above(t, u) == t.seq > u.seq \/ (t.seq = u.seq /\ t.author > u.author)

Item(line, by, n, at) == [line |-> line, by |-> by, doc |-> n, at |-> at]

(* spawn_doc(): the seed. *)
Seeded(tag) == [tag |-> tag, items |-> {Item(l, 0, 0, 1) : l \in tag.id}, gone |-> {}]

(* An insertion waits for the earlier ones of its client. *)
Integrated(items) ==
  {i \in items : \A k \in 1..i.at - 1 :
      \E j \in items : j.by = i.by /\ j.doc = i.doc /\ j.at = k}

TextOf(d) == {i.line : i \in Integrated(d.items) \ d.gone}

Text(m) == TextOf(doc[m])

(* local_edit(), align_silent(): the document of m comes to read as text. *)
Edited(m, text) ==
  LET own  == {i \in doc[m].items : i.by = m /\ i.doc = maker[m]}
      new  == SetToSeq(text \ Text(m))
      base == Cardinality(own)
  IN [doc[m] EXCEPT
        !.items = @ \cup {Item(new[k], m, maker[m], base + k) : k \in 1..Len(new)},
        !.gone = @ \cup {i \in doc[m].items : i.line \in Text(m) \ text}]

-------------------------------------------------------------------------------
(* Frames. *)

Baseline(d) == [kind |-> "baseline", tag |-> d.tag, current |-> TextOf(d)]
Step1(d) == [kind |-> "step1", tag |-> d.tag]
Step2(d) == [kind |-> "step2", tag |-> d.tag, items |-> d.items, gone |-> d.gone]
Updated(d, items) == [kind |-> "update", tag |-> d.tag, items |-> items, gone |-> {}]

Send(m, frames) == outgoing' = [outgoing EXCEPT ![m] = @ \o frames]

Calm == \A m \in Members : Len(outgoing[m]) + Len(incoming[m]) <= MaxQueue

Max2(a, b) == IF a > b THEN a ELSE b

-------------------------------------------------------------------------------
(* The shell. *)

Load(m) ==
  /\ m \notin opened /\ loading[m] = {}
  /\ tally.opens < MaxOpens
  /\ loading' = [loading EXCEPT ![m] = {server}]
  /\ tally' = [tally EXCEPT !.opens = @ + 1]
  /\ UNCHANGED <<server, saving, lastFlushed, dirty, docVars, wireVars, typed, noteHistory>>

(* Mutant of Open: no handshake. *)
OpenUnasked(m) ==
  \E text \in loading[m] :
    LET d == Seeded([seq |-> roomSeq[m] + 1, author |-> m, id |-> text]) IN
    /\ maker[m] < MaxDocs
    /\ loading' = [loading EXCEPT ![m] = {}]
    /\ opened' = opened \cup {m}
    /\ doc' = [doc EXCEPT ![m] = d]
    /\ maker' = [maker EXCEPT ![m] = @ + 1]
    /\ roomSeq' = [roomSeq EXCEPT ![m] = @ + 1]
    /\ lastFlushed' = [lastFlushed EXCEPT ![m] = text]
    /\ Send(m, <<Baseline(d)>>)
    /\ UNCHANGED <<server, saving, dirty, replied, linked, incoming, typed, tally, noteHistory>>

(* FileLoaded, open(): a new document, announced, and a handshake. *)
Open(m) ==
  \E text \in loading[m] :
    LET d == Seeded([seq |-> roomSeq[m] + 1, author |-> m, id |-> text]) IN
    /\ maker[m] < MaxDocs
    /\ loading' = [loading EXCEPT ![m] = {}]
    /\ opened' = opened \cup {m}
    /\ doc' = [doc EXCEPT ![m] = d]
    /\ maker' = [maker EXCEPT ![m] = @ + 1]
    /\ roomSeq' = [roomSeq EXCEPT ![m] = @ + 1]
    /\ lastFlushed' = [lastFlushed EXCEPT ![m] = text]
    /\ Send(m, <<Baseline(d), Step1(d)>>)
    /\ UNCHANGED <<server, saving, dirty, replied, linked, incoming, typed, tally, noteHistory>>

(* collab_unbind_note(), after the unsaved words are saved. *)
Close(m) ==
  /\ m \in opened \ dirty
  /\ opened' = opened \ {m}
  /\ doc' = [doc EXCEPT ![m] = Seeded(NullTag)]
  /\ roomSeq' = [roomSeq EXCEPT ![m] = 0]
  /\ replied' = replied \ {m}
  /\ UNCHANGED <<fileVars, maker, wireVars, typed, tally, noteHistory>>

Type(m) ==
  /\ m \in opened
  /\ typed[m] < MaxTyped
  /\ Calm
  /\ LET line == <<m, typed[m] + 1>>
         d    == Edited(m, Text(m) \cup {line})
     IN /\ doc' = [doc EXCEPT ![m] = d]
        /\ Send(m, <<Updated(d, d.items \ doc[m].items)>>)
  /\ typed' = [typed EXCEPT ![m] = @ + 1]
  /\ dirty' = dirty \cup {m}
  /\ UNCHANGED <<server, loading, saving, lastFlushed, opened, roomSeq, replied, maker,
                 linked, incoming, tally, noteHistory>>

(* space_submit_save(): the GET and the merge. *)
SaveRead(m) ==
  /\ m \in opened \cap dirty
  /\ saving[m] = {}
  /\ tally.saves < MaxSaves
  /\ Calm
  /\ saving' = [saving EXCEPT ![m] =
       {[frozen |-> Text(m),
         merged |-> Merge3(lastFlushed[m], Text(m), server)]}]
  /\ tally' = [tally EXCEPT !.saves = @ + 1]
  /\ UNCHANGED <<server, loading, lastFlushed, dirty, docVars, wireVars, typed, noteHistory>>

(* The PUT, and its receipt (on_note_saved()): what was typed meanwhile is *)
(* put on top, and the document brought in line without a word to others.  *)
SaveWrite(m) ==
  \E s \in saving[m] :
    LET rebased == IF Text(m) = s.frozen THEN s.merged
                   ELSE Merge3(s.frozen, Text(m), s.merged)
    IN /\ server' = s.merged
       /\ saving' = [saving EXCEPT ![m] = {}]
       /\ lastFlushed' = [lastFlushed EXCEPT ![m] = s.merged]
       /\ doc' = [doc EXCEPT ![m] = Edited(m, rebased)]
       /\ dirty' = IF rebased = s.merged THEN dirty \ {m} ELSE dirty
       /\ aligned' = (aligned \/ rebased # Text(m))
       /\ filed' = filed \cup s.merged
       /\ UNCHANGED <<loading, opened, roomSeq, replied, maker, wireVars, typed, tally,
                      parted, hushed>>

(* on_note_saved() with an error: the file has the merged text or not, as  *)
(* the answer may be what was lost; the words stay unsaved.                *)
SaveFail(m) ==
  \E s \in saving[m] : \E text \in {server, s.merged} :
    /\ server' = text
    /\ saving' = [saving EXCEPT ![m] = {}]
    /\ filed' = filed \cup text
    /\ UNCHANGED <<loading, lastFlushed, dirty, docVars, wireVars, typed, tally,
                   parted, hushed, aligned>>

-------------------------------------------------------------------------------
(* Connections. *)

Link(m) ==
  /\ m \notin linked
  /\ tally.links < MaxLinks
  /\ Calm
  /\ linked' = linked \cup {m}
  /\ incoming' = [incoming EXCEPT ![m] = <<>>]
  /\ IF m \in opened THEN Send(m, <<Baseline(doc[m]), Step1(doc[m])>>) ELSE UNCHANGED outgoing
  /\ tally' = [tally EXCEPT !.links = @ + 1]
  /\ UNCHANGED <<fileVars, docVars, typed, noteHistory>>

(* What was on its way is lost in both directions. *)
Unlink(m) ==
  /\ m \in linked
  /\ linked' = linked \ {m}
  /\ outgoing' = [outgoing EXCEPT ![m] = <<>>]
  /\ incoming' = [incoming EXCEPT ![m] = <<>>]
  /\ parted' = TRUE
  /\ UNCHANGED <<fileVars, docVars, typed, tally, hushed, aligned, filed>>

(* forward_to_room(). *)
Relay(m) ==
  /\ m \in linked /\ outgoing[m] # <<>>
  /\ outgoing' = [outgoing EXCEPT ![m] = Tail(@)]
  /\ incoming' = [n \in Members |-> IF n \in linked \ {m}
                                    THEN Append(incoming[n], Head(outgoing[m]))
                                    ELSE incoming[n]]
  /\ UNCHANGED <<fileVars, docVars, linked, typed, tally, noteHistory>>

-------------------------------------------------------------------------------
(* Frames that come in. *)

(* reply_baseline(): at most once in two seconds. *)
ReplyBaseline(m) ==
  /\ replied' = replied \cup {m}
  /\ IF m \in replied THEN hushed' = TRUE /\ UNCHANGED outgoing
     ELSE Send(m, <<Baseline(doc[m])>>) /\ UNCHANGED hushed
  /\ UNCHANGED <<doc, maker, lastFlushed>>

(* Mutant of AdoptBaseline: the document becomes what was announced. *)
AdoptWhole(m, f) ==
  LET d == Seeded([f.tag EXCEPT !.id = f.current]) IN
  /\ maker[m] < MaxDocs
  /\ doc' = [doc EXCEPT ![m] = d]
  /\ maker' = [maker EXCEPT ![m] = @ + 1]
  /\ roomSeq' = [roomSeq EXCEPT ![m] = Max2(@, d.tag.seq)]
  /\ Send(m, <<Step1(d)>>)
  /\ UNCHANGED <<lastFlushed, replied, hushed>>

(* adopt_baseline(). *)
AdoptBaseline(m, f) ==
  LET top    == Max2(roomSeq[m], f.tag.seq)
      merged == Merge3(lastFlushed[m], Text(m), f.current)
      same   == merged = f.current /\ f.current = f.tag.id
      d      == Seeded(IF same THEN f.tag ELSE [seq |-> top + 1, author |-> m, id |-> merged])
  IN /\ maker[m] < MaxDocs
     /\ doc' = [doc EXCEPT ![m] = d]
     /\ maker' = [maker EXCEPT ![m] = @ + 1]
     /\ roomSeq' = [roomSeq EXCEPT ![m] = IF same THEN top ELSE top + 1]
     /\ Send(m, IF same THEN <<Step1(d)>> ELSE <<Baseline(d), Step1(d)>>)
     /\ UNCHANGED <<lastFlushed, replied, hushed>>

(* receive_baseline_frame(). *)
ReceiveBaseline(m, f) ==
  IF f.tag.id # doc[m].tag.id /\ Above(f.tag, doc[m].tag)
  THEN AdoptBaseline(m, f)
  ELSE /\ roomSeq' = [roomSeq EXCEPT ![m] = Max2(@, f.tag.seq)]
       /\ IF f.tag.id = doc[m].tag.id
          THEN UNCHANGED <<doc, maker, lastFlushed, replied, hushed, outgoing>>
          ELSE ReplyBaseline(m)

(* receive_sync_frame(). *)
ReceiveSync(m, f) ==
  /\ roomSeq' = [roomSeq EXCEPT ![m] = Max2(@, f.tag.seq)]
  /\ IF f.tag.id # doc[m].tag.id THEN ReplyBaseline(m)
     ELSE /\ IF f.kind = "step1"
             THEN Send(m, <<Step2(doc[m])>>) /\ UNCHANGED doc
             ELSE /\ doc' = [doc EXCEPT ![m].items = @ \cup f.items, ![m].gone = @ \cup f.gone]
                  /\ UNCHANGED outgoing
          /\ UNCHANGED <<maker, lastFlushed, replied, hushed>>

(* collab_remote_note(): frames for a note that is not open are dropped. *)
Receive(m) ==
  /\ incoming[m] # <<>>
  /\ incoming' = [incoming EXCEPT ![m] = Tail(@)]
  /\ LET f == Head(incoming[m]) IN
     IF m \notin opened THEN UNCHANGED <<doc, maker, roomSeq, lastFlushed, replied, hushed, outgoing>>
     ELSE IF f.kind = "baseline" THEN ReceiveBaseline(m, f) ELSE ReceiveSync(m, f)
  /\ UNCHANGED <<server, loading, saving, dirty, opened, linked, typed, tally,
                 parted, aligned, filed>>

(* Two seconds are over. *)
ReplyAgain(m) ==
  /\ m \in replied
  /\ replied' = replied \ {m}
  /\ UNCHANGED <<fileVars, doc, opened, roomSeq, maker, wireVars, typed, tally, noteHistory>>

-------------------------------------------------------------------------------
NoteInit ==
  /\ server = {}
  /\ loading = [m \in Members |-> {}]
  /\ doc = [m \in Members |-> Seeded(NullTag)]
  /\ opened = {}
  /\ lastFlushed = [m \in Members |-> {}]
  /\ dirty = {}
  /\ saving = [m \in Members |-> {}]
  /\ roomSeq = [m \in Members |-> 0]
  /\ replied = {}
  /\ maker = [m \in Members |-> 0]
  /\ linked = {}
  /\ outgoing = [m \in Members |-> <<>>]
  /\ incoming = [m \in Members |-> <<>>]
  /\ typed = [m \in Members |-> 0]
  /\ tally = [opens |-> 0, links |-> 0, saves |-> 0]
  /\ parted = FALSE /\ hushed = FALSE /\ aligned = FALSE /\ filed = {}

NoteNext ==
  \E m \in Members :
    \/ Load(m) \/ Open(m) \/ Close(m) \/ Type(m)
    \/ SaveRead(m) \/ SaveWrite(m) \/ SaveFail(m)
    \/ Link(m) \/ Unlink(m) \/ Relay(m)
    \/ Receive(m) \/ ReplyAgain(m)

NoteSpec == NoteInit /\ [][NoteNext]_noteVars

-------------------------------------------------------------------------------
(* Properties. *)

Lines == Members \X (1..MaxTyped)

(* Every variable has its type.                                            *)
NoteTypeOK ==
  /\ server \subseteq Lines
  /\ opened \subseteq Members /\ dirty \subseteq opened /\ replied \subseteq opened
  /\ linked \subseteq Members
  /\ \A m \in Members :
       /\ Text(m) \subseteq Lines
       /\ lastFlushed[m] \subseteq Lines
       /\ roomSeq[m] >= doc[m].tag.seq
       /\ typed[m] \in 0..MaxTyped
       /\ m \in opened <=> doc[m].tag # NullTag

(* What a member typed and nobody has saved stays in its text, whatever is *)
(* merged, adopted or aligned (note_collab.rs:366-371).                    *)
UnsavedKept ==
  \A m \in opened : \A k \in 1..typed[m] :
    <<m, k>> \in Text(m) \cup filed

Settled == \A m \in Members : /\ m \in linked \cap opened
                            /\ outgoing[m] = <<>> /\ incoming[m] = <<>>

(* Members that have the note open and stay connected come to see the same *)
(* text, whenever and with whatever text each of them opened it, unless a  *)
(* baseline went unanswered or a save changed a document silently          *)
(* (note_collab.rs:403).                                                   *)
TogetherAgree ==
  Settled /\ ~parted /\ ~hushed /\ ~aligned => \A m, n \in Members : Text(m) = Text(n)

===============================================================================
