----------------------------- MODULE ContentStore -----------------------------
(***************************************************************************)
(* The content of one space on the server: whole-file writes, renames,     *)
(* copies and deletions (content.rs), patches of canvases and tables       *)
(* (patches.rs) and the versions kept in side files (history.rs), run as   *)
(* concurrent requests.                                                    *)
(*                                                                         *)
(* The structure lock serialises renames, copies, deletions and patches;   *)
(* a write takes the lock of its path only; a record and the move of a     *)
(* side file take the lock of that side file only; making a folder takes   *)
(* none.  Each lock is held by one request (module KeyedMutex).  A handler *)
(* may be dropped where it waits, its locks with it.  A path is <<folder>> *)
(* or <<folder, name>>, numbered in alphabetical order.  A request is      *)
(* authorised before it arrives here.                                      *)
(***************************************************************************)
EXTENDS Naturals, Sequences

CONSTANTS
  Folders, Names,
  MaxRequests,  \* bound: requests in a behaviour, numbered as they arrive
  Asks,         \* what may be asked: [op, from, to]
  Placed,       \* the file that exists at first
  MaxVersions,  \* versions a side file keeps
  None

Requests == 1..MaxRequests
Files == Folders \X Names
Dirs == {<<d>> : d \in Folders}
Paths == Files \cup Dirs
Docs == 0..MaxRequests  \* document 0 exists at first, r is created by request r
Contents == [doc : Docs, by : Docs]

Ops == {"write", "rename", "copy", "delete", "mkdir", "rmdir", "patch", "record"}

(* A folder is moved to a folder, a new title names a file of the same     *)
(* folder, and folders are what is made and removed as folders.            *)
ASSUME ContentAssumption ==
  /\ MaxRequests \in Nat
  /\ Folders \subseteq Nat /\ Names \subseteq Nat
  /\ Asks \subseteq [op : Ops, from : Paths, to : Paths]
  /\ \A a \in Asks :
       /\ a.from \in Files <=> a.to \in Files
       /\ a.op \in {"write", "patch", "record"} => a.from \in Files
       /\ a.op = "patch" => a.from[1] = a.to[1]
       /\ a.op \in {"mkdir", "rmdir"} => a.from \in Dirs
  /\ Placed \in Files
  /\ MaxVersions \in Nat \ {0}
  /\ None \notin Contents \cup Docs

VARIABLES
  file,           \* file[p]: what is at p, or None
  dirs,           \* folders that exist
  side,           \* side[p]: versions in the side file of p, <<>> when absent
  arrived,        \* requests so far
  ask,            \* ask[r]: what r asks
  at,             \* at[r]: where the handler of r stands
  structureLock,  \* its holder, or 0
  pathLock,       \* pathLock[p]: the holder of the lock of p, or 0
  sideLock,       \* sideLock[p]: the same for p's side file
  about,          \* about[r]: the document r is about, None when it creates one
  base,           \* base[r]: what patch r read
  got,            \* got[r]: the versions record r read
  todo,           \* todo[r]: side files rename r has yet to move
  swept,          \* history: writes whose folder went away after their check
  doubled,        \* history: documents copied, or written back in a known way
  kept,           \* history: versions answered for and not pruned or replaced
  crossed         \* history: versions of side files a move and a record crossed on

handlerVars == <<ask, about, base, got, todo>>
lockVars == <<structureLock, pathLock, sideLock>>
contentVars == <<file, dirs, side, arrived, at, handlerVars, lockVars,
                 swept, doubled, kept, crossed>>

IsDir(p) == Len(p) = 1
Home(p) == <<p[1]>>
Exists(p) == IF IsDir(p) THEN p \in dirs ELSE file[p] # None
Parents(p) == IF IsDir(p) THEN {} ELSE {Home(p)}
FilesIn(d) == {p \in Files : Home(p) = d}
Precedes(p, q) == p[1] < q[1] \/ (p[1] = q[1] /\ Len(p) = 2 /\ p[2] < q[2])

(* p after the folder or file `from` was moved to `to`. *)
Moved(p, from, to) == IF IsDir(from) THEN <<to[1], p[2]>> ELSE to

Inside(from) == IF IsDir(from) THEN FilesIn(from) ELSE {from}

Does(r, op, where) == at[r] = where /\ ask[r].op = op

(* Requests that passed their check and have yet to write in folder d. *)
Landing(d) == {w \in Requests : Does(w, "write", "land") /\ Home(ask[w].from) = d}

-------------------------------------------------------------------------------
(* Arrival: the part of a handler before it first waits for a lock. *)

Begin(r, a, where) ==
  /\ r = arrived + 1
  /\ arrived' = r
  /\ ask' = [ask EXCEPT ![r] = a]
  /\ at' = [at EXCEPT ![r] = where]
  /\ UNCHANGED <<file, side, lockVars, base, got, todo, swept, doubled, kept, crossed>>

DocAt(p) == IF Exists(p) /\ ~IsDir(p) THEN file[p].doc ELSE None

(* Whether the write creates is decided here, before the lock. *)
ArriveWrite(r, a) ==
  /\ a.op = "write"
  /\ Begin(r, a, "path")
  /\ dirs' = dirs \cup {Home(a.from)}
  /\ about' = [about EXCEPT ![r] = DocAt(a.from)]

Reachable(p) == Parents(p) \subseteq dirs

(* Mutant of ArriveRename: no early return when nothing is to be renamed.  *)
ArriveRenameSame(r, a) ==
  /\ a.op = "rename"
  /\ Reachable(a.from)
  /\ Begin(r, a, "structure")
  /\ dirs' = dirs \cup Parents(a.to)
  /\ UNCHANGED about

ArriveRename(r, a) ==
  /\ a.op = "rename"
  /\ Reachable(a.from)
  /\ Begin(r, a, IF a.from = a.to THEN "done" ELSE "structure")
  /\ dirs' = dirs \cup Parents(a.to)
  /\ UNCHANGED about

ArriveStructural(r, a) ==
  /\ a.op \in {"copy", "delete", "rmdir", "patch"}
  /\ Reachable(a.from)
  /\ Begin(r, a, "structure")
  /\ about' = IF a.op = "patch" THEN [about EXCEPT ![r] = DocAt(a.from)] ELSE about
  /\ UNCHANGED dirs

ArriveRecord(r, a) ==
  /\ a.op = "record"
  /\ Begin(r, a, "record")
  /\ UNCHANGED <<dirs, about>>

(* create_folder waits for nothing. *)
CreateFolder(r, a) ==
  /\ a.op = "mkdir"
  /\ ~Exists(a.from)
  /\ Begin(r, a, "done")
  /\ dirs' = dirs \cup {a.from}
  /\ UNCHANGED about

-------------------------------------------------------------------------------
(* Locks. *)

GetStructure(r) ==
  /\ at[r] = "structure"
  /\ structureLock = 0
  /\ structureLock' = r
  /\ at' = [at EXCEPT ![r] = IF ask[r].op = "rmdir" THEN "count" ELSE "path"]
  /\ UNCHANGED <<file, dirs, side, arrived, handlerVars, pathLock, sideLock,
                 swept, doubled, kept, crossed>>

(* A rename takes its two locks in alphabetical order. *)
FirstPath(r) ==
  CASE ask[r].op = "rename" /\ Precedes(ask[r].to, ask[r].from) -> ask[r].to
    [] ask[r].op = "copy" -> ask[r].to
    [] OTHER -> ask[r].from

SecondPath(r) == IF FirstPath(r) = ask[r].from THEN ask[r].to ELSE ask[r].from

Lock(r, p, where) ==
  /\ pathLock[p] = 0
  /\ pathLock' = [pathLock EXCEPT ![p] = r]
  /\ at' = [at EXCEPT ![r] = where]
  /\ UNCHANGED <<file, dirs, side, arrived, handlerVars, structureLock, sideLock,
                 swept, doubled, kept, crossed>>

(* Mutant of GetPath: a write takes no lock. *)
GetPathToPatch(r) ==
  /\ at[r] = "path"
  /\ IF ask[r].op = "write"
     THEN /\ at' = [at EXCEPT ![r] = "locked"]
          /\ UNCHANGED <<file, dirs, side, arrived, handlerVars, lockVars, swept, doubled,
                         kept, crossed>>
     ELSE Lock(r, FirstPath(r), IF ask[r].op = "rename" THEN "second" ELSE "locked")

GetPath(r) ==
  /\ at[r] = "path"
  /\ Lock(r, FirstPath(r), IF ask[r].op = "rename" THEN "second" ELSE "locked")

GetSecond(r) ==
  /\ at[r] = "second"
  /\ Lock(r, SecondPath(r), IF ask[r].op = "rename" THEN "locked" ELSE "land")

Unlocked(lock, r) == [p \in DOMAIN lock |-> IF lock[p] = r THEN 0 ELSE lock[p]]

(* The handler returns: its guards are dropped. *)
Return(r) ==
  /\ at' = [at EXCEPT ![r] = "done"]
  /\ structureLock' = IF structureLock = r THEN 0 ELSE structureLock
  /\ pathLock' = Unlocked(pathLock, r)
  /\ sideLock' = Unlocked(sideLock, r)
  /\ about' = [about EXCEPT ![r] = None]
  /\ base' = [base EXCEPT ![r] = None]
  /\ got' = [got EXCEPT ![r] = <<>>]
  /\ todo' = [todo EXCEPT ![r] = {}]
  /\ ask' = [ask EXCEPT ![r] = None]
  /\ UNCHANGED arrived

-------------------------------------------------------------------------------
(* write_file. *)

(* Mutant of CheckWrite: a missing file is not refused.                    *)
CheckNothing(r) ==
  /\ Does(r, "write", "locked")
  /\ at' = [at EXCEPT ![r] = "land"]
  /\ UNCHANGED <<file, dirs, side, arrived, handlerVars, lockVars, swept, doubled,
                 kept, crossed>>

(* Under the lock: a file that was there must be there still, be it        *)
(* another one by now.                                                     *)
CheckWrite(r) ==
  /\ Does(r, "write", "locked")
  /\ IF about[r] # None /\ file[ask[r].from] = None
     THEN Return(r) /\ UNCHANGED doubled
     ELSE /\ at' = [at EXCEPT ![r] = "land"]
          /\ doubled' = IF about[r] \notin {None, DocAt(ask[r].from)} THEN doubled \cup {about[r]}
                        ELSE doubled
          /\ UNCHANGED <<arrived, handlerVars, lockVars>>
  /\ UNCHANGED <<file, dirs, side, swept, kept, crossed>>

(* atomic_write() fails when the folder is gone. *)
LandWrite(r) ==
  /\ Does(r, "write", "land")
  /\ IF Home(ask[r].from) \in dirs
     THEN /\ file' = [file EXCEPT ![ask[r].from] =
                        [doc |-> IF about[r] = None THEN r ELSE about[r], by |-> r]]
          /\ doubled' = IF r \in swept /\ about[r] # None THEN doubled \cup {about[r]} ELSE doubled
     ELSE UNCHANGED <<file, doubled>>
  /\ Return(r)
  /\ UNCHANGED <<dirs, side, swept, kept, crossed>>

-------------------------------------------------------------------------------
(* rename, and the move of the side files after it. *)

(* Everything in `from` is in `to` now, and nothing is in `from`. *)
FilesMoved(from, to) ==
  [q \in Files |-> IF \E p \in Inside(from) : Moved(p, from, to) = q
                   THEN file[CHOOSE p \in Inside(from) : Moved(p, from, to) = q]
                   ELSE IF q \in Inside(from) THEN None ELSE file[q]]

Rename(r) ==
  LET from == ask[r].from
      to == ask[r].to
  IN /\ Does(r, "rename", "locked")
     /\ IF Exists(from) /\ ~Exists(to) /\ Reachable(to)
        THEN /\ file' = FilesMoved(from, to)
             /\ dirs' = IF IsDir(from) THEN (dirs \ {from}) \cup {to} ELSE dirs
             /\ swept' = IF IsDir(from) THEN swept \cup Landing(from) ELSE swept
             /\ at' = [at EXCEPT ![r] = "list"]
             /\ pathLock' = Unlocked(pathLock, r)
             /\ UNCHANGED <<arrived, handlerVars, structureLock, sideLock>>
        ELSE Return(r) /\ UNCHANGED <<file, dirs, swept>>
     /\ UNCHANGED <<side, doubled, kept, crossed>>

(* The side files to move: one, or those of a folder found by listing. *)
ListSides(r) ==
  LET from == ask[r].from
  IN /\ at[r] = "list"
     /\ todo' = [todo EXCEPT ![r] = IF IsDir(from) THEN {p \in FilesIn(from) : side[p] # <<>>}
                                    ELSE {from}]
     /\ at' = [at EXCEPT ![r] = "remap"]
     /\ UNCHANGED <<file, dirs, side, arrived, ask, about, base, got, lockVars,
                    swept, doubled, kept, crossed>>

Target(r, p) == Moved(p, ask[r].from, ask[r].to)

(* Mutant of CheckMove: the side file is moved without its lock.           *)
CheckMoveUnlocked(r, p) ==
  /\ at[r] = "remap"
  /\ p \in todo[r]
  /\ side' = IF side[p] # <<>> /\ side[Target(r, p)] = <<>>
             THEN [side EXCEPT ![Target(r, p)] = side[p], ![p] = <<>>] ELSE side
  /\ todo' = [todo EXCEPT ![r] = @ \ {p}]
  /\ UNCHANGED <<file, dirs, arrived, at, ask, about, base, got, lockVars,
                 swept, doubled, kept, crossed>>

(* try_move_side_file(), the checks: under the lock of the old side file. *)
CheckMove(r, p) ==
  /\ at[r] = "remap"
  /\ p \in todo[r]
  /\ sideLock[p] = 0
  /\ IF side[p] # <<>> /\ side[Target(r, p)] = <<>>
     THEN /\ sideLock' = [sideLock EXCEPT ![p] = r]
          /\ at' = [at EXCEPT ![r] = "move"]
          /\ UNCHANGED todo
     ELSE /\ todo' = [todo EXCEPT ![r] = @ \ {p}]
          /\ UNCHANGED <<sideLock, at>>
  /\ UNCHANGED <<file, dirs, side, arrived, ask, about, base, got, structureLock, pathLock,
                 swept, doubled, kept, crossed>>

InSide(p) == {side[p][i] : i \in DOMAIN side[p]}

(* The move replaces what a record wrote at the target since the check, or *)
(* will be replaced by what a record there is about to write: the lock of  *)
(* the target is not taken.                                                *)
MoveSide(r, p) ==
  LET q == Target(r, p)
  IN /\ at[r] = "move"
     /\ p \in todo[r]
     /\ sideLock[p] = r
     /\ side' = [side EXCEPT ![q] = side[p], ![p] = <<>>]
     /\ crossed' = crossed \cup InSide(q) \cup (IF sideLock[q] # 0 THEN InSide(p) ELSE {})
     /\ sideLock' = [sideLock EXCEPT ![p] = 0]
     /\ todo' = [todo EXCEPT ![r] = @ \ {p}]
     /\ at' = [at EXCEPT ![r] = "remap"]
     /\ UNCHANGED <<file, dirs, arrived, ask, about, base, got, structureLock, pathLock,
                    swept, doubled, kept>>

EndRename(r) ==
  /\ at[r] = "remap"
  /\ todo[r] = {}
  /\ Return(r)
  /\ UNCHANGED <<file, dirs, side, swept, doubled, kept, crossed>>

-------------------------------------------------------------------------------
(* copy, delete_file, delete_folder. *)

Copy(r) ==
  LET from == ask[r].from
      to == ask[r].to
      copies == [q \in Files |->
                   IF \E p \in Inside(from) : Moved(p, from, to) = q
                   THEN file[CHOOSE p \in Inside(from) : Moved(p, from, to) = q]
                   ELSE file[q]]
  IN /\ Does(r, "copy", "locked")
     /\ IF Exists(from) /\ ~Exists(to)
        THEN /\ file' = copies
             /\ dirs' = dirs \cup (IF IsDir(to) THEN {to} ELSE {Home(to)})
             /\ doubled' = doubled \cup {file[p].doc : p \in {q \in Inside(from) : file[q] # None}}
        ELSE UNCHANGED <<file, dirs, doubled>>
     /\ Return(r)
     /\ UNCHANGED <<side, swept, kept, crossed>>

DeleteFile(r) ==
  /\ Does(r, "delete", "locked")
  /\ file' = [file EXCEPT ![ask[r].from] = None]
  /\ Return(r)
  /\ UNCHANGED <<dirs, side, swept, doubled, kept, crossed>>

Empty(d) == \A p \in FilesIn(d) : file[p] = None

(* The entries are counted; a folder that is not empty is removed only     *)
(* when the caller insists.                                                *)
CountFolder(r, force) ==
  /\ at[r] = "count"
  /\ IF ask[r].from \in dirs /\ (Empty(ask[r].from) \/ force)
     THEN /\ at' = [at EXCEPT ![r] = IF Empty(ask[r].from) THEN "removeEmpty" ELSE "removeAll"]
          /\ UNCHANGED <<arrived, handlerVars, lockVars>>
     ELSE Return(r)
  /\ UNCHANGED <<file, dirs, side, swept, doubled, kept, crossed>>

(* A folder found empty is removed only if it is so still. *)
RemoveFolder(r) ==
  LET d == ask[r].from
  IN /\ at[r] \in {"removeEmpty", "removeAll"}
     /\ IF at[r] = "removeAll" \/ Empty(d)
        THEN /\ dirs' = dirs \ {d}
             /\ file' = [p \in Files |-> IF Home(p) = d THEN None ELSE file[p]]
             /\ swept' = swept \cup Landing(d)
        ELSE UNCHANGED <<file, dirs, swept>>
     /\ Return(r)
     /\ UNCHANGED <<side, doubled, kept, crossed>>

-------------------------------------------------------------------------------
(* patch_entity. *)

(* The file must exist and be the document the patch is of.  A new title   *)
(* (to # from) asks for a second path, whose lock is taken next.           *)
ReadPatch(r) ==
  /\ Does(r, "patch", "locked")
  /\ IF file[ask[r].from] # None /\ DocAt(ask[r].from) = about[r]
     THEN /\ base' = [base EXCEPT ![r] = file[ask[r].from]]
          /\ at' = [at EXCEPT ![r] = IF ask[r].to = ask[r].from THEN "land" ELSE "second"]
          /\ UNCHANGED <<arrived, ask, about, got, todo, lockVars>>
     ELSE Return(r)
  /\ UNCHANGED <<file, dirs, side, swept, doubled, kept, crossed>>

(* Mutant of LandPatch: the old file stays. *)
LandPatchKeeping(r) ==
  LET to == ask[r].to
  IN /\ Does(r, "patch", "land")
     /\ file' = IF ~Reachable(to) \/ (to # ask[r].from /\ DocAt(to) \notin {None, base[r].doc})
                THEN file ELSE [file EXCEPT ![to] = [doc |-> base[r].doc, by |-> r]]
     /\ Return(r)
     /\ UNCHANGED <<dirs, side, swept, doubled, kept, crossed>>

(* Another document at the new path is refused, and a folder that is gone  *)
(* is not made again; otherwise the merged document is written and the old *)
(* file removed.                                                           *)
LandPatch(r) ==
  LET from == ask[r].from
      to == ask[r].to
  IN /\ Does(r, "patch", "land")
     /\ IF ~Reachable(to) \/ (to # from /\ DocAt(to) \notin {None, base[r].doc})
        THEN UNCHANGED file
        ELSE file' = [p \in Files |-> IF p = to THEN [doc |-> base[r].doc, by |-> r]
                                      ELSE IF p = from THEN None ELSE file[p]]
     /\ Return(r)
     /\ UNCHANGED <<dirs, side, swept, doubled, kept, crossed>>

-------------------------------------------------------------------------------
(* record_history. *)

ReadVersions(r) ==
  /\ at[r] = "record"
  /\ sideLock[ask[r].from] = 0
  /\ sideLock' = [sideLock EXCEPT ![ask[r].from] = r]
  /\ got' = [got EXCEPT ![r] = side[ask[r].from]]
  /\ at' = [at EXCEPT ![r] = "append"]
  /\ UNCHANGED <<file, dirs, side, arrived, ask, about, base, todo, structureLock, pathLock,
                 swept, doubled, kept, crossed>>

(* The versions of `vs` that fit, the newest. *)
Pruned(vs) ==
  IF Len(vs) > MaxVersions THEN SubSeq(vs, Len(vs) - MaxVersions + 1, Len(vs)) ELSE vs

(* The version is appended, or replaces the last one of the same author.   *)
AppendVersion(r, slide) ==
  LET old == got[r]
      new == Pruned(Append(IF slide THEN SubSeq(old, 1, Len(old) - 1) ELSE old, r))
      dropped == {old[i] : i \in DOMAIN old} \ {new[i] : i \in DOMAIN new}
  IN /\ at[r] = "append"
     /\ slide => old # <<>>
     /\ side' = [side EXCEPT ![ask[r].from] = new]
     /\ kept' = (kept \cup {r}) \ dropped
     /\ Return(r)
     /\ UNCHANGED <<file, dirs, swept, doubled, crossed>>

(* The same content as the last version: nothing is written. *)
SkipVersion(r) ==
  /\ at[r] = "append"
  /\ got[r] # <<>>
  /\ Return(r)
  /\ UNCHANGED <<file, dirs, side, swept, doubled, kept, crossed>>

-------------------------------------------------------------------------------
(* The client is gone, and the server drops the handler where it waits:    *)
(* for a lock, or for the entries to be counted.  A removal or a copy that *)
(* goes on in its own thread without its handler is left out.              *)
Drop(r) ==
  /\ at[r] \in {"structure", "path", "second", "remap", "record", "count"}
  /\ at[r] = "remap" => todo[r] # {}
  /\ Return(r)
  /\ UNCHANGED <<file, dirs, side, swept, doubled, kept, crossed>>

-------------------------------------------------------------------------------

ContentInit ==
  /\ file = [p \in Files |-> IF p = Placed THEN [doc |-> 0, by |-> 0] ELSE None]
  /\ dirs = {Home(Placed)}
  /\ side = [p \in Files |-> IF p = Placed THEN <<0>> ELSE <<>>]
  /\ arrived = 0
  /\ ask = [r \in Requests |-> None]
  /\ at = [r \in Requests |-> "new"]
  /\ structureLock = 0
  /\ pathLock = [p \in Paths |-> 0]
  /\ sideLock = [p \in Files |-> 0]
  /\ about = [r \in Requests |-> None]
  /\ base = [r \in Requests |-> None]
  /\ got = [r \in Requests |-> <<>>]
  /\ todo = [r \in Requests |-> {}]
  /\ swept = {} /\ doubled = {} /\ kept = {0} /\ crossed = {}

Arrive(r, a) ==
  \/ ArriveWrite(r, a)
  \/ ArriveRename(r, a)
  \/ ArriveStructural(r, a)
  \/ ArriveRecord(r, a)
  \/ CreateFolder(r, a)

(* A step of the handler of r. *)
Handle(r) ==
  \/ GetStructure(r) \/ GetPath(r) \/ GetSecond(r)
  \/ CheckWrite(r) \/ LandWrite(r)
  \/ Rename(r) \/ ListSides(r) \/ EndRename(r)
  \/ \E p \in Files : CheckMove(r, p)
  \/ \E p \in Files : MoveSide(r, p)
  \/ Copy(r) \/ DeleteFile(r) \/ RemoveFolder(r)
  \/ \E force \in BOOLEAN : CountFolder(r, force)
  \/ ReadPatch(r) \/ LandPatch(r)
  \/ ReadVersions(r) \/ SkipVersion(r)
  \/ \E slide \in BOOLEAN : AppendVersion(r, slide)

ContentNext ==
  \/ \E r \in Requests, a \in Asks : Arrive(r, a)
  \/ \E r \in Requests : Handle(r)
  \/ \E r \in Requests : Drop(r)

ContentSpec == ContentInit /\ [][ContentNext]_contentVars

(* The server goes on while some handler can.  With finitely many requests *)
(* nothing more is needed: a handler that is passed over gets its turn.    *)
ContentFair == WF_contentVars(\E r \in Requests : Handle(r))

-------------------------------------------------------------------------------
(* Properties. *)

Busy(r) == at[r] \notin {"new", "done"}

(* Every variable has its type, and no side file has more versions than it *)
(* may keep.                                                               *)
ContentTypeOK ==
  /\ file \in [Files -> Contents \cup {None}]
  /\ dirs \subseteq Dirs
  /\ side \in [Files -> Seq(Docs)]
  /\ \A p \in Files : Len(side[p]) <= MaxVersions
  /\ arrived \in 0..MaxRequests
  /\ ask \in [Requests -> Asks \cup {None}]
  /\ \A r \in Requests : at[r] = "new" <=> r > arrived
  /\ structureLock \in 0..MaxRequests
  /\ pathLock \in [Paths -> 0..MaxRequests]
  /\ sideLock \in [Files -> 0..MaxRequests]
  /\ about \in [Requests -> Docs \cup {None}]
  /\ base \in [Requests -> Contents \cup {None}]
  /\ got \in [Requests -> Seq(Docs)]
  /\ todo \in [Requests -> SUBSET Files]
  /\ swept \subseteq Requests /\ doubled \subseteq Docs
  /\ kept \subseteq Docs /\ crossed \subseteq Docs

(* A patch is merged into what is at its path when it is written, and that *)
(* is the document it is of: between the reading and the writing nobody    *)
(* changes the file, by whatever endpoint (content.rs:227, patches.rs:445).*)
PatchFresh ==
  \A r \in Requests :
    Does(r, "patch", "second") \/ Does(r, "patch", "land")
      => file[ask[r].from] = base[r] /\ base[r].doc = about[r]

(* A document is in one place, whatever is written, patched and renamed at *)
(* once, unless it was copied or a write that found the path in use by     *)
(* another document, or whose folder was moved or removed and made again   *)
(* under it, brought it back (content.rs:218-226).                         *)
OnePlace ==
  \A p, q \in Files :
    file[p] # None /\ file[q] # None /\ file[p].doc = file[q].doc
      => p = q \/ file[p].doc \in doubled

Nowhere(d) == \A p \in Files : file[p] # None => file[p].doc # d

(* A document that was deleted does not come back: only the request that   *)
(* creates a document makes it appear, with the same exceptions            *)
(* (content.rs:345-347).                                                   *)
NoRevival ==
  [][\A d \in Docs :
       Nowhere(d) /\ ~Nowhere(d)'
         => d \in doubled' \/ (d # 0 /\ at[d] = "land" /\ at'[d] = "done")]_contentVars

(* A version that was answered for is in exactly one side file, also when  *)
(* its file or folder is renamed while versions are recorded, except where *)
(* the move crossed a record at its target (history.rs:365-372).           *)
HistoryOnce ==
  \A v \in kept \ crossed :
    \E p \in Files : v \in InSide(p) /\ \A q \in Files \ {p} : v \notin InSide(q)

(* The requests there are come to an end, all of them: no order of locks   *)
(* makes two wait for each other, and none waits for itself                *)
(* (content.rs:257).                                                       *)
RequestsEnd == []<>(\A r \in Requests : ~Busy(r))

===============================================================================
