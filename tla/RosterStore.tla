----------------------------- MODULE RosterStore ------------------------------
(***************************************************************************)
(* How the server keeps its roster (ServerState::open and mutate,          *)
(* state.rs): four files, each replaced atomically, written one after the  *)
(* other on every change.  When a write fails, memory goes back to the     *)
(* copy made before the change, the files already written are written back *)
(* as far as that goes, and the caller gets an error.  A crash may come    *)
(* between any two writes; the next start loads what the files hold.       *)
(*                                                                         *)
(* The content of a file is the number of the change that last changed it. *)
(* A change runs under one lock, which readers take too.                   *)
(***************************************************************************)
EXTENDS Naturals

CONSTANT MaxChanges  \* bound: changes in a behaviour

ASSUME RosterAssumption == MaxChanges \in Nat

Count == 4
RosterFiles == 1..Count  \* accounts, sessions, spaces, invites

(* What the handlers change: registration and password reset; login,       *)
(* logout and revocation; spaces and members; joining; invites.            *)
Touches == {{1, 2}, {2}, {3}, {3, 4}, {4}}

VARIABLES
  memory,    \* memory[f]: the content of f in memory
  disk,      \* disk[f]: the content of the file
  snapshot,  \* memory before the change under way
  phase,     \* "idle", "writing" or "undoing"
  next,      \* the file to write, or to write back, next
  stop,      \* the file whose write failed: those before it are written back
  changes,   \* changes so far
  proposed,  \* history: memory with the last change
  answered,  \* history: memory as answered for, or loaded
  drifted    \* history: files whose write-back failed, not written since

rosterVars == <<memory, disk, snapshot, phase, next, stop, changes, proposed, answered, drifted>>

-------------------------------------------------------------------------------

(* mutate(): copy, change, and on to the files. *)
Change(touched) ==
  /\ phase = "idle"
  /\ changes < MaxChanges
  /\ changes' = changes + 1
  /\ snapshot' = memory
  /\ memory' = [f \in RosterFiles |-> IF f \in touched THEN changes' ELSE memory[f]]
  /\ proposed' = memory'
  /\ phase' = "writing"
  /\ next' = 1
  /\ UNCHANGED <<disk, stop, answered, drifted>>

WriteFile ==
  /\ phase = "writing"
  /\ next <= Count
  /\ disk' = [disk EXCEPT ![next] = memory[next]]
  /\ drifted' = drifted \ {next}
  /\ next' = next + 1
  /\ UNCHANGED <<memory, snapshot, phase, stop, changes, proposed, answered>>

WriteFails ==
  /\ phase = "writing"
  /\ next <= Count
  /\ memory' = snapshot
  /\ stop' = next
  /\ next' = 1
  /\ phase' = "undoing"
  /\ UNCHANGED <<disk, snapshot, changes, proposed, answered, drifted>>

WriteBack ==
  /\ phase = "undoing"
  /\ next < stop
  /\ disk' = [disk EXCEPT ![next] = snapshot[next]]
  /\ next' = next + 1
  /\ UNCHANGED <<memory, snapshot, phase, stop, changes, proposed, answered, drifted>>

WriteBackFails ==
  /\ phase = "undoing"
  /\ next < stop
  /\ drifted' = drifted \cup {next}
  /\ next' = next + 1
  /\ UNCHANGED <<memory, disk, snapshot, phase, stop, changes, proposed, answered>>

(* Mutant of Answer: the last file is written after the answer. *)
AnswerEarly ==
  /\ phase = "writing"
  /\ next = Count
  /\ phase' = "idle"
  /\ answered' = memory
  /\ next' = 1
  /\ UNCHANGED <<memory, disk, snapshot, stop, changes, proposed, drifted>>

Answer ==
  /\ phase = "writing"
  /\ next > Count
  /\ phase' = "idle"
  /\ answered' = memory
  /\ next' = 1
  /\ UNCHANGED <<memory, disk, snapshot, stop, changes, proposed, drifted>>

Refuse ==
  /\ phase = "undoing"
  /\ next >= stop
  /\ phase' = "idle"
  /\ next' = 1
  /\ UNCHANGED <<memory, disk, snapshot, stop, changes, proposed, answered, drifted>>

(* The process ends at any point, and open() loads the four files. *)
RestartServer ==
  /\ memory' = disk
  /\ answered' = disk
  /\ drifted' = {}
  /\ phase' = "idle"
  /\ next' = 1
  /\ UNCHANGED <<disk, snapshot, stop, changes, proposed>>

-------------------------------------------------------------------------------

Fresh == [f \in RosterFiles |-> 0]

RosterInit ==
  /\ memory = Fresh /\ disk = Fresh /\ snapshot = Fresh
  /\ phase = "idle" /\ next = 1 /\ stop = 1
  /\ changes = 0
  /\ proposed = Fresh /\ answered = Fresh /\ drifted = {}

RosterNext ==
  \/ \E touched \in Touches : Change(touched)
  \/ WriteFile \/ WriteFails
  \/ WriteBack \/ WriteBackFails
  \/ Answer \/ Refuse
  \/ RestartServer

RosterSpec == RosterInit /\ [][RosterNext]_rosterVars

-------------------------------------------------------------------------------
(* Properties. *)

Numbers == 0..MaxChanges

(* Every variable has its type.                                            *)
RosterTypeOK ==
  /\ memory \in [RosterFiles -> Numbers] /\ disk \in [RosterFiles -> Numbers]
  /\ snapshot \in [RosterFiles -> Numbers]
  /\ phase \in {"idle", "writing", "undoing"}
  /\ next \in 1..(Count + 1) /\ stop \in RosterFiles
  /\ changes \in Numbers
  /\ proposed \in [RosterFiles -> Numbers] /\ answered \in [RosterFiles -> Numbers]
  /\ drifted \subseteq RosterFiles

(* A refused change is not in effect, and outside of a change disk and     *)
(* memory differ only in files whose write-back failed (state.rs:298-299,  *)
(* 320-321).                                                               *)
DriftConfined ==
  phase = "idle" =>
    /\ memory = answered
    /\ \A f \in RosterFiles \ drifted : disk[f] = memory[f]

(* What a crash leaves behind is, but for those files, what was answered   *)
(* for, with at most one change begun on top: while that change is written *)
(* a first part of the files has it, while it is taken back any of the     *)
(* files written before the failure may.                                   *)
Durable ==
  \A f \in RosterFiles \ drifted :
    CASE phase = "idle" -> disk[f] = answered[f]
      [] phase = "writing" -> disk[f] = IF f < next THEN proposed[f] ELSE answered[f]
      [] phase = "undoing" -> disk[f] = IF next <= f /\ f < stop THEN proposed[f] ELSE answered[f]

===============================================================================
