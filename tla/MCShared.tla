-------------------------------- MODULE MCShared -------------------------------
(***************************************************************************)
(* One instance of seven parts of the system that have no state in common: *)
(* a behaviour is one of the part that is chosen at first, the others stay *)
(* as they start.                                                          *)
(***************************************************************************)
EXTENDS PathLocks, ContentStore, RosterStore, EphemeralChannel,
        ServiceDirectory, ServiceCalls, NoteBaseline

VARIABLE part  \* the part that runs

Parts == {"locks", "content", "roster", "ephemeral", "service", "calls", "note"}

Req(op, from, to) == [op |-> op, from |-> from, to |-> to]

(* Requests on the file there is, on one beside it, on one elsewhere and   *)
(* on the two folders.                                                     *)
mcAsks ==
  LET x == <<1, 1>>
      y == <<1, 2>>
      d == <<1>>
      e == <<2>>
  IN {Req("write", x, x), Req("write", y, y), Req("patch", x, x), Req("patch", x, y),
      Req("rename", x, y), Req("rename", x, x), Req("rename", d, e), Req("copy", x, y),
      Req("delete", x, x), Req("mkdir", d, d), Req("rmdir", d, d),
      Req("record", x, x), Req("record", y, y)}

mcPlaced == <<1, 1>>

-------------------------------------------------------------------------------

SharedInit ==
  /\ part \in Parts
  /\ Init
  /\ ContentInit /\ RosterInit /\ EphemeralInit /\ ServiceInit /\ CallsInit /\ NoteInit
  /\ part = "locks" \/ \A g \in Guards : key[g] = CHOOSE k \in Keys : TRUE
  /\ part = "service" \/ kind = CHOOSE k \in Kinds : TRUE

SharedNext ==
  \/ /\ part = "locks" /\ Next
     /\ UNCHANGED <<part, contentVars, rosterVars, ephemeralVars, serviceVars, callVars, noteVars>>
  \/ /\ part = "content" /\ ContentNext
     /\ UNCHANGED <<part, vars, rosterVars, ephemeralVars, serviceVars, callVars, noteVars>>
  \/ /\ part = "roster" /\ RosterNext
     /\ UNCHANGED <<part, vars, contentVars, ephemeralVars, serviceVars, callVars, noteVars>>
  \/ /\ part = "ephemeral" /\ EphemeralNext
     /\ UNCHANGED <<part, vars, contentVars, rosterVars, serviceVars, callVars, noteVars>>
  \/ /\ part = "service" /\ ServiceNext
     /\ UNCHANGED <<part, vars, contentVars, rosterVars, ephemeralVars, callVars, noteVars>>
  \/ /\ part = "calls" /\ CallsNext
     /\ UNCHANGED <<part, vars, contentVars, rosterVars, ephemeralVars, serviceVars, noteVars>>
  \/ /\ part = "note" /\ NoteNext
     /\ UNCHANGED <<part, vars, contentVars, rosterVars, ephemeralVars, serviceVars, callVars>>

sharedVars == <<part, vars, contentVars, rosterVars, ephemeralVars, serviceVars, callVars, noteVars>>

(* What must happen in a part cannot happen where the part starts, so the  *)
(* fairness of the others asks for nothing.                                *)
SharedSpec ==
  /\ SharedInit /\ [][SharedNext]_sharedVars
  /\ LocksFair
  /\ ContentFair
  /\ EphemeralFair

(* Every part keeps its types. *)
AllTypesOK ==
  /\ TypeOK /\ ContentTypeOK /\ RosterTypeOK /\ EphemeralTypeOK
  /\ ServiceTypeOK /\ CallsTypeOK /\ NoteTypeOK

===============================================================================
