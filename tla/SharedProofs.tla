------------------------------ MODULE SharedProofs -----------------------------
(***************************************************************************)
(* What holds of a part holds of it among the others: a behaviour of       *)
(* MCShared is, for every part at once, one of that part's specification.  *)
(***************************************************************************)
EXTENDS MCShared, StoreProofs, CollabProofs, ServiceProofs

(* A step of one part, or of none, leaves each other part as it is.        *)
LEMMA PartsStep ==
  ASSUME [SharedNext]_sharedVars
  PROVE  /\ [Next]_vars /\ [ContentNext]_contentVars /\ [RosterNext]_rosterVars
         /\ [EphemeralNext]_ephemeralVars /\ [ServiceNext]_serviceVars
         /\ [CallsNext]_callVars /\ [NoteNext]_noteVars
<1>1. CASE SharedNext
  BY <1>1 DEF SharedNext
<1>2. CASE UNCHANGED sharedVars
  BY <1>2 DEF sharedVars
<1> QED BY <1>1, <1>2

(* The seven parts of MCShared (the locks, content and roster of the       *)
(* server, ephemeral states, services, tool calls, notes) run as they do   *)
(* alone, whichever of them is chosen.                                     *)
THEOREM PartsRunAlone ==
  SharedSpec => /\ Spec /\ ContentSpec /\ RosterSpec /\ EphemeralSpec
                /\ ServiceSpec /\ CallsSpec /\ NoteSpec
<1>1. SharedInit => /\ Init /\ ContentInit /\ RosterInit /\ EphemeralInit
                    /\ ServiceInit /\ CallsInit /\ NoteInit
  BY DEF SharedInit
<1> QED BY <1>1, PartsStep, PTL
        DEF SharedSpec, Spec, ContentSpec, RosterSpec, EphemeralSpec, ServiceSpec, CallsSpec, NoteSpec

(* Every part keeps its types, for all values of all constants: the state  *)
(* of the seven components stays within what their code can represent.     *)
THEOREM AllTyped == SharedSpec => []AllTypesOK
<1>1. RosterInv => RosterTypeOK
  BY DEF RosterInv
<1>2. CallsInv => CallsTypeOK
  BY DEF CallsInv
<1>3. TypeOK /\ ContentTypeOK /\ RosterTypeOK /\ EphemeralTypeOK /\ ServiceTypeOK /\ CallsTypeOK
        /\ NoteTypeOK => AllTypesOK
  BY DEF AllTypesOK
<1> QED BY PartsRunAlone, LocksTyped, ContentTyped, RosterTracked, EphemeralTyped, DirectoryTyped,
           CallsTracked, NotesTyped, <1>1, <1>2, <1>3, PTL

(* What the run Shared checks of its parts (locks of paths, patches and    *)
(* documents, history, roster files, late frames, what plugins know of     *)
(* services, tool calls, text not saved, one text for all) holds among the  *)
(* others too.                                                             *)
THEOREM PartsKeepTheirs ==
  SharedSpec => /\ []EntriesUsed /\ []PatchFresh /\ []OnePlace /\ []HistoryOnce /\ []Durable
                /\ []LateStaysOut /\ []KnownIsRouted /\ []NoneForsaken /\ []AnswersOwn
                /\ []UnsavedKept /\ []TogetherAgree /\ ImplementsMutex /\ NoRevival
BY PartsRunAlone, EntriesAreUsed, PatchesAreFresh, DocumentsInOnePlace, HistoryKeptOnce,
   AnswersAreDurable, LateFramesStayOut, WhatPluginsKnow, NoCallForsaken, AnswersReachAskers,
   UnsavedStays, MembersAgree, LocksImplementMutex, DocumentsStayDeleted, PTL

===============================================================================
