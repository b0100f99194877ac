------------------------------ MODULE KeyedMutex ------------------------------
(***************************************************************************)
(* What PathLocks promises the content handlers (abstract specification):  *)
(* one lock per key, held by at most one call at a time.                   *)
(***************************************************************************)
CONSTANTS Guards, Keys

VARIABLE held  \* <<g, k>>: call g holds the lock of key k

Init == held = {}

Acquire(g, k) ==
  /\ \A h \in Guards, l \in Keys : <<h, l>> \in held => h # g /\ l # k
  /\ held' = held \cup {<<g, k>>}

Release(g, k) == <<g, k>> \in held /\ held' = held \ {<<g, k>>}

Next == \E g \in Guards, k \in Keys : Acquire(g, k) \/ Release(g, k)

Spec == Init /\ [][Next]_held

===============================================================================
