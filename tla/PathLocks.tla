------------------------------- MODULE PathLocks ------------------------------
(***************************************************************************)
(* The server's table of locks by key (PathLocks and PathLockGuard,        *)
(* atelyx-server state.rs), which serialises the writers of a path and the *)
(* structural operations of a space.                                       *)
(*                                                                         *)
(* The table maps a key to a reference-counted asynchronous mutex.  A call *)
(* lock(key) clones the reference under the table's own lock (making the   *)
(* entry when it is absent), waits for the mutex in order of arrival, and  *)
(* returns a guard.  Dropping the guard first releases the mutex and then, *)
(* under the table's lock again, removes the entry when the table has the  *)
(* only reference.  The future of a waiting call may be dropped (its       *)
(* request was aborted): such a call leaves the line and runs no clean-up. *)
(***************************************************************************)
EXTENDS Integers, Sequences, SequencesExt

CONSTANTS
  Guards,      \* calls of lock() that may be in flight
  Keys,        \* space id and path
  MaxMutexes   \* bound: mutexes made in a behaviour

ASSUME MutexesAssumption == MaxMutexes \in Nat

VARIABLES
  table,     \* table[k]: the mutex of k, 0 when k has no entry
  minted,    \* mutexes made so far
  line,      \* line[m]: calls for mutex m in order of arrival; the first has it
  step,      \* step[g]: "idle", "cloned", "waiting", "holding", "released"
  key,       \* key[g]: the key g asked for
  mutex,     \* mutex[g]: the mutex whose reference g took
  abandoned  \* history: keys whose last call was dropped while it waited

vars == <<table, minted, line, step, key, mutex, abandoned>>

Mutexes == 1..MaxMutexes

(* Calls that hold a reference to their mutex. *)
Referring == {"cloned", "waiting", "holding"}

Uses(g, k) == step[g] # "idle" /\ key[g] = k

-------------------------------------------------------------------------------

(* lock(): the part under the table's lock. *)
Lookup(g, k) ==
  /\ step[g] = "idle"
  /\ step' = [step EXCEPT ![g] = "cloned"]
  /\ key' = [key EXCEPT ![g] = k]
  /\ IF table[k] # 0
     THEN UNCHANGED <<table, minted>>
     ELSE /\ minted < MaxMutexes
          /\ minted' = minted + 1
          /\ table' = [table EXCEPT ![k] = minted + 1]
  /\ mutex' = [mutex EXCEPT ![g] = table'[k]]
  /\ abandoned' = abandoned \ {k}
  /\ UNCHANGED line

(* lock_owned(): enter the line. *)
Enqueue(g) ==
  /\ step[g] = "cloned"
  /\ step' = [step EXCEPT ![g] = "waiting"]
  /\ line' = [line EXCEPT ![mutex[g]] = Append(@, g)]
  /\ UNCHANGED <<table, minted, key, mutex, abandoned>>

Acquire(g) ==
  /\ step[g] = "waiting"
  /\ line[mutex[g]] # <<>> /\ Head(line[mutex[g]]) = g
  /\ step' = [step EXCEPT ![g] = "holding"]
  /\ UNCHANGED <<table, minted, line, key, mutex, abandoned>>

(* Mutant of Cancel: the dropped call keeps its place in line.             *)
CancelInPlace(g) ==
  /\ step[g] = "waiting"
  /\ step' = [step EXCEPT ![g] = "idle"]
  /\ UNCHANGED <<table, minted, line, key, mutex, abandoned>>

(* The future of a waiting call is dropped. *)
Cancel(g) ==
  /\ step[g] = "waiting"
  /\ step' = [step EXCEPT ![g] = "idle"]
  /\ \E i \in 1..Len(line[mutex[g]]) :
        /\ line[mutex[g]][i] = g
        /\ line' = [line EXCEPT ![mutex[g]] = RemoveAt(@, i)]
  /\ abandoned' = IF \E h \in Guards \ {g} : Uses(h, key[g]) THEN abandoned
                  ELSE abandoned \cup {key[g]}
  /\ UNCHANGED <<table, minted, key, mutex>>

(* The guard is dropped: the mutex goes to the next in line ... *)
Unlock(g) ==
  /\ step[g] = "holding"
  /\ step' = [step EXCEPT ![g] = "released"]
  /\ line' = [line EXCEPT ![mutex[g]] = Tail(@)]
  /\ UNCHANGED <<table, minted, key, mutex, abandoned>>

(* Does anything but the table refer to the mutex of k? (strong_count)     *)
(* Mutant: only a guard counts, a waiting call does not.                   *)
SharedByGuards(k) == \E h \in Guards : step[h] = "holding" /\ mutex[h] = table[k]

Shared(k) == \E h \in Guards : step[h] \in Referring /\ mutex[h] = table[k]

(* Mutant of Tidy: the entry stays.                                        *)
TidyNothing(g) ==
  /\ step[g] = "released"
  /\ step' = [step EXCEPT ![g] = "idle"]
  /\ UNCHANGED <<table, minted, line, key, mutex, abandoned>>

(* ... and the entry is removed when nobody else refers to it. *)
Tidy(g) ==
  /\ step[g] = "released"
  /\ step' = [step EXCEPT ![g] = "idle"]
  /\ table' = IF Shared(key[g]) THEN table ELSE [table EXCEPT ![key[g]] = 0]
  /\ UNCHANGED <<minted, line, key, mutex, abandoned>>

-------------------------------------------------------------------------------

Init ==
  /\ table = [k \in Keys |-> 0]
  /\ minted = 0
  /\ line = [m \in Mutexes |-> <<>>]
  /\ step = [g \in Guards |-> "idle"]
  /\ key \in [Guards -> Keys]
  /\ mutex = [g \in Guards |-> 0]
  /\ abandoned = {}

Next ==
  \/ \E g \in Guards, k \in Keys : Lookup(g, k)
  \/ \E g \in Guards : Enqueue(g)
  \/ \E g \in Guards : Acquire(g)
  \/ \E g \in Guards : Cancel(g)
  \/ \E g \in Guards : Unlock(g)
  \/ \E g \in Guards : Tidy(g)

Spec == Init /\ [][Next]_vars

(* A call that was polled goes on, its handler ends, its guard is dropped. *)
LocksFair ==
  \A g \in Guards : WF_vars(Enqueue(g) \/ Acquire(g) \/ Unlock(g))

-------------------------------------------------------------------------------
(* Properties. *)

LinesOK ==
  \A m \in Mutexes :
    \A i \in 1..Len(line[m]) :
      /\ mutex[line[m][i]] = m
      /\ step[line[m][i]] \in {"waiting", "holding"}
      /\ step[line[m][i]] = "holding" => i = 1
      /\ \A j \in 1..Len(line[m]) : line[m][j] = line[m][i] => j = i

(* Every variable has its type, and the lines are made of the calls that   *)
(* wait for the mutex or, at the head, have it, each of them once.         *)
TypeOK ==
  /\ table \in [Keys -> 0..MaxMutexes]
  /\ minted \in 0..MaxMutexes
  /\ line \in [Mutexes -> Seq(Guards)]
  /\ LinesOK
  /\ step \in [Guards -> Referring \cup {"idle", "released"}]
  /\ key \in [Guards -> Keys]
  /\ mutex \in [Guards -> 0..MaxMutexes]
  /\ abandoned \subseteq Keys

(* Two guards of one key never exist together: a path has one writer, also *)
(* while entries come and go under calls that are still in flight.         *)
Exclusive ==
  \A g, h \in Guards :
    step[g] = "holding" /\ step[h] = "holding" /\ key[g] = key[h] => g = h

(* No entry is removed while its lock is in service: whoever has, or waits *)
(* for, the lock of a key has the mutex that a new call would find.        *)
EntryInService ==
  \A g \in Guards : step[g] \in Referring => mutex[g] # 0 /\ mutex[g] = table[key[g]]

(* The table does not grow: an entry has a call that uses it, or the last  *)
(* one was dropped while it waited.                                        *)
EntriesUsed ==
  \A k \in Keys : table[k] # 0 => k \in abandoned \/ \E g \in Guards : Uses(g, k)

(* The guards are locks by key. *)
Mutex == INSTANCE KeyedMutex WITH
  held <- {<<g, key[g]>> : g \in {h \in Guards : step[h] = "holding"}}

ImplementsMutex == Mutex!Spec

(* A waiting call gets its lock, whatever the calls before it do.  Calls   *)
(* are interchangeable: what holds of one holds of all.                    *)
Granted ==
  LET g == CHOOSE h \in Guards : TRUE
  IN step[g] = "waiting" ~> step[g] \in {"holding", "idle"}

===============================================================================
