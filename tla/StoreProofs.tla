------------------------------ MODULE StoreProofs ------------------------------
(***************************************************************************)
(* Proofs about what the server keeps on disk: PathLocks, a lock by key    *)
(* for any calls, any keys and any bound on the mutexes made; RosterStore; *)
(* and the patches, documents and versions of ContentStore.                *)
(***************************************************************************)
EXTENDS PathLocks, RosterStore, ContentStore, SequenceTheorems, TLAPS

-------------------------------------------------------------------------------
(* The locks. *)

(* EntryInService ties a call to the table and LinesOK (in TypeOK) ties it *)
(* to its place in line; Tail moves the head on only when the head unlocks.*)
HoldersFirst ==
  \A g \in Guards : step[g] = "holding" =>
    line[mutex[g]] # <<>> /\ line[mutex[g]][1] = g

Types ==
  /\ table \in [Keys -> 0..MaxMutexes]
  /\ minted \in 0..MaxMutexes
  /\ line \in [Mutexes -> Seq(Guards)]
  /\ step \in [Guards -> Referring \cup {"idle", "released"}]
  /\ key \in [Guards -> Keys]
  /\ mutex \in [Guards -> 0..MaxMutexes]

IInv == Types /\ HoldersFirst /\ EntryInService

(* Two holders of a key have the same mutex, the one in the table, and     *)
(* both stand first in its line.                                           *)
LEMMA IInvExclusive == IInv => Exclusive
BY DEF IInv, HoldersFirst, EntryInService, Exclusive, Referring

LEMMA RemoveKeepsHead ==
  ASSUME NEW s \in Seq(Guards), NEW i \in 1..Len(s), i # 1
  PROVE  RemoveAt(s, i) \in Seq(Guards) /\ RemoveAt(s, i) # <<>> /\ RemoveAt(s, i)[1] = s[1]
BY DEF RemoveAt

LEMMA RemoveType ==
  ASSUME NEW s \in Seq(Guards), NEW i \in 1..Len(s)
  PROVE  RemoveAt(s, i) \in Seq(Guards)
BY DEF RemoveAt

LEMMA IInvStep == IInv /\ [Next]_vars => IInv'
<1> SUFFICES ASSUME IInv, [Next]_vars PROVE IInv'
  OBVIOUS
<1> USE MutexesAssumption DEF Types
<1>0. Types /\ HoldersFirst /\ EntryInService
  BY DEF IInv
<1>1. ASSUME NEW g \in Guards, NEW k \in Keys, Lookup(g, k) PROVE IInv'
  <2>1. table' \in [Keys -> 0..MaxMutexes] /\ table'[k] # 0 /\ minted' \in 0..MaxMutexes
    BY <1>0, <1>1 DEF Lookup
  <2>2. Types'
    BY <1>0, <1>1, <2>1 DEF Lookup, Referring
  <2>3. HoldersFirst'
    BY <1>0, <1>1 DEF Lookup, HoldersFirst
  <2>4. EntryInService'
    <3> SUFFICES ASSUME NEW h \in Guards, step'[h] \in Referring
                 PROVE  mutex'[h] # 0 /\ mutex'[h] = table'[key'[h]]
      BY DEF EntryInService
    <3>1. CASE h = g
      BY <1>0, <1>1, <2>1, <3>1 DEF Lookup
    <3>2. CASE h # g
      <4>1. step[h] \in Referring /\ mutex'[h] = mutex[h] /\ key'[h] = key[h]
        BY <1>0, <1>1, <3>2 DEF Lookup
      <4>2. mutex[h] # 0 /\ mutex[h] = table[key[h]]
        BY <1>0, <4>1 DEF EntryInService
      <4>3. table'[key[h]] = table[key[h]]
        BY <1>0, <1>1, <4>2 DEF Lookup
      <4> QED BY <4>1, <4>2, <4>3
    <3> QED BY <3>1, <3>2
  <2> QED BY <2>2, <2>3, <2>4 DEF IInv
<1>2. ASSUME NEW g \in Guards, Enqueue(g) PROVE IInv'
  <2>1. mutex[g] \in Mutexes
    BY <1>0, <1>2 DEF Enqueue, EntryInService, Mutexes, Referring
  <2>2. Types'
    BY <1>0, <1>2, <2>1 DEF Enqueue, Referring
  <2>3. HoldersFirst'
    <3> SUFFICES ASSUME NEW h \in Guards, step'[h] = "holding"
                 PROVE  line'[mutex'[h]] # <<>> /\ line'[mutex'[h]][1] = h
      BY DEF HoldersFirst
    <3>1. step[h] = "holding" /\ mutex'[h] = mutex[h] /\ mutex[h] \in Mutexes
      BY <1>0, <1>2 DEF Enqueue, EntryInService, Mutexes, Referring
    <3>2. line[mutex[h]] # <<>> /\ line[mutex[h]][1] = h /\ line[mutex[h]] \in Seq(Guards)
      BY <1>0, <3>1 DEF HoldersFirst
    <3>3. line'[mutex[h]] \in {line[mutex[h]], Append(line[mutex[h]], g)}
      BY <1>0, <1>2, <2>1, <3>1 DEF Enqueue
    <3> QED BY <3>1, <3>2, <3>3
  <2>4. EntryInService'
    BY <1>0, <1>2 DEF Enqueue, EntryInService, Referring
  <2> QED BY <2>2, <2>3, <2>4 DEF IInv
<1>3. ASSUME NEW g \in Guards, Acquire(g) PROVE IInv'
  <2>1. mutex[g] \in Mutexes
    BY <1>0, <1>3 DEF Acquire, EntryInService, Mutexes, Referring
  <2>2. Types' /\ EntryInService'
    BY <1>0, <1>3 DEF Acquire, EntryInService, Referring
  <2>3. HoldersFirst'
    BY <1>0, <1>3, <2>1 DEF Acquire, HoldersFirst
  <2> QED BY <2>2, <2>3 DEF IInv
<1>4. ASSUME NEW g \in Guards, Cancel(g) PROVE IInv'
  <2>1. mutex[g] \in Mutexes /\ line[mutex[g]] \in Seq(Guards)
    BY <1>0, <1>4 DEF Cancel, EntryInService, Mutexes, Referring
  <2>2. PICK i \in 1..Len(line[mutex[g]]) :
          /\ line[mutex[g]][i] = g
          /\ line' = [line EXCEPT ![mutex[g]] = RemoveAt(@, i)]
    BY <1>4 DEF Cancel
  <2>3. Types'
    <3>1. RemoveAt(line[mutex[g]], i) \in Seq(Guards)
      BY <2>1, RemoveType
    <3> QED BY <1>0, <1>4, <2>2, <3>1 DEF Cancel, Referring
  <2>4. HoldersFirst'
    <3> SUFFICES ASSUME NEW h \in Guards, step'[h] = "holding"
                 PROVE  line'[mutex'[h]] # <<>> /\ line'[mutex'[h]][1] = h
      BY DEF HoldersFirst
    <3>1. step[h] = "holding" /\ mutex'[h] = mutex[h] /\ mutex[h] \in Mutexes /\ h # g
      BY <1>0, <1>4 DEF Cancel, EntryInService, Mutexes, Referring
    <3>2. line[mutex[h]] # <<>> /\ line[mutex[h]][1] = h
      BY <1>0, <3>1 DEF HoldersFirst
    <3>3. CASE mutex[h] = mutex[g]
      <4>1. i # 1
        BY <2>2, <3>1, <3>2, <3>3
      <4>2. /\ RemoveAt(line[mutex[g]], i) # <<>>
            /\ RemoveAt(line[mutex[g]], i)[1] = line[mutex[g]][1]
        BY <2>1, <4>1, RemoveKeepsHead
      <4> QED BY <1>0, <2>1, <2>2, <3>1, <3>2, <3>3, <4>2
    <3>4. CASE mutex[h] # mutex[g]
      BY <1>0, <2>2, <3>1, <3>2, <3>4
    <3> QED BY <3>3, <3>4
  <2>5. EntryInService'
    BY <1>0, <1>4 DEF Cancel, EntryInService, Referring
  <2> QED BY <2>3, <2>4, <2>5 DEF IInv
<1>5. ASSUME NEW g \in Guards, Unlock(g) PROVE IInv'
  <2>1. /\ mutex[g] \in Mutexes /\ line[mutex[g]] \in Seq(Guards)
        /\ line[mutex[g]] # <<>> /\ line[mutex[g]][1] = g
    BY <1>0, <1>5 DEF Unlock, EntryInService, HoldersFirst, Mutexes, Referring
  <2>2. Types'
    BY <1>0, <1>5, <2>1 DEF Unlock, Referring
  <2>3. HoldersFirst'
    BY <1>0, <1>5, <2>1 DEF Unlock, HoldersFirst
  <2>4. EntryInService'
    BY <1>0, <1>5 DEF Unlock, EntryInService, Referring
  <2> QED BY <2>2, <2>3, <2>4 DEF IInv
<1>6. ASSUME NEW g \in Guards, Tidy(g) PROVE IInv'
  <2>1. Types'
    BY <1>0, <1>6 DEF Tidy, Referring
  <2>2. HoldersFirst'
    BY <1>0, <1>6 DEF Tidy, HoldersFirst
  <2>3. EntryInService'
    BY <1>0, <1>6 DEF Tidy, EntryInService, Shared, Referring
  <2> QED BY <2>1, <2>2, <2>3 DEF IInv
<1>7. CASE UNCHANGED vars
  BY <1>0, <1>7 DEF vars, IInv, HoldersFirst, EntryInService, Referring
<1> QED BY <1>1, <1>2, <1>3, <1>4, <1>5, <1>6, <1>7 DEF Next

LEMMA IInvInvariant == Spec => []IInv
<1>1. Init => IInv
  BY MutexesAssumption DEF Init, IInv, Types, HoldersFirst, EntryInService, Mutexes, Referring
<1> QED BY <1>1, IInvStep, PTL DEF Spec

(* A path has one writer: two guards of one key never exist together.      *)
THEOREM LocksExclude == Spec => []Exclusive
BY IInvInvariant, IInvExclusive, PTL

(* The entry of a lock in service stays in the table.                      *)
THEOREM EntriesStay == Spec => []EntryInService
<1>1. IInv => EntryInService
  BY DEF IInv
<1> QED BY <1>1, IInvInvariant, PTL

(* Each key has a mutex of its own, so a call that keeps an entry alive is *)
(* a call for the entry's key: without it a guard of another key could     *)
(* leave an entry behind that nobody uses.                                 *)
TableApart ==
  /\ \A k \in Keys : table[k] <= minted
  /\ \A k, l \in Keys : table[k] # 0 /\ table[k] = table[l] => k = l

TableInv == IInv /\ TableApart /\ EntriesUsed /\ abandoned \subseteq Keys

LEMMA TableInvStep == TableInv /\ [Next]_vars => TableInv'
<1> SUFFICES ASSUME TableInv, [Next]_vars PROVE TableInv'
  OBVIOUS
<1> USE MutexesAssumption
<1>0. Types /\ EntryInService /\ TableApart /\ EntriesUsed /\ abandoned \subseteq Keys
  BY DEF TableInv, IInv
<1>1. IInv' /\ Types'
  BY IInvStep DEF TableInv, IInv
<1>2. ASSUME NEW g \in Guards, NEW k \in Keys, Lookup(g, k) PROVE TableInv'
  <2>1. TableApart'
    <3>1. CASE table[k] # 0
      BY <1>0, <1>2, <3>1 DEF Lookup, TableApart
    <3>2. CASE table[k] = 0
      <4>1. /\ minted' = minted + 1 /\ table'[k] = minted + 1
            /\ \A l \in Keys \ {k} : table'[l] = table[l]
        BY <1>0, <1>2, <3>2 DEF Lookup, Types
      <4>2. minted \in Nat /\ \A l \in Keys : table[l] \in Nat /\ table[l] <= minted
        BY <1>0 DEF Types, TableApart
      <4>3. \A l \in Keys : table'[l] <= minted'
        BY <4>1, <4>2
      <4>4. ASSUME NEW l \in Keys, NEW n \in Keys, table'[l] # 0, table'[l] = table'[n]
            PROVE  l = n
        BY <1>0, <4>1, <4>2, <4>4 DEF TableApart
      <4> QED BY <4>3, <4>4 DEF TableApart
    <3> QED BY <3>1, <3>2
  <2>2. EntriesUsed'
    <3> SUFFICES ASSUME NEW l \in Keys, table'[l] # 0
                 PROVE  l \in abandoned' \/ \E h \in Guards : Uses(h, l)'
      BY DEF EntriesUsed
    <3>1. CASE l = k
      BY <1>0, <1>2, <3>1 DEF Lookup, Uses, Types
    <3>2. CASE l # k
      <4>1. table[l] # 0
        BY <1>0, <1>2, <3>2 DEF Lookup, Types
      <4>2. l \in abandoned \/ \E h \in Guards : Uses(h, l)
        BY <1>0, <4>1 DEF EntriesUsed
      <4>3. ASSUME NEW h \in Guards, Uses(h, l) PROVE Uses(h, l)'
        BY <1>0, <1>2, <4>3 DEF Lookup, Uses, Types
      <4> QED BY <1>2, <3>2, <4>2, <4>3 DEF Lookup
    <3> QED BY <3>1, <3>2
  <2> QED BY <1>0, <1>1, <1>2, <2>1, <2>2 DEF Lookup, TableInv
<1>3. ASSUME NEW g \in Guards, Enqueue(g) \/ Acquire(g) \/ Unlock(g) PROVE TableInv'
  <2>1. UNCHANGED <<table, minted, abandoned>>
    BY <1>3 DEF Enqueue, Acquire, Unlock
  <2>2. ASSUME NEW l \in Keys, NEW h \in Guards, Uses(h, l) PROVE Uses(h, l)'
    BY <1>0, <1>3, <2>2 DEF Enqueue, Acquire, Unlock, Uses, Types
  <2>3. EntriesUsed'
    BY <1>0, <2>1, <2>2 DEF EntriesUsed
  <2> QED BY <1>0, <1>1, <2>1, <2>3 DEF TableInv, TableApart
<1>4. ASSUME NEW g \in Guards, Cancel(g) PROVE TableInv'
  <2>1. UNCHANGED <<table, minted, key>>
    BY <1>4 DEF Cancel
  <2>2. EntriesUsed'
    <3> SUFFICES ASSUME NEW l \in Keys, table[l] # 0
                 PROVE  l \in abandoned' \/ \E h \in Guards : Uses(h, l)'
      BY <2>1 DEF EntriesUsed
    <3>1. l \in abandoned \/ \E h \in Guards : Uses(h, l)
      BY <1>0 DEF EntriesUsed
    <3>2. CASE l \in abandoned
      BY <1>4, <3>2 DEF Cancel
    <3>3. ASSUME NEW h \in Guards, h # g, Uses(h, l) PROVE Uses(h, l)'
      BY <1>0, <1>4, <3>3 DEF Cancel, Uses, Types
    <3>4. CASE Uses(g, l)
      <4>1. key[g] = l
        BY <3>4 DEF Uses
      <4>2. CASE \E h \in Guards \ {g} : Uses(h, l)
        BY <3>3, <4>2
      <4>3. CASE ~ \E h \in Guards \ {g} : Uses(h, l)
        BY <1>4, <4>1, <4>3 DEF Cancel
      <4> QED BY <4>2, <4>3
    <3> QED BY <3>1, <3>2, <3>3, <3>4
  <2>3. abandoned' \subseteq Keys
    BY <1>0, <1>4 DEF Cancel, Types
  <2> QED BY <1>0, <1>1, <2>1, <2>2, <2>3 DEF TableInv, TableApart
<1>5. ASSUME NEW g \in Guards, Tidy(g) PROVE TableInv'
  <2>1. UNCHANGED <<minted, key, mutex, abandoned>> /\ key[g] \in Keys
    BY <1>0, <1>5 DEF Tidy, Types
  <2>2. TableApart'
    BY <1>0, <1>5 DEF Tidy, TableApart, Types
  <2>3. EntriesUsed'
    <3> SUFFICES ASSUME NEW l \in Keys, table'[l] # 0
                 PROVE  l \in abandoned' \/ \E h \in Guards : Uses(h, l)'
      BY DEF EntriesUsed
    <3>1. table[l] # 0
      BY <1>0, <1>5 DEF Tidy, Types
    <3>2. l \in abandoned \/ \E h \in Guards : Uses(h, l)
      BY <1>0, <3>1 DEF EntriesUsed
    <3>3. ASSUME NEW h \in Guards, h # g, Uses(h, l) PROVE Uses(h, l)'
      BY <1>0, <1>5, <3>3 DEF Tidy, Uses, Types
    <3>4. CASE l = key[g]
      \* The entry stayed: another call has its mutex, and the key with it.
      <4>1. Shared(l)
        BY <1>0, <1>5, <3>4 DEF Tidy, Types
      <4>2. PICK h \in Guards : step[h] \in Referring /\ mutex[h] = table[l]
        BY <4>1 DEF Shared
      <4>3. mutex[h] = table[key[h]] /\ key[h] \in Keys
        BY <1>0, <4>2 DEF EntryInService, Types
      <4>4. key[h] = l
        BY <1>0, <3>1, <4>2, <4>3 DEF TableApart
      <4>5. h # g /\ Uses(h, l)
        BY <1>5, <4>2, <4>4 DEF Tidy, Uses, Referring
      <4> QED BY <3>3, <4>5
    <3>5. CASE l # key[g]
      BY <2>1, <3>2, <3>3, <3>5 DEF Uses
    <3> QED BY <3>4, <3>5
  <2> QED BY <1>0, <1>1, <2>1, <2>2, <2>3 DEF TableInv
<1>6. CASE UNCHANGED vars
  BY <1>0, <1>1, <1>6 DEF vars, TableInv, TableApart, EntriesUsed, Uses
<1> QED BY <1>2, <1>3, <1>4, <1>5, <1>6 DEF Next

(* An entry of the table is in use, or its last call was dropped while it  *)
(* waited.                                                                 *)
THEOREM EntriesAreUsed == Spec => []EntriesUsed
<1>1. Init => TableInv
  BY MutexesAssumption
  DEF Init, TableInv, IInv, Types, HoldersFirst, EntryInService, Mutexes, Referring,
      TableApart, EntriesUsed
<1>2. TableInv => EntriesUsed
  BY DEF TableInv
<1> QED BY <1>1, <1>2, TableInvStep, PTL DEF Spec

(* The table of locks implements the lock by key of KeyedMutex.            *)
THEOREM LocksImplementMutex == Spec => ImplementsMutex
<1> DEFINE held == {<<g, key[g]>> : g \in {h \in Guards : step[h] = "holding"}}
<1>1. Init => Mutex!Init
  BY DEF Init, Mutex!Init
<1>2. IInv /\ [Next]_vars => [Mutex!Next]_held
  <2> SUFFICES ASSUME IInv, [Next]_vars PROVE [Mutex!Next]_held
    OBVIOUS
  <2>0. Types /\ Exclusive
    BY IInvExclusive DEF IInv
  <2>1. ASSUME NEW g \in Guards, NEW k \in Keys, k = key[g], Acquire(g)
        PROVE  Mutex!Acquire(g, k)
    <3>1. held' = held \cup {<<g, k>>}
      BY <2>0, <2>1 DEF Acquire, Types
    <3>2. ASSUME NEW h \in Guards, NEW l \in Keys, <<h, l>> \in held PROVE h # g /\ l # k
      <4>1. step[h] = "holding" /\ key[h] = l
        BY <3>2
      <4>2. h # g
        BY <2>1, <4>1 DEF Acquire
      <4>3. l # k
        \* g would hold the same key after this step, against Exclusive'.
        <5>1. Exclusive'
          <6>1. IInv'
            BY IInvStep
          <6> QED BY <6>1 DEF IInv, HoldersFirst, EntryInService, Exclusive, Referring
        <5>2. step'[h] = "holding" /\ step'[g] = "holding" /\ key' = key
          BY <2>0, <2>1, <4>1, <4>2 DEF Acquire, Types
        <5> QED BY <2>1, <4>1, <4>2, <5>1, <5>2 DEF Exclusive
      <4> QED BY <4>2, <4>3
    <3> QED BY <3>1, <3>2 DEF Mutex!Acquire
  <2>2. ASSUME NEW g \in Guards, NEW k \in Keys, k = key[g], Unlock(g)
        PROVE  Mutex!Release(g, k)
    BY <2>0, <2>2 DEF Unlock, Types, Mutex!Release
  <2>3. ASSUME NEW g \in Guards, NEW k \in Keys, Lookup(g, k) PROVE held' = held
    BY <2>0, <2>3 DEF Lookup, Types
  <2>4. ASSUME NEW g \in Guards, Enqueue(g) \/ Cancel(g) \/ Tidy(g) PROVE held' = held
    BY <2>0, <2>4 DEF Enqueue, Cancel, Tidy, Types
  <2>5. CASE UNCHANGED vars
    BY <2>5 DEF vars
  <2>6. \A g \in Guards : key[g] \in Keys
    BY <2>0 DEF Types
  <2>7. ASSUME NEW g \in Guards, Acquire(g) \/ Unlock(g) PROVE Mutex!Next
    <3>1. PICK k \in Keys : k = key[g]
      BY <2>6
    <3>2. Mutex!Acquire(g, k) \/ Mutex!Release(g, k)
      BY <2>1, <2>2, <2>7, <3>1
    <3> QED BY <3>2 DEF Mutex!Next
  <2> HIDE DEF held
  <2> QED BY <2>3, <2>4, <2>5, <2>7 DEF Next
<1> QED BY <1>1, <1>2, IInvInvariant, PTL DEF Spec, ImplementsMutex, Mutex!Spec

-------------------------------------------------------------------------------
(* The lines. *)

LEMMA RemoveElements ==
  ASSUME NEW s \in Seq(Guards), NEW i \in 1..Len(s)
  PROVE  /\ Len(RemoveAt(s, i)) = Len(s) - 1
         /\ \A j \in 1..Len(s) - 1 : RemoveAt(s, i)[j] = IF j < i THEN s[j] ELSE s[j + 1]
<1> DEFINE a == SubSeq(s, 1, i - 1)
           b == SubSeq(s, i + 1, Len(s))
<1>1. Len(s) \in Nat /\ i \in Nat /\ i >= 1 /\ i <= Len(s)
  OBVIOUS
<1>2. a \in Seq(Guards) /\ Len(a) = i - 1 /\ \A j \in 1..i - 1 : a[j] = s[j]
  BY <1>1
<1>3. b \in Seq(Guards) /\ Len(b) = Len(s) - i /\ \A j \in 1..Len(s) - i : b[j] = s[i + j]
  BY <1>1
<1>4. RemoveAt(s, i) = a \o b
  BY DEF RemoveAt
<1> HIDE DEF a, b
<1>5. /\ Len(a \o b) = Len(a) + Len(b)
      /\ \A j \in 1..Len(a) + Len(b) :
           (a \o b)[j] = IF j <= Len(a) THEN a[j] ELSE b[j - Len(a)]
  BY <1>2, <1>3, ConcatProperties
<1>6. Len(a) + Len(b) = Len(s) - 1
  BY <1>1, <1>2, <1>3
<1>7. ASSUME NEW j \in 1..Len(s) - 1
      PROVE  (a \o b)[j] = IF j < i THEN s[j] ELSE s[j + 1]
  <2>1. (a \o b)[j] = IF j <= Len(a) THEN a[j] ELSE b[j - Len(a)]
    BY <1>5, <1>6
  <2>2. CASE j < i
    BY <1>1, <1>2, <2>1, <2>2
  <2>3. CASE ~(j < i)
    <3>1. j - (i - 1) \in 1..Len(s) - i
      BY <1>1, <2>3
    <3>2. (a \o b)[j] = b[j - (i - 1)] /\ i + (j - (i - 1)) = j + 1
      BY <1>1, <1>2, <2>1, <2>3
    <3> QED BY <1>3, <2>3, <3>1, <3>2
  <2> QED BY <2>2, <2>3
<1> QED BY <1>4, <1>5, <1>6, <1>7

LEMMA TailIsRemove ==
  ASSUME NEW s \in Seq(Guards), s # <<>> PROVE Tail(s) = RemoveAt(s, 1) /\ 1 \in 1..Len(s)
<1>1. SubSeq(s, 1, 1 - 1) = <<>> /\ Len(s) \in Nat /\ Len(s) > 0
  OBVIOUS
<1>2. SubSeq(s, 1 + 1, Len(s)) = Tail(s) /\ Tail(s) \in Seq(Guards)
  BY <1>1
<1>3. <<>> \o Tail(s) = Tail(s)
  BY <1>2
<1> QED BY <1>1, <1>2, <1>3 DEF RemoveAt

(* A line in which every call waits for the mutex, or at the head has it,  *)
(* and comes once.                                                         *)
LineOK(s, m) ==
  \A i \in 1..Len(s) :
    /\ mutex[s[i]] = m /\ step[s[i]] \in {"waiting", "holding"}
    /\ step[s[i]] = "holding" => i = 1
    /\ \A j \in 1..Len(s) : s[j] = s[i] => j = i

LineInv == IInv /\ LinesOK /\ abandoned \subseteq Keys

(* A call leaves its line from wherever it stands; no one behind it has    *)
(* the mutex.                                                              *)
LEMMA LeavesLine ==
  ASSUME NEW s \in Seq(Guards), NEW m \in Mutexes, LineOK(s, m), NEW i \in 1..Len(s),
         NEW g \in Guards, s[i] = g, mutex' = mutex, \A h \in Guards \ {g} : step'[h] = step[h]
  PROVE  /\ \A j \in 1..Len(RemoveAt(s, i)) :
              LET h == RemoveAt(s, i)[j]
              IN  /\ h \in Guards /\ mutex'[h] = m /\ step'[h] \in {"waiting", "holding"}
                  /\ step'[h] = "holding" => j = 1
                  /\ \A n \in 1..Len(RemoveAt(s, i)) : RemoveAt(s, i)[n] = h => n = j
<1>1. /\ Len(RemoveAt(s, i)) = Len(s) - 1 /\ Len(s) \in Nat
      /\ \A j \in 1..Len(s) - 1 : RemoveAt(s, i)[j] = IF j < i THEN s[j] ELSE s[j + 1]
  BY RemoveElements
<1> SUFFICES ASSUME NEW j \in 1..Len(s) - 1
             PROVE  /\ RemoveAt(s, i)[j] \in Guards /\ mutex'[RemoveAt(s, i)[j]] = m
                    /\ step'[RemoveAt(s, i)[j]] \in {"waiting", "holding"}
                    /\ step'[RemoveAt(s, i)[j]] = "holding" => j = 1
                    /\ \A n \in 1..Len(s) - 1 : RemoveAt(s, i)[n] = RemoveAt(s, i)[j] => n = j
  BY <1>1
<1>2. PICK o \in 1..Len(s) : o = (IF j < i THEN j ELSE j + 1) /\ RemoveAt(s, i)[j] = s[o] /\ o # i
  BY <1>1
<1>3. /\ mutex[s[o]] = m /\ step[s[o]] \in {"waiting", "holding"}
      /\ step[s[o]] = "holding" => o = 1
      /\ \A p \in 1..Len(s) : s[p] = s[o] => p = o
  BY DEF LineOK
<1>4. s[o] \in Guards /\ s[o] # g
  BY <1>2, <1>3
<1>5. step'[s[o]] = step[s[o]]
  BY <1>4
<1>6. o = 1 => j = 1
  BY <1>2
<1>7. \A n \in 1..Len(s) - 1 : RemoveAt(s, i)[n] = s[o] => n = j
  <2> SUFFICES ASSUME NEW n \in 1..Len(s) - 1, RemoveAt(s, i)[n] = s[o] PROVE n = j
    OBVIOUS
  <2>1. PICK p \in 1..Len(s) : p = (IF n < i THEN n ELSE n + 1) /\ RemoveAt(s, i)[n] = s[p]
    BY <1>1
  <2>2. p = o
    BY <2>1, <1>3
  <2> QED BY <2>1, <2>2, <1>2
<1> QED BY <1>2, <1>3, <1>4, <1>5, <1>6, <1>7

LEMMA LineInvStep == LineInv /\ [Next]_vars => LineInv'
<1> SUFFICES ASSUME LineInv, [Next]_vars PROVE LineInv'
  OBVIOUS
<1>0. /\ IInv /\ Types /\ EntryInService /\ LinesOK /\ abandoned \subseteq Keys
      /\ IInv' /\ Types' /\ EntryInService'
  BY IInvStep DEF LineInv, IInv
<1>a. \A m \in Mutexes : line[m] \in Seq(Guards) /\ Len(line[m]) \in Nat /\ LineOK(line[m], m)
  BY <1>0 DEF Types, LinesOK, LineOK
<1>b. \A m \in Mutexes : \A i \in 1..Len(line[m]) : line[m][i] \in Guards
  BY <1>a
<1>1. ASSUME NEW g \in Guards, step[g] \notin {"waiting", "holding"}, UNCHANGED line,
             \A h \in Guards \ {g} : step'[h] = step[h] /\ mutex'[h] = mutex[h]
      PROVE  LinesOK'
  <2>1. \A m \in Mutexes : \A i \in 1..Len(line[m]) : line[m][i] # g
    BY <1>a, <1>1 DEF LineOK
  <2> QED BY <2>1, <1>1, <1>a, <1>b DEF LinesOK, LineOK
<1>2. ASSUME NEW g \in Guards, NEW k \in Keys, Lookup(g, k) PROVE LineInv'
  <2>1. /\ step[g] \notin {"waiting", "holding"} /\ UNCHANGED line
        /\ \A h \in Guards \ {g} : step'[h] = step[h] /\ mutex'[h] = mutex[h]
    BY <1>0, <1>2 DEF Lookup, Types
  <2>2. abandoned' \subseteq Keys
    BY <1>0, <1>2 DEF Lookup
  <2> QED BY <2>1, <2>2, <1>0, <1>1 DEF LineInv
<1>3. ASSUME NEW g \in Guards, Enqueue(g) PROVE LineInv'
  <2>1. /\ step[g] = "cloned" /\ step' = [step EXCEPT ![g] = "waiting"]
        /\ line' = [line EXCEPT ![mutex[g]] = Append(@, g)] /\ UNCHANGED <<mutex, abandoned>>
    BY <1>3 DEF Enqueue
  <2>2. mutex[g] \in Mutexes
    BY <1>0, <2>1, MutexesAssumption DEF EntryInService, Types, Mutexes, Referring
  <2>3. \A m \in Mutexes : \A i \in 1..Len(line[m]) : line[m][i] # g
    BY <1>a, <2>1 DEF LineOK
  <2>4. \A h \in Guards : h # g => step'[h] = step[h]
    BY <1>0, <2>1 DEF Types
  <2>5. step'[g] = "waiting"
    BY <1>0, <2>1 DEF Types
  <2>6. ASSUME NEW m \in Mutexes PROVE LineOK(line[m], m)'
    <3>1. CASE m # mutex[g]
      <4>1. line'[m] = line[m]
        BY <3>1, <2>1, <1>0 DEF Types
      <4> QED BY <4>1, <1>a, <1>b, <2>1, <2>3, <2>4 DEF LineOK
    <3>2. CASE m = mutex[g]
      <4>1. line'[m] = Append(line[m], g)
        BY <3>2, <2>1, <2>2, <1>0 DEF Types
      <4>2. /\ Len(line'[m]) = Len(line[m]) + 1 /\ line'[m][Len(line[m]) + 1] = g
            /\ \A i \in 1..Len(line[m]) : line'[m][i] = line[m][i]
        BY <4>1, <1>a
      <4>3. ASSUME NEW i \in 1..Len(line[m])
            PROVE  /\ mutex'[line'[m][i]] = m /\ step'[line'[m][i]] \in {"waiting", "holding"}
                   /\ step'[line'[m][i]] = "holding" => i = 1
                   /\ \A j \in 1..Len(line[m]) + 1 : line'[m][j] = line'[m][i] => j = i
        BY <4>2, <1>a, <1>b, <2>1, <2>3, <2>4 DEF LineOK
      <4>4. \A j \in 1..Len(line[m]) + 1 : line'[m][j] = g => j = Len(line[m]) + 1
        BY <4>2, <1>a, <2>3
      <4> QED BY <4>2, <4>3, <4>4, <3>2, <1>a, <2>1, <2>5 DEF LineOK
    <3> QED BY <3>1, <3>2
  <2> QED BY <2>1, <2>6, <1>0 DEF LineInv, LinesOK, LineOK
<1>4. ASSUME NEW g \in Guards, Acquire(g) PROVE LineInv'
  <2>1. /\ step' = [step EXCEPT ![g] = "holding"] /\ UNCHANGED <<line, mutex, abandoned>>
        /\ step[g] = "waiting" /\ line[mutex[g]] # <<>> /\ Head(line[mutex[g]]) = g
    BY <1>4 DEF Acquire
  <2>2. mutex[g] \in Mutexes
    BY <1>0, <2>1, MutexesAssumption DEF EntryInService, Types, Mutexes, Referring
  <2>3. 1 \in 1..Len(line[mutex[g]]) /\ line[mutex[g]][1] = g
    BY <2>1, <2>2, <1>a
  <2>4. \A m \in Mutexes : \A i \in 1..Len(line[m]) : line[m][i] = g => i = 1
    BY <2>2, <2>3, <1>a DEF LineOK
  <2>5. \A h \in Guards : step'[h] = IF h = g THEN "holding" ELSE step[h]
    BY <1>0, <2>1 DEF Types
  <2>6. LinesOK'
    BY <2>1, <2>4, <2>5, <1>a, <1>b DEF LinesOK, LineOK
  <2> QED BY <2>1, <2>6, <1>0 DEF LineInv
<1>5. ASSUME NEW g \in Guards, NEW i \in 1..Len(line[mutex[g]]),
             step[g] \in {"waiting", "holding"}, line[mutex[g]][i] = g,
             line' = [line EXCEPT ![mutex[g]] = RemoveAt(@, i)],
             UNCHANGED mutex, \A h \in Guards \ {g} : step'[h] = step[h]
      PROVE  LinesOK'
  <2>1. mutex[g] \in Mutexes
    BY <1>0, <1>5, MutexesAssumption DEF EntryInService, Types, Mutexes, Referring
  <2>2. ASSUME NEW m \in Mutexes PROVE LineOK(line[m], m)'
    <3>1. CASE m # mutex[g]
      <4>1. line'[m] = line[m]
        BY <3>1, <1>5, <1>0 DEF Types
      <4>2. \A n \in 1..Len(line[m]) : line[m][n] # g
        BY <3>1, <1>a DEF LineOK
      <4> QED BY <4>1, <4>2, <1>a, <1>b, <1>5 DEF LineOK
    <3>2. CASE m = mutex[g]
      <4>1. line'[m] = RemoveAt(line[m], i)
        BY <3>2, <1>5, <2>1, <1>0 DEF Types
      <4>2. line[m] \in Seq(Guards) /\ LineOK(line[m], m) /\ i \in 1..Len(line[m]) /\ line[m][i] = g
        BY <3>2, <1>a, <1>5
      <4>3. \A j \in 1..Len(line'[m]) :
              /\ mutex'[line'[m][j]] = m /\ step'[line'[m][j]] \in {"waiting", "holding"}
              /\ step'[line'[m][j]] = "holding" => j = 1
              /\ \A n \in 1..Len(line'[m]) : line'[m][n] = line'[m][j] => n = j
        <5> DEFINE rest == RemoveAt(line[m], i)
        <5>1. \A j \in 1..Len(rest) :
                /\ mutex'[rest[j]] = m /\ step'[rest[j]] \in {"waiting", "holding"}
                /\ step'[rest[j]] = "holding" => j = 1
                /\ \A n \in 1..Len(rest) : rest[n] = rest[j] => n = j
          BY <4>2, <1>5, LeavesLine
        <5> QED BY <4>1, <5>1, Zenon
      <4> QED BY <4>3 DEF LineOK
    <3> QED BY <3>1, <3>2
  <2> QED BY <2>2 DEF LinesOK, LineOK
<1>6. ASSUME NEW g \in Guards, Cancel(g) PROVE LineInv'
  <2>1. /\ step[g] = "waiting" /\ UNCHANGED mutex /\ \A h \in Guards \ {g} : step'[h] = step[h]
    BY <1>0, <1>6 DEF Cancel, Types
  <2>2. PICK i \in 1..Len(line[mutex[g]]) :
          line[mutex[g]][i] = g /\ line' = [line EXCEPT ![mutex[g]] = RemoveAt(@, i)]
    BY <1>6 DEF Cancel
  <2>3. LinesOK'
    BY <2>1, <2>2, <1>5
  <2>4. abandoned' \subseteq Keys
    BY <1>0, <1>6 DEF Cancel, Types
  <2> QED BY <2>3, <2>4, <1>0 DEF LineInv
<1>7. ASSUME NEW g \in Guards, Unlock(g) PROVE LineInv'
  <2>1. /\ step[g] = "holding" /\ UNCHANGED <<mutex, abandoned>>
        /\ \A h \in Guards \ {g} : step'[h] = step[h]
        /\ line' = [line EXCEPT ![mutex[g]] = Tail(@)]
    BY <1>0, <1>7 DEF Unlock, Types
  <2>2. mutex[g] \in Mutexes
    BY <1>0, <2>1, MutexesAssumption DEF EntryInService, Types, Mutexes, Referring
  <2>3. line[mutex[g]] # <<>> /\ line[mutex[g]][1] = g /\ line[mutex[g]] \in Seq(Guards)
    BY <1>0, <2>1, <2>2 DEF IInv, HoldersFirst, Types
  <2>4. Tail(line[mutex[g]]) = RemoveAt(line[mutex[g]], 1) /\ 1 \in 1..Len(line[mutex[g]])
    BY <2>3, TailIsRemove
  <2>5. line' = [line EXCEPT ![mutex[g]] = RemoveAt(@, 1)]
    BY <2>1, <2>4
  <2>6. LinesOK'
    BY <2>1, <2>3, <2>4, <2>5, <1>5
  <2> QED BY <2>1, <2>6, <1>0 DEF LineInv
<1>8. ASSUME NEW g \in Guards, Tidy(g) PROVE LineInv'
  <2>1. /\ step[g] \notin {"waiting", "holding"} /\ UNCHANGED <<line, abandoned>>
        /\ \A h \in Guards \ {g} : step'[h] = step[h] /\ mutex'[h] = mutex[h]
    BY <1>0, <1>8 DEF Tidy, Types
  <2> QED BY <2>1, <1>0, <1>1 DEF LineInv
<1>9. CASE UNCHANGED vars
  BY <1>0, <1>9 DEF vars, LineInv, LinesOK
<1> QED BY <1>2, <1>3, <1>4, <1>6, <1>7, <1>8, <1>9 DEF Next

(* Types of the locks: the lines are made of the calls that wait for the   *)
(* mutex or, at the head, have it, each of them once; for any calls, keys  *)
(* and mutexes.                                                            *)
THEOREM LocksTyped == Spec => []TypeOK
<1>1. Init => LineInv
  <2> SUFFICES ASSUME Init PROVE LineInv
    OBVIOUS
  <2>1. IInv
    BY MutexesAssumption DEF Init, IInv, Types, HoldersFirst, EntryInService, Mutexes, Referring
  <2>2. LinesOK /\ abandoned \subseteq Keys
    BY DEF Init, LinesOK
  <2> QED BY <2>1, <2>2 DEF LineInv
<1>2. LineInv => TypeOK
  BY DEF LineInv, IInv, Types, TypeOK
<1> QED BY <1>1, <1>2, LineInvStep, PTL DEF Spec

-------------------------------------------------------------------------------
(* The roster. *)

(* Where the memory stands while a change is under way.                    *)
MemoryFollows ==
  /\ phase = "idle" => memory = answered
  /\ phase = "writing" => memory = proposed /\ snapshot = answered
  /\ phase = "undoing" => memory = answered /\ snapshot = answered /\ next <= stop

RosterInv == RosterTypeOK /\ MemoryFollows /\ Durable

LEMMA RosterStarts == RosterInit => RosterInv
  BY RosterAssumption DEF RosterInit, RosterInv, RosterTypeOK, MemoryFollows, Durable, Fresh,
     RosterFiles, Count, Numbers

(* Types, by action. *)
LEMMA RosterKeepsTypes ==
  ASSUME RosterTypeOK, [RosterNext]_rosterVars PROVE RosterTypeOK'
<1> USE RosterAssumption DEF RosterTypeOK, RosterFiles, Count, Numbers
<1>1. ASSUME NEW touched \in Touches, Change(touched) PROVE RosterTypeOK'
  BY <1>1 DEF Change
<1>2. CASE WriteFile
  BY <1>2 DEF WriteFile
<1>3. CASE WriteFails
  BY <1>3 DEF WriteFails
<1>4. CASE WriteBack
  BY <1>4 DEF WriteBack
<1>5. CASE WriteBackFails
  BY <1>5 DEF WriteBackFails
<1>6. CASE Answer
  BY <1>6 DEF Answer
<1>7. CASE Refuse
  BY <1>7 DEF Refuse
<1>8. CASE RestartServer
  BY <1>8 DEF RestartServer
<1>9. CASE UNCHANGED rosterVars
  BY <1>9 DEF rosterVars
<1> QED BY <1>1, <1>2, <1>3, <1>4, <1>5, <1>6, <1>7, <1>8, <1>9 DEF RosterNext

(* What memory, files and history say of each other. *)
LEMMA RosterKeepsTrack ==
  ASSUME RosterInv, [RosterNext]_rosterVars PROVE MemoryFollows' /\ Durable'
<1> USE DEF RosterInv, MemoryFollows, Durable, RosterTypeOK, RosterFiles, Count
<1>1. ASSUME NEW touched \in Touches, Change(touched) PROVE MemoryFollows' /\ Durable'
  BY <1>1 DEF Change
<1>2. CASE WriteFile
  BY <1>2 DEF WriteFile
<1>3. CASE WriteFails
  BY <1>3 DEF WriteFails
<1>4. CASE WriteBack
  BY <1>4 DEF WriteBack
<1>5. CASE WriteBackFails
  BY <1>5 DEF WriteBackFails
<1>6. CASE Answer
  BY <1>6 DEF Answer
<1>7. CASE Refuse
  BY <1>7 DEF Refuse
<1>8. CASE RestartServer
  BY <1>8 DEF RestartServer
<1>9. CASE UNCHANGED rosterVars
  BY <1>9 DEF rosterVars
<1> QED BY <1>1, <1>2, <1>3, <1>4, <1>5, <1>6, <1>7, <1>8, <1>9 DEF RosterNext

(* The inductive invariant of RosterStore holds (mutate() and open(),      *)
(* state.rs).                                                              *)
THEOREM RosterTracked == RosterSpec => []RosterInv
<1>1. RosterInv /\ [RosterNext]_rosterVars => RosterInv'
  BY RosterKeepsTypes, RosterKeepsTrack DEF RosterInv
<1> QED BY RosterStarts, <1>1, PTL DEF RosterSpec

(* Whatever writes fail and whenever the server stops, a file that did not *)
(* fail to be written back holds what was answered for, or a part of the   *)
(* one change under way (state.rs:298-328).                                *)
THEOREM AnswersAreDurable == RosterSpec => []Durable
  BY RosterTracked, PTL DEF RosterInv

(* A refused change leaves memory as it was, and between changes disk and  *)
(* memory differ only in files whose write-back failed.                    *)
THEOREM DriftIsConfined == RosterSpec => []DriftConfined
<1>1. RosterInv => DriftConfined
  BY DEF RosterInv, MemoryFollows, Durable, DriftConfined
<1> QED BY RosterTracked, <1>1, PTL

-------------------------------------------------------------------------------
(* The locks of the content store. *)

(* As much of the types as the locks depend on.                            *)
ContentShape ==
  /\ file = [p \in Files |-> file[p]]
  /\ at = [r \in Requests |-> at[r]]
  /\ ask = [r \in Requests |-> ask[r]]
  /\ pathLock = [p \in Paths |-> pathLock[p]]
  /\ about = [r \in Requests |-> about[r]]
  /\ base = [r \in Requests |-> base[r]]
  /\ arrived \in Nat
  /\ \A r \in Requests : r > arrived => at[r] = "new"
  /\ \A r \in Requests : at[r] \notin {"new", "done"} => ask[r] \in Asks

(* The handlers that change files, but for writes, and until they are done *)
(* with it.                                                                *)
Structural(r) ==
  \/ at[r] \in {"count", "second", "list", "remap", "move", "removeEmpty", "removeAll"}
  \/ at[r] \in {"path", "locked", "land"} /\ ask[r].op # "write"

(* The paths whose locks a handler has.                                    *)
Held(r) ==
  {p \in Paths : \/ at[r] \in {"locked", "second", "land"} /\ p = FirstPath(r)
                 \/ (Does(r, "rename", "locked") \/ Does(r, "patch", "land")) /\ p = SecondPath(r)}

Guarded ==
  \A r \in Requests : /\ Structural(r) => structureLock = r
                      /\ \A p \in Held(r) : pathLock[p] = r
                      /\ at[r] = "second" => ask[r].op # "write"

Patching(r) == Does(r, "patch", "second") \/ Does(r, "patch", "land")

PatchInv ==
  ContentShape /\ Guarded /\ PatchFresh /\ \A r \in Requests : Patching(r) => base[r] # None

LEMMA PatchStarts == ContentInit => PatchInv
<1> SUFFICES ASSUME ContentInit PROVE PatchInv
  OBVIOUS
<1>1. \A r \in Requests : at[r] = "new"
  BY DEF ContentInit
<1>2. ContentShape
  BY <1>1 DEF ContentInit, ContentShape
<1>3. Guarded /\ PatchFresh /\ \A r \in Requests : ~Patching(r)
  BY <1>1 DEF Guarded, Structural, Held, Patching, PatchFresh, Does
<1> QED BY <1>2, <1>3 DEF PatchInv

(* Where writes and patches are.                                           *)
LEMMA AskedPaths ==
  ASSUME ContentShape, NEW r \in Requests, at[r] \notin {"new", "done"}, ask[r].op \in {"write", "patch"}
  PROVE  /\ ask[r].from \in Files /\ ask[r].from \in Paths
         /\ FirstPath(r) = ask[r].from
         /\ ask[r].to \in Files /\ ask[r].to \in Paths
         /\ SecondPath(r) = ask[r].to
  BY ContentAssumption DEF ContentShape, Paths, FirstPath, SecondPath

(* A handler whose place and request stay has the same locks.              *)
LEMMA SameHeld ==
  ASSUME NEW q \in Requests, at'[q] = at[q], ask'[q] = ask[q]
  PROVE  Held(q)' = Held(q) /\ Structural(q)' = Structural(q)
<1>1. FirstPath(q)' = FirstPath(q)
  BY DEF FirstPath
<1>2. SecondPath(q)' = SecondPath(q)
  BY <1>1 DEF SecondPath
<1> QED BY <1>1, <1>2 DEF Held, Structural, Does

(* An arriving request holds nothing yet, and changes no file.             *)
LEMMA ArriveKeeps ==
  ASSUME PatchInv, NEW r \in Requests, NEW a \in Asks, Arrive(r, a)
  PROVE  PatchInv'
<1>1. /\ UNCHANGED <<file, structureLock, pathLock, base>>
      /\ \A q \in Requests \ {r} : at'[q] = at[q] /\ ask'[q] = ask[q] /\ about'[q] = about[q]
  BY DEF Arrive, ArriveWrite, ArriveRename, ArriveStructural, ArriveRecord, CreateFolder, Begin, lockVars,
     PatchInv, ContentShape
<1>2. at'[r] \in {"path", "structure", "record", "done"} /\ (at'[r] = "path" => ask'[r].op = "write")
  BY DEF Arrive, ArriveWrite, ArriveRename, ArriveStructural, ArriveRecord, CreateFolder, Begin,
     PatchInv, ContentShape
<1>3. ContentShape'
  <2>1. r = arrived + 1 /\ arrived' = r /\ ask'[r] = a
    BY DEF Arrive, ArriveWrite, ArriveRename, ArriveStructural, ArriveRecord, CreateFolder, Begin,
       PatchInv, ContentShape
  <2>2. /\ at' = [q \in Requests |-> at'[q]] /\ ask' = [q \in Requests |-> ask'[q]]
        /\ about' = [q \in Requests |-> about'[q]]
    BY DEF Arrive, ArriveWrite, ArriveRename, ArriveStructural, ArriveRecord, CreateFolder, Begin,
       PatchInv, ContentShape
  <2>3. \A q \in Requests \ {r} : q > arrived' => q > arrived
    BY <2>1, ContentAssumption DEF PatchInv, ContentShape, Requests
  <2>4. arrived' \in Nat /\ ~(r > arrived')
    BY <2>1, ContentAssumption DEF PatchInv, ContentShape, Requests
  <2> QED BY <1>1, <2>1, <2>2, <2>3, <2>4 DEF PatchInv, ContentShape
<1>4. ~Structural(r)' /\ Held(r)' = {} /\ ~Patching(r)'
  BY <1>2 DEF Structural, Held, Does, Patching
<1>5. Guarded'
  BY <1>1, <1>2, <1>4, SameHeld DEF PatchInv, Guarded
<1> QED BY <1>1, <1>3, <1>4, <1>5 DEF PatchInv, PatchFresh, Patching, Does

(* What a handler leaves behind when it returns.                           *)
LEMMA ReturnKeeps ==
  ASSUME PatchInv, NEW r \in Requests, at[r] # "new", Return(r), file' = [p \in Files |-> file'[p]],
         \A q \in Requests \ {r} : Patching(q) => file'[ask[q].from] = file[ask[q].from]
  PROVE  PatchInv'
<1>1. ContentShape'
  BY DEF Return, Unlocked, PatchInv, ContentShape
<1>2. /\ at'[r] = "done"
      /\ \A q \in Requests \ {r} : at'[q] = at[q] /\ ask'[q] = ask[q] /\ about'[q] = about[q] /\ base'[q] = base[q]
  BY DEF Return, PatchInv, ContentShape
<1>3. \A q \in Requests \ {r} : structureLock = q => structureLock' = q
  BY DEF Return
<1>4. \A q \in Requests \ {r}, p \in Paths : pathLock[p] = q => pathLock'[p] = q
  BY DEF Return, Unlocked, PatchInv, ContentShape
<1>5. Guarded'
  <2>1. ~Structural(r)' /\ Held(r)' = {} /\ at'[r] # "second"
    BY <1>2 DEF Structural, Held, Does
  <2>2. ASSUME NEW q \in Requests \ {r}
        PROVE  /\ Structural(q)' => structureLock' = q
               /\ \A p \in Held(q)' : pathLock'[p] = q
               /\ at'[q] = "second" => ask'[q].op # "write"
    <3>1. Held(q)' = Held(q) /\ Structural(q)' = Structural(q)
      BY <1>2, SameHeld
    <3>2. Held(q) \subseteq Paths
      BY DEF Held
    <3> QED BY <1>2, <1>3, <1>4, <3>1, <3>2 DEF PatchInv, Guarded
  <2> QED BY <2>1, <2>2 DEF Guarded
<1>6. PatchFresh' /\ \A q \in Requests : Patching(q)' => base'[q] # None
  BY <1>2 DEF PatchInv, PatchFresh, Patching, Does
<1> QED BY <1>1, <1>5, <1>6 DEF PatchInv

(* A handler that goes on without changing a file or letting go of a lock. *)
LEMMA GoOn ==
  ASSUME PatchInv, NEW r \in Requests, ContentShape', ask' = ask, about' = about, base' = base, file' = file,
         \A q \in Requests \ {r} : at'[q] = at[q],
         \A q \in Requests : structureLock = q => structureLock' = q,
         \A q \in Requests, p \in Paths : pathLock[p] = q => pathLock'[p] = q,
         Structural(r)' => structureLock' = r,
         \A p \in Held(r)' : pathLock'[p] = r,
         at'[r] = "second" => ask[r].op # "write",
         Patching(r)' => Patching(r)
  PROVE  PatchInv'
<1>1. Guarded'
  <2>1. ASSUME NEW q \in Requests \ {r}
        PROVE  /\ Structural(q)' => structureLock' = q
               /\ \A p \in Held(q)' : pathLock'[p] = q
               /\ at'[q] = "second" => ask'[q].op # "write"
    <3>1. Held(q)' = Held(q) /\ Structural(q)' = Structural(q)
      BY SameHeld
    <3>2. Held(q) \subseteq Paths
      BY DEF Held
    <3> QED BY <3>1, <3>2 DEF PatchInv, Guarded
  <2> QED BY <2>1 DEF Guarded
<1>2. \A q \in Requests : Patching(q)' => Patching(q)
  BY DEF Patching, Does
<1>3. PatchFresh' /\ \A q \in Requests : Patching(q)' => base'[q] # None
  BY <1>2 DEF PatchInv, PatchFresh, Patching, Does
<1> QED BY <1>1, <1>3 DEF PatchInv

(* Taking locks. *)
LEMMA LockSteps ==
  ASSUME PatchInv, NEW r \in Requests, GetStructure(r) \/ GetPath(r) \/ GetSecond(r)
  PROVE  PatchInv'
<1> USE ContentAssumption DEF PatchInv, ContentShape, Requests
<1>1. CASE GetStructure(r)
  <2>1. ContentShape' /\ structureLock' = r /\ at'[r] \in {"count", "path"}
    BY <1>1 DEF GetStructure, handlerVars
  <2>2. Held(r)' = {} /\ ~Patching(r)' /\ \A q \in Requests \ {r} : at'[q] = at[q]
    BY <1>1, <2>1 DEF GetStructure, Held, Patching, Does
  <2>3. \A q \in Requests : structureLock = q => structureLock' = q
    BY <1>1 DEF GetStructure
  <2> QED BY <1>1, <2>1, <2>2, <2>3, GoOn DEF GetStructure, handlerVars
<1>2. ASSUME NEW p, NEW where \in {"second", "locked", "land"}, Lock(r, p, where), at[r] \notin {"new", "done"},
             Structural(r)' => structureLock = r,
             \A x \in Held(r)' : x = p \/ x \in Held(r),
             where = "second" => ask[r].op # "write",
             Patching(r)' => Patching(r)
      PROVE  PatchInv'
  <2>1. /\ ContentShape'
        /\ at'[r] = where
        /\ UNCHANGED <<file, ask, about, base, structureLock>>
        /\ \A q \in Requests \ {r} : at'[q] = at[q]
    BY <1>2 DEF Lock, handlerVars
  <2>2. \A q \in Requests, x \in Paths : pathLock[x] = q => pathLock'[x] = q
    BY <1>2 DEF Lock
  <2>3. Held(r)' \subseteq Paths
    BY DEF Held
  <2>4. \A x \in Held(r)' : pathLock'[x] = r
    <3> SUFFICES ASSUME NEW x \in Held(r)' PROVE pathLock'[x] = r
      OBVIOUS
    <3>1. x \in Paths
      BY <2>3
    <3>2. CASE x = p
      BY <1>2, <3>1, <3>2 DEF Lock
    <3>3. CASE x \in Held(r)
      BY <2>2, <3>1, <3>3 DEF Guarded
    <3> QED BY <1>2, <3>2, <3>3
  <2> QED BY <1>2, <2>1, <2>2, <2>4, GoOn
<1>3. CASE GetPath(r)
  <2>1. at[r] = "path" /\ Lock(r, FirstPath(r), IF ask[r].op = "rename" THEN "second" ELSE "locked")
    BY <1>3 DEF GetPath
  <2>2. ask' = ask /\ at'[r] = IF ask[r].op = "rename" THEN "second" ELSE "locked"
    BY <2>1 DEF Lock, handlerVars
  <2>3. Structural(r)' => structureLock = r
    BY <2>1, <2>2 DEF Structural, Guarded
  <2>4. FirstPath(r)' = FirstPath(r)
    BY <2>2 DEF FirstPath
  <2>5. \A x \in Held(r)' : x = FirstPath(r)
    BY <2>2, <2>4 DEF Held, Does
  <2>6. ~Patching(r)'
    BY <2>2 DEF Patching, Does
  <2> QED BY <1>2, <2>1, <2>3, <2>5, <2>6
<1>4. CASE GetSecond(r)
  <2>1. at[r] = "second" /\ Lock(r, SecondPath(r), IF ask[r].op = "rename" THEN "locked" ELSE "land")
    BY <1>4 DEF GetSecond
  <2>2. ask' = ask /\ at'[r] = IF ask[r].op = "rename" THEN "locked" ELSE "land"
    BY <2>1 DEF Lock, handlerVars
  <2>3. structureLock = r
    BY <2>1 DEF Structural, Guarded
  <2>4. FirstPath(r)' = FirstPath(r) /\ SecondPath(r)' = SecondPath(r)
    BY <2>2 DEF FirstPath, SecondPath
  <2>5. \A x \in Held(r)' : x = SecondPath(r) \/ x \in Held(r)
    BY <2>1, <2>4 DEF Held
  <2>6. Patching(r)' => Patching(r)
    BY <2>1, <2>2 DEF Patching, Does
  <2> QED BY <1>2, <2>1, <2>3, <2>5, <2>6
<1> QED BY <1>1, <1>3, <1>4

(* Handlers that hold the structure lock find no patch between its reading *)
(* and its writing.                                                        *)
LEMMA StructuralAlone ==
  ASSUME PatchInv, NEW r \in Requests, Structural(r), NEW q \in Requests \ {r}
  PROVE  ~Patching(q)
  BY DEF PatchInv, Guarded, Structural, Patching, Does

LEMMA StructuralSteps ==
  ASSUME PatchInv, NEW r \in Requests,
         \/ Rename(r) \/ ListSides(r) \/ EndRename(r)
         \/ \E p \in Files : CheckMove(r, p) \/ MoveSide(r, p)
         \/ Copy(r) \/ DeleteFile(r) \/ RemoveFolder(r)
         \/ \E force \in BOOLEAN : CountFolder(r, force)
  PROVE  PatchInv'
<1>1. Structural(r)
  BY DEF Rename, ListSides, EndRename, CheckMove, MoveSide, Copy, DeleteFile, RemoveFolder, CountFolder,
     Does, Structural
<1>2. \A q \in Requests \ {r} : ~Patching(q)
  BY <1>1, StructuralAlone
<1>3. structureLock = r /\ at[r] \notin {"new", "done"}
  BY <1>1 DEF PatchInv, Guarded, Structural
<1>4. ASSUME file' = [p \in Files |-> file'[p]], Return(r) PROVE PatchInv'
  BY <1>2, <1>3, <1>4, ReturnKeeps
<1>5. ASSUME UNCHANGED <<file, ask, about, base, structureLock, pathLock, arrived>>,
             NEW where \in {"remap", "move", "removeEmpty", "removeAll"},
             at' = [at EXCEPT ![r] = where] \/ (at' = at /\ at[r] = "remap")
      PROVE  PatchInv'
  <2>1. ContentShape' /\ \A q \in Requests \ {r} : at'[q] = at[q]
    BY <1>3, <1>5 DEF PatchInv, ContentShape
  <2>2. at'[r] \in {"remap", "move", "removeEmpty", "removeAll"}
    BY <1>5 DEF PatchInv, ContentShape
  <2>3. Held(r)' = {} /\ ~Patching(r)'
    BY <2>2 DEF Held, Patching, Does
  <2> QED BY <1>3, <1>5, <2>1, <2>2, <2>3, GoOn
<1>6. CASE Rename(r)
  <2>1. CASE Return(r) /\ file' = file
    BY <1>4, <2>1 DEF PatchInv, ContentShape
  <2>2. CASE /\ file' = FilesMoved(ask[r].from, ask[r].to)
             /\ at' = [at EXCEPT ![r] = "list"]
             /\ pathLock' = Unlocked(pathLock, r)
             /\ UNCHANGED <<arrived, handlerVars, structureLock, sideLock>>
    <3>1. ContentShape'
      BY <1>3, <2>2 DEF PatchInv, ContentShape, FilesMoved, Unlocked, handlerVars
    <3>2. /\ at'[r] = "list" /\ ask' = ask /\ structureLock' = structureLock
          /\ \A q \in Requests \ {r} : at'[q] = at[q]
          /\ \A q \in Requests \ {r}, p \in Paths : pathLock[p] = q => pathLock'[p] = q
      BY <2>2 DEF PatchInv, ContentShape, Unlocked, handlerVars
    <3>3. Guarded'
      <4>1. (Structural(r)' => structureLock' = r) /\ Held(r)' = {} /\ at'[r] # "second"
        BY <1>3, <3>2 DEF Held, Does
      <4>2. ASSUME NEW q \in Requests \ {r}
            PROVE  /\ Structural(q)' => structureLock' = q
                   /\ \A p \in Held(q)' : pathLock'[p] = q
                   /\ at'[q] = "second" => ask'[q].op # "write"
        <5>1. Held(q)' = Held(q) /\ Structural(q)' = Structural(q)
          BY <3>2, SameHeld
        <5>2. Held(q) \subseteq Paths
          BY DEF Held
        <5> QED BY <3>2, <5>1, <5>2 DEF PatchInv, Guarded
      <4> QED BY <4>1, <4>2 DEF Guarded
    <3>4. \A q \in Requests : ~Patching(q)'
      BY <1>2, <3>2 DEF Patching, Does
    <3> QED BY <3>1, <3>3, <3>4 DEF PatchInv, PatchFresh, Patching
  <2> QED BY <1>6, <2>1, <2>2 DEF Rename
<1>7. CASE ListSides(r)
  BY <1>5, <1>7 DEF ListSides, lockVars
<1>8. CASE EndRename(r)
  BY <1>4, <1>8 DEF EndRename, PatchInv, ContentShape
<1>9. ASSUME NEW p \in Files, CheckMove(r, p) \/ MoveSide(r, p) PROVE PatchInv'
  BY <1>5, <1>9 DEF CheckMove, MoveSide
<1>10. CASE Copy(r)
  BY <1>4, <1>10 DEF Copy, PatchInv, ContentShape
<1>11. CASE DeleteFile(r)
  BY <1>4, <1>11 DEF DeleteFile, PatchInv, ContentShape
<1>12. CASE RemoveFolder(r)
  BY <1>4, <1>12 DEF RemoveFolder, PatchInv, ContentShape
<1>13. ASSUME NEW force \in BOOLEAN, CountFolder(r, force) PROVE PatchInv'
  <2>1. CASE Return(r)
    BY <1>4, <1>13, <2>1 DEF CountFolder, PatchInv, ContentShape
  <2>2. CASE ~Return(r)
    BY <1>5, <1>13, <2>2 DEF CountFolder, handlerVars, lockVars
  <2> QED BY <2>1, <2>2
<1> QED BY <1>6, <1>7, <1>8, <1>9, <1>10, <1>11, <1>12, <1>13

(* A write has the lock of its path, so no other does.                     *)
LEMMA WritePath ==
  ASSUME PatchInv, NEW w \in Requests, Does(w, "write", "locked") \/ Does(w, "write", "land")
  PROVE  /\ ask[w].from \in Files
         /\ pathLock[ask[w].from] = w
         /\ \A r \in Requests \ {w} : ask[w].from \notin Held(r)
<1>1. ask[w].from \in Held(w) /\ ask[w].from \in Files
  BY AskedPaths DEF PatchInv, Does, Held
<1> QED BY <1>1 DEF PatchInv, Guarded

LEMMA WriteSteps ==
  ASSUME PatchInv, NEW r \in Requests, CheckWrite(r) \/ LandWrite(r)
  PROVE  PatchInv'
<1>1. CASE CheckWrite(r)
  <2>1. CASE Return(r)
    BY <1>1, <2>1, ReturnKeeps DEF CheckWrite, Does, PatchInv, ContentShape
  <2>2. CASE at' = [at EXCEPT ![r] = "land"] /\ UNCHANGED <<arrived, handlerVars, lockVars>>
    <3>1. ContentShape' /\ at'[r] = "land" /\ \A q \in Requests \ {r} : at'[q] = at[q]
      BY <1>1, <2>2 DEF CheckWrite, Does, handlerVars, lockVars, PatchInv, ContentShape
    <3>2. ask[r].op = "write" /\ at[r] = "locked" /\ ask' = ask
      BY <1>1, <2>2 DEF CheckWrite, Does, handlerVars
    <3>3. ~Structural(r)' /\ ~Patching(r)'
      BY <3>1, <3>2 DEF Structural, Patching, Does
    <3>4. FirstPath(r)' = FirstPath(r)
      BY <3>2 DEF FirstPath
    <3>5. \A p \in Held(r)' : p \in Held(r)
      BY <3>1, <3>2, <3>4 DEF Held, Does
    <3>6. \A p \in Held(r)' : pathLock'[p] = r
      BY <2>2, <3>5 DEF PatchInv, Guarded, lockVars
    <3> QED BY <1>1, <2>2, <3>1, <3>2, <3>3, <3>6, GoOn DEF CheckWrite, handlerVars, lockVars
  <2> QED BY <1>1, <2>1, <2>2 DEF CheckWrite
<1>2. CASE LandWrite(r)
  <2>1. /\ ask[r].from \in Files /\ at[r] = "land"
        /\ \A q \in Requests \ {r} : ask[r].from \notin Held(q)
    BY <1>2, WritePath DEF LandWrite, Does
  <2>2. \A q \in Requests \ {r} : Patching(q) => ask[q].from # ask[r].from /\ ask[q].from \in Files
    BY <2>1, AskedPaths DEF Patching, Does, Held, PatchInv
  <2>3. file' = [p \in Files |-> file'[p]] /\ \A p \in Files : p # ask[r].from => file'[p] = file[p]
    BY <1>2 DEF LandWrite, PatchInv, ContentShape
  <2> QED BY <1>2, <2>1, <2>2, <2>3, ReturnKeeps DEF LandWrite
<1> QED BY <1>1, <1>2

(* A patch finds the document it is of, and no other is under way.         *)
LEMMA PatchSteps ==
  ASSUME PatchInv, NEW r \in Requests, ReadPatch(r) \/ LandPatch(r)
  PROVE  PatchInv'
<1>1. CASE ReadPatch(r)
  <2>1. CASE Return(r)
    BY <1>1, <2>1, ReturnKeeps DEF ReadPatch, Does, PatchInv, ContentShape
  <2>2. CASE ~Return(r)
    <3>1. /\ DocAt(ask[r].from) = about[r] /\ file[ask[r].from] # None
          /\ base' = [base EXCEPT ![r] = file[ask[r].from]]
          /\ at' = [at EXCEPT ![r] = IF ask[r].to = ask[r].from THEN "land" ELSE "second"]
          /\ UNCHANGED <<arrived, ask, about, got, todo, lockVars, file>>
      BY <1>1, <2>2 DEF ReadPatch
    <3>2. /\ at[r] = "locked" /\ ask[r].op = "patch"
          /\ ask[r].from \in Files /\ ask[r].from \in Paths
          /\ FirstPath(r) = ask[r].from /\ SecondPath(r) = ask[r].to
      BY <1>1, AskedPaths DEF ReadPatch, Does, PatchInv
    <3>3. ContentShape'
      BY <3>1, <3>2 DEF PatchInv, ContentShape, lockVars
    <3>4. /\ at'[r] = IF ask[r].to = ask[r].from THEN "land" ELSE "second"
          /\ \A q \in Requests \ {r} : at'[q] = at[q]
      BY <3>1 DEF PatchInv, ContentShape
    <3>5. Guarded'
      <4>1. FirstPath(r)' = FirstPath(r) /\ SecondPath(r)' = SecondPath(r)
        BY <3>1 DEF FirstPath, SecondPath
      <4>2. \A p \in Held(r)' : p \in Held(r)
        BY <3>2, <3>4, <4>1 DEF Held, Does
      <4>3. structureLock = r /\ structureLock' = r /\ pathLock' = pathLock /\ ask' = ask
        BY <3>1, <3>2 DEF lockVars, PatchInv, Guarded, Structural
      <4> QED BY <3>2, <3>4, <4>2, <4>3, SameHeld DEF PatchInv, Guarded
    <3>6. file[ask[r].from].doc = about[r]
      BY <3>1, <3>2 DEF DocAt, Exists, IsDir, Files
    <3>7. PatchFresh' /\ \A q \in Requests : Patching(q)' => base'[q] # None
      BY <3>1, <3>2, <3>4, <3>6 DEF PatchInv, ContentShape, PatchFresh, Patching, Does
    <3> QED BY <3>3, <3>5, <3>7 DEF PatchInv
  <2> QED BY <2>1, <2>2
<1>2. CASE LandPatch(r)
  <2>1. \A q \in Requests \ {r} : ~Patching(q)
    BY <1>2, StructuralAlone DEF LandPatch, Does, Structural
  <2>2. file' = [p \in Files |-> file'[p]]
    BY <1>2 DEF LandPatch, PatchInv, ContentShape
  <2> QED BY <1>2, <2>1, <2>2, ReturnKeeps DEF LandPatch, Does
<1> QED BY <1>1, <1>2

(* Recording versions concerns no file. *)
LEMMA RecordSteps ==
  ASSUME PatchInv, NEW r \in Requests,
         ReadVersions(r) \/ SkipVersion(r) \/ \E slide \in BOOLEAN : AppendVersion(r, slide)
  PROVE  PatchInv'
<1>1. CASE ReadVersions(r)
  <2>1. ContentShape' /\ at'[r] = "append" /\ \A q \in Requests \ {r} : at'[q] = at[q]
    BY <1>1 DEF ReadVersions, PatchInv, ContentShape
  <2>2. ~Structural(r)' /\ Held(r)' = {} /\ ~Patching(r)'
    BY <2>1 DEF Structural, Held, Patching, Does
  <2> QED BY <1>1, <2>1, <2>2, GoOn DEF ReadVersions
<1>2. CASE SkipVersion(r) \/ \E slide \in BOOLEAN : AppendVersion(r, slide)
  BY <1>2, ReturnKeeps DEF SkipVersion, AppendVersion, PatchInv, ContentShape
<1> QED BY <1>1, <1>2

(* A dropped handler gives its locks back and changes no file. *)
LEMMA DropKeepsPatches ==
  ASSUME PatchInv, NEW r \in Requests, Drop(r) PROVE PatchInv'
  BY ReturnKeeps DEF Drop, PatchInv, ContentShape

LEMMA PatchInvStep == PatchInv /\ [ContentNext]_contentVars => PatchInv'
<1> SUFFICES ASSUME PatchInv, [ContentNext]_contentVars PROVE PatchInv'
  OBVIOUS
<1>1. ASSUME NEW r \in Requests, Handle(r) PROVE PatchInv'
  BY <1>1, LockSteps, StructuralSteps, WriteSteps, PatchSteps, RecordSteps DEF Handle
<1>2. CASE UNCHANGED contentVars
  <2>1. UNCHANGED <<file, at, ask, pathLock, structureLock, about, base, arrived>>
    BY <1>2 DEF contentVars, handlerVars, lockVars
  <2>2. \A q \in Requests : Held(q)' = Held(q) /\ Structural(q)' = Structural(q)
    BY <2>1, SameHeld
  <2> QED BY <2>1, <2>2 DEF PatchInv, ContentShape, Guarded, PatchFresh, Patching, Does
<1> QED BY <1>1, <1>2, ArriveKeeps, DropKeepsPatches DEF ContentNext

(* A patch is written over what it was merged into, and that is the        *)
(* document it is of, for any requests at once (patch_entity(),            *)
(* patches.rs:448; write_file() and the structure lock, content.rs).       *)
THEOREM PatchesAreFresh == ContentSpec => []PatchFresh
<1>1. PatchInv => PatchFresh
  BY DEF PatchInv
<1> QED BY PatchStarts, PatchInvStep, <1>1, PTL DEF ContentSpec

-------------------------------------------------------------------------------
(* The documents of the content store. *)

(* A file is in a folder that exists.                                      *)
Housed == \A p \in Files : file[p] # None => Home(p) \in dirs

(* The document a request creates is not there before it is done.          *)
Unborn ==
  \A r \in Requests : at[r] # "done" => Nowhere(r) /\ \A q \in Requests : about[q] # r

(* A write that passed its check finds the document it is about, unless it *)
(* creates one or is a known exception.                                    *)
Aimed ==
  \A w \in Requests :
    Does(w, "write", "land")
      => \/ about[w] \in doubled \cup {None}
         \/ w \in swept
         \/ file[ask[w].from] # None /\ file[ask[w].from].doc = about[w]

DocInv == PatchInv /\ Housed /\ Unborn /\ Aimed /\ OnePlace

LEMMA DocStarts == ContentInit => DocInv
<1> SUFFICES ASSUME ContentInit PROVE DocInv
  OBVIOUS
<1>1. PatchInv
  BY PatchStarts
<1>2. \A p \in Files : file[p] # None => p = Placed /\ file[p].doc = 0
  BY DEF ContentInit
<1>3. Housed /\ OnePlace
  BY <1>2 DEF ContentInit, Housed, OnePlace
<1>4. Unborn
  BY <1>2, ContentAssumption DEF ContentInit, Unborn, Nowhere, Requests, Docs
<1>5. Aimed
  BY DEF ContentInit, Aimed, Does
<1> QED BY <1>1, <1>3, <1>4, <1>5 DEF DocInv

(* What every step of a handler leaves alone. *)
Elsewhere(r) ==
  /\ at[r] \notin {"new", "done"}
  /\ \A q \in Requests : ask'[q] = ask[q] \/ (q = r /\ at'[q] = "done")
  /\ \A q \in Requests \ {r} : at'[q] = at[q] /\ about'[q] = about[q]
  /\ about'[r] \in {about[r], None}
  /\ doubled \subseteq doubled' /\ swept \subseteq swept'

(* Where the documents of the files after a step of r come from. *)
Accounted(r) ==
  \A p \in Files :
    file'[p] # None
      => \/ \E q \in Files : file[q] # None /\ file[q].doc = file'[p].doc
         \/ file'[p].doc = about[r] /\ about[r] \in doubled'
         \/ file'[p].doc = r /\ at[r] = "land" /\ at'[r] = "done"

(* What a step of r does to the files others are about to write. *)
Spared(r) ==
  \A w \in Requests \ {r} :
    Does(w, "write", "land")
      => \/ w \in swept'
         \/ file'[ask[w].from] = file[ask[w].from]
         \/ file[ask[w].from] = None

LEMMA DocKeeps ==
  ASSUME DocInv, NEW r \in Requests, Elsewhere(r), PatchInv', Accounted(r), Spared(r), Housed', OnePlace',
         Does(r, "write", "land")'
           => \/ about'[r] \in doubled' \cup {None}
              \/ file'[ask[r].from] # None /\ file'[ask[r].from].doc = about'[r]
  PROVE  DocInv'
<1>1. Unborn'
  <2> SUFFICES ASSUME NEW x \in Requests, at'[x] # "done"
               PROVE  Nowhere(x)' /\ \A q \in Requests : about'[q] # x
    BY DEF Unborn
  <2>1. at[x] # "done"
    BY DEF Elsewhere
  <2>2. Nowhere(x) /\ \A q \in Requests : about[q] # x
    BY <2>1 DEF DocInv, Unborn
  <2>3. x # None
    BY ContentAssumption DEF Docs, Requests
  <2>4. \A q \in Requests : about'[q] # x
    BY <2>2, <2>3 DEF Elsewhere
  <2>5. Nowhere(x)'
    BY <2>2 DEF Accounted, Nowhere
  <2> QED BY <2>4, <2>5
<1>2. Aimed'
  <2> SUFFICES ASSUME NEW w \in Requests, Does(w, "write", "land")'
               PROVE  \/ about'[w] \in doubled' \cup {None}
                      \/ w \in swept'
                      \/ file'[ask[w].from] # None /\ file'[ask[w].from].doc = about'[w]
    <3>1. \A w \in Requests : Does(w, "write", "land")' => ask'[w] = ask[w]
      BY DEF Elsewhere, Does
    <3> QED BY <3>1 DEF Aimed
  <2>1. CASE w = r
    BY <2>1
  <2>2. CASE w # r
    <3>1. Does(w, "write", "land") /\ about'[w] = about[w]
      BY <2>2 DEF Elsewhere, Does
    <3> QED BY <2>2, <3>1 DEF DocInv, Aimed, Elsewhere, Spared
  <2> QED BY <2>1, <2>2
<1> QED BY <1>1, <1>2 DEF DocInv

(* Steps that change no file. *)
LEMMA DocUnseen ==
  ASSUME DocInv, NEW r \in Requests, Elsewhere(r), PatchInv', UNCHANGED file, dirs \subseteq dirs',
         Does(r, "write", "land")'
           => \/ about'[r] \in doubled' \cup {None}
              \/ file'[ask[r].from] # None /\ file'[ask[r].from].doc = about'[r]
  PROVE  DocInv'
<1>1. Accounted(r) /\ Spared(r)
  BY DEF Accounted, Spared
<1>2. Housed'
  BY DEF DocInv, Housed
<1>3. OnePlace'
  BY DEF DocInv, OnePlace, Elsewhere
<1> QED BY <1>1, <1>2, <1>3, DocKeeps

(* Moving files of one folder to another keeps them apart. *)
LEMMA MovedApart ==
  ASSUME NEW from \in Paths, NEW to \in Paths, from \in Files <=> to \in Files
  PROVE  /\ Inside(from) \subseteq Files
         /\ \A p, q \in Inside(from) : Moved(p, from, to) = Moved(q, from, to) => p = q
<1>1. CASE from \in Files
  <2>1. ~IsDir(from)
    BY <1>1 DEF IsDir, Files
  <2> QED BY <1>1, <2>1 DEF Inside
<1>2. CASE from \notin Files
  <2>1. from \in Dirs /\ to \in Dirs
    BY <1>2 DEF Paths
  <2>2. PICK a \in Folders : from = <<a>>
    BY <2>1 DEF Dirs
  <2>3. IsDir(from) /\ Inside(from) = {p \in Files : p[1] = a}
    BY <2>2 DEF IsDir, Inside, FilesIn, Home
  <2>4. \A p, q \in Files : p[1] = q[1] /\ p[2] = q[2] => p = q
    BY DEF Files
  <2>5. \A p \in Inside(from) : Moved(p, from, to) = <<to[1], p[2]>>
    BY <2>3 DEF Moved
  <2> QED BY <2>3, <2>4, <2>5
<1> QED BY <1>1, <1>2

(* Where the files that were moved or copied are now. *)
LEMMA MovedHome ==
  ASSUME NEW from \in Paths, NEW to \in Paths, from \in Files <=> to \in Files,
         NEW p \in Inside(from)
  PROVE  IF to \in Files THEN ~IsDir(to) /\ ~IsDir(from) /\ Inside(from) = {from} /\ Moved(p, from, to) = to
                         ELSE /\ IsDir(to) /\ IsDir(from) /\ Inside(from) = FilesIn(from)
                              /\ Home(Moved(p, from, to)) = to
<1>1. CASE from \in Files
  <2>1. ~IsDir(from) /\ ~IsDir(to)
    BY <1>1 DEF IsDir, Files
  <2> QED BY <1>1, <2>1 DEF Inside, Moved
<1>2. CASE from \notin Files
  <2>1. from \in Dirs /\ to \in Dirs
    BY <1>2 DEF Paths
  <2>2. PICK b \in Folders : to = <<b>>
    BY <2>1 DEF Dirs
  <2>3. PICK a \in Folders : from = <<a>>
    BY <2>1 DEF Dirs
  <2>4. IsDir(from) /\ IsDir(to)
    BY <2>2, <2>3 DEF IsDir
  <2>5. Home(Moved(p, from, to)) = to
    BY <2>2, <2>4 DEF Moved, Home
  <2> QED BY <1>2, <2>4, <2>5 DEF Inside
<1> QED BY <1>1, <1>2

(* What a request names: two files, or two folders. *)
LEMMA AskedPair ==
  ASSUME ContentShape, NEW r \in Requests, at[r] \notin {"new", "done"}
  PROVE  /\ ask[r].from \in Paths /\ ask[r].to \in Paths
         /\ ask[r].from \in Files <=> ask[r].to \in Files
  BY ContentAssumption DEF ContentShape

(* Every step of a handler has its frame. *)
LEMMA HandleElsewhere ==
  ASSUME PatchInv, NEW r \in Requests, Handle(r)
  PROVE  Elsewhere(r)
<1> USE DEF PatchInv, ContentShape, Elsewhere
<1>1. ASSUME Return(r), at[r] \notin {"new", "done"}, doubled \subseteq doubled', swept \subseteq swept'
      PROVE  Elsewhere(r)
  BY <1>1 DEF Return
<1>2. ASSUME UNCHANGED handlerVars, at[r] \notin {"new", "done"}, doubled \subseteq doubled', swept \subseteq swept',
             \A q \in Requests \ {r} : at'[q] = at[q]
      PROVE  Elsewhere(r)
  BY <1>2 DEF handlerVars
<1>3. CASE GetStructure(r) \/ GetPath(r) \/ GetSecond(r)
  BY <1>3, <1>2 DEF GetStructure, GetPath, GetSecond, Lock
<1>4. CASE CheckWrite(r) \/ LandWrite(r)
  <2>1. CASE CheckWrite(r)
    BY <2>1, <1>1, <1>2 DEF CheckWrite, Does
  <2>2. CASE LandWrite(r)
    BY <2>2, <1>1 DEF LandWrite, Does
  <2> QED BY <1>4, <2>1, <2>2
<1>5. CASE Rename(r)
  BY <1>5, <1>1, <1>2 DEF Rename, Does
<1>6. CASE ListSides(r) \/ EndRename(r) \/ \E p \in Files : CheckMove(r, p) \/ MoveSide(r, p)
  BY <1>6, <1>1 DEF ListSides, EndRename, CheckMove, MoveSide
<1>7. CASE Copy(r) \/ DeleteFile(r) \/ RemoveFolder(r) \/ \E force \in BOOLEAN : CountFolder(r, force)
  BY <1>7, <1>1, <1>2 DEF Copy, DeleteFile, RemoveFolder, CountFolder, Does
<1>8. CASE ReadPatch(r) \/ LandPatch(r)
  BY <1>8, <1>1 DEF ReadPatch, LandPatch, Does
<1>9. CASE ReadVersions(r) \/ SkipVersion(r) \/ \E slide \in BOOLEAN : AppendVersion(r, slide)
  BY <1>9, <1>1 DEF ReadVersions, SkipVersion, AppendVersion
<1> QED BY <1>3, <1>4, <1>5, <1>6, <1>7, <1>8, <1>9 DEF Handle

(* The path of a write that is about to land is nobody else's. *)
LEMMA LandingApart ==
  ASSUME PatchInv, NEW r \in Requests, NEW w \in Requests \ {r}, Does(w, "write", "land")
  PROVE  ask[w].from \in Files /\ ask[w].from \in Paths /\ ask[w].from \notin Held(r)
  BY WritePath DEF Paths

(* What every step that changes files keeps to. *)
Settles(r) == Accounted(r) /\ Spared(r) /\ Housed' /\ OnePlace'

LEMMA LandWriteSettles ==
  ASSUME DocInv, NEW r \in Requests, LandWrite(r)
  PROVE  Settles(r)
<1>1. /\ at[r] = "land" /\ at'[r] = "done" /\ ask[r].from \in Files /\ dirs' = dirs
      /\ doubled \subseteq doubled'
  BY WritePath DEF LandWrite, Return, DocInv, PatchInv, ContentShape, Does
<1>2. CASE file' = file
  BY <1>1, <1>2 DEF Settles, Accounted, Spared, DocInv, Housed, OnePlace
<1>3. CASE file' # file
  <2> DEFINE x == ask[r].from
             d == IF about[r] = None THEN r ELSE about[r]
  <2>1. /\ Home(x) \in dirs
        /\ file'[x].doc = d
        /\ \A p \in Files : p # x => file'[p] = file[p]
        /\ doubled' = IF r \in swept /\ about[r] # None THEN doubled \cup {about[r]} ELSE doubled
    BY <1>1, <1>3 DEF LandWrite, DocInv, PatchInv, ContentShape
  <2>2. \/ about[r] = None /\ Nowhere(r)
        \/ about[r] = d /\ d \in doubled'
        \/ about[r] = d /\ file[x] # None /\ file[x].doc = d
    BY <1>1, <2>1 DEF LandWrite, DocInv, Unborn, Aimed
  <2>3. Accounted(r)
    BY <1>1, <2>1, <2>2 DEF Accounted
  <2>4. Spared(r)
    <3> SUFFICES ASSUME NEW w \in Requests \ {r}, Does(w, "write", "land")
                 PROVE  file'[ask[w].from] = file[ask[w].from]
      BY DEF Spared
    <3>1. ask[w].from \in Files /\ ask[w].from # x
      BY WritePath, LandingApart DEF LandWrite, DocInv, PatchInv, Guarded
    <3> QED BY <2>1, <3>1
  <2>5. Housed'
    BY <1>1, <2>1 DEF DocInv, Housed
  <2>6. OnePlace'
    <3> SUFFICES ASSUME NEW p \in Files, NEW q \in Files, file'[p] # None, file'[q] # None,
                        file'[p].doc = file'[q].doc, p # q
                 PROVE  file'[p].doc \in doubled'
      BY DEF OnePlace
    <3>1. CASE p # x /\ q # x
      BY <1>1, <2>1, <3>1 DEF DocInv, OnePlace
    <3>2. ASSUME NEW y \in Files, y # x, file'[y] # None, file'[y].doc = d PROVE d \in doubled'
      <4>1. file[y] # None /\ file[y].doc = d
        BY <2>1, <3>2
      <4> QED BY <1>1, <2>2, <3>2, <4>1 DEF DocInv, OnePlace, Nowhere
    <3> QED BY <2>1, <3>1, <3>2
  <2> QED BY <2>3, <2>4, <2>5, <2>6 DEF Settles
<1> QED BY <1>2, <1>3

LEMMA RenameSettles ==
  ASSUME DocInv, NEW r \in Requests, Rename(r)
  PROVE  Settles(r)
<1> DEFINE from == ask[r].from
           to == ask[r].to
           at_(q) == \E p \in Inside(from) : Moved(p, from, to) = q
           of(q) == CHOOSE p \in Inside(from) : Moved(p, from, to) = q
<1>1. /\ at[r] = "locked" /\ ask[r].op = "rename"
      /\ from \in Paths /\ to \in Paths /\ (from \in Files <=> to \in Files)
      /\ doubled' = doubled
  BY AskedPair DEF Rename, Does, DocInv, PatchInv
<1>2. CASE UNCHANGED <<file, dirs, swept>>
  BY <1>1, <1>2 DEF Settles, Accounted, Spared, DocInv, Housed, OnePlace
<1>3. CASE ~UNCHANGED <<file, dirs, swept>>
  <2>1. /\ Exists(from) /\ ~Exists(to) /\ Reachable(to)
        /\ file' = FilesMoved(from, to)
        /\ dirs' = IF IsDir(from) THEN (dirs \ {from}) \cup {to} ELSE dirs
        /\ swept' = IF IsDir(from) THEN swept \cup Landing(from) ELSE swept
    BY <1>3 DEF Rename
  <2>2. \A q \in Files : at_(q) => of(q) \in Inside(from) /\ of(q) \in Files /\ Moved(of(q), from, to) = q
    BY <1>1, MovedApart
  <2>3. \A q \in Files : file'[q] = IF at_(q) THEN file[of(q)] ELSE IF q \in Inside(from) THEN None ELSE file[q]
    BY <2>1 DEF FilesMoved
  <2> HIDE DEF at_, of
  <2>4. Accounted(r)
    BY <2>2, <2>3 DEF Accounted
  <2>5. OnePlace'
    <3> SUFFICES ASSUME NEW p \in Files, NEW q \in Files, file'[p] # None, file'[q] # None,
                        file'[p].doc = file'[q].doc, p # q
                 PROVE  file'[p].doc \in doubled
      BY <1>1 DEF OnePlace
    <3>1. \A a, b \in Files : file[a] # None /\ file[b] # None /\ file[a].doc = file[b].doc
                                => a = b \/ file[a].doc \in doubled
      BY DEF DocInv, OnePlace
    <3>2. CASE at_(p) /\ at_(q)
      BY <2>2, <2>3, <3>1, <3>2
    <3>3. CASE at_(p) /\ ~at_(q)
      BY <2>2, <2>3, <3>1, <3>3
    <3>4. CASE ~at_(p) /\ at_(q)
      BY <2>2, <2>3, <3>1, <3>4
    <3>5. CASE ~at_(p) /\ ~at_(q)
      BY <2>3, <3>1, <3>5
    <3> QED BY <3>2, <3>3, <3>4, <3>5
  <2>6. CASE to \in Files
    <3>1. ~IsDir(to) /\ ~IsDir(from) /\ Inside(from) = {from} /\ \A q \in Files : at_(q) => q = to
      BY <1>1, <2>2, <2>6, MovedHome, MovedApart DEF at_, Inside, IsDir, Files
    <3>2. Home(to) \in dirs
      BY <2>1, <3>1 DEF Reachable, Parents
    <3>3. Housed'
      BY <2>1, <2>3, <3>1, <3>2 DEF DocInv, Housed
    <3>4. Spared(r)
      <4> SUFFICES ASSUME NEW w \in Requests \ {r}, Does(w, "write", "land")
                   PROVE  file'[ask[w].from] = file[ask[w].from]
        BY DEF Spared
      <4>1. ask[w].from \in Files /\ ask[w].from \in Paths /\ ask[w].from \notin Held(r)
        BY LandingApart DEF DocInv
      <4>2. ask[w].from # FirstPath(r) /\ ask[w].from # SecondPath(r)
        BY <1>1, <4>1 DEF Held, Does
      <4>3. ask[w].from # from /\ ask[w].from # to
        BY <1>1, <4>2 DEF FirstPath, SecondPath
      <4> QED BY <2>3, <3>1, <4>1, <4>3
    <3> QED BY <2>4, <2>5, <3>3, <3>4 DEF Settles
  <2>7. CASE to \notin Files
    <3>1. IsDir(to) /\ IsDir(from)
      BY <1>1, <2>7 DEF Paths, Dirs, IsDir
    <3>2. Inside(from) = FilesIn(from)
      BY <3>1 DEF Inside
    <3>3. \A q \in Files : at_(q) => Home(q) = to
      BY <1>1, <2>2, <2>7, MovedHome
    <3>4. Housed'
      BY <2>1, <2>3, <3>1, <3>2, <3>3 DEF DocInv, Housed, FilesIn
    <3>5. Spared(r)
      <4> SUFFICES ASSUME NEW w \in Requests \ {r}, Does(w, "write", "land"), w \notin swept'
                   PROVE  \/ file'[ask[w].from] = file[ask[w].from]
                          \/ file[ask[w].from] = None
        BY DEF Spared
      <4>1. ask[w].from \in Files
        BY LandingApart DEF DocInv
      <4>2. Home(ask[w].from) # from
        BY <2>1, <3>1 DEF Landing
      <4>3. CASE Home(ask[w].from) = to
        BY <2>1, <3>1, <4>1, <4>3 DEF Exists, DocInv, Housed
      <4>4. CASE Home(ask[w].from) # to
        BY <2>3, <3>2, <3>3, <4>1, <4>2, <4>4 DEF FilesIn
      <4> QED BY <4>3, <4>4
    <3> QED BY <2>4, <2>5, <3>4, <3>5 DEF Settles
  <2> QED BY <2>6, <2>7
<1> QED BY <1>2, <1>3

LEMMA CopySettles ==
  ASSUME DocInv, NEW r \in Requests, Copy(r)
  PROVE  Settles(r)
<1> DEFINE from == ask[r].from
           to == ask[r].to
           at_(q) == \E p \in Inside(from) : Moved(p, from, to) = q
           of(q) == CHOOSE p \in Inside(from) : Moved(p, from, to) = q
<1>1. /\ at[r] = "locked" /\ ask[r].op = "copy" /\ UNCHANGED swept
      /\ from \in Paths /\ to \in Paths /\ (from \in Files <=> to \in Files)
  BY AskedPair DEF Copy, Does, DocInv, PatchInv
<1>2. CASE UNCHANGED <<file, dirs, doubled>>
  BY <1>1, <1>2 DEF Settles, Accounted, Spared, DocInv, Housed, OnePlace
<1>3. CASE ~UNCHANGED <<file, dirs, doubled>>
  <2>1. /\ ~Exists(to)
        /\ dirs' = dirs \cup (IF IsDir(to) THEN {to} ELSE {Home(to)})
        /\ doubled' = doubled \cup {file[p].doc : p \in {q \in Inside(from) : file[q] # None}}
    BY <1>3 DEF Copy
  <2>2. \A q \in Files : at_(q) => of(q) \in Inside(from) /\ of(q) \in Files /\ Moved(of(q), from, to) = q
    BY <1>1, MovedApart
  <2>3. \A q \in Files : file'[q] = IF at_(q) THEN file[of(q)] ELSE file[q]
    BY <1>3 DEF Copy
  <2> HIDE DEF at_, of
  <2>4. Accounted(r)
    BY <2>2, <2>3 DEF Accounted
  <2>5. OnePlace'
    <3> SUFFICES ASSUME NEW p \in Files, NEW q \in Files, file'[p] # None, file'[q] # None,
                        file'[p].doc = file'[q].doc, p # q
                 PROVE  file'[p].doc \in doubled'
      BY DEF OnePlace
    <3>1. ASSUME NEW y \in Files, at_(y), file'[y] # None PROVE file'[y].doc \in doubled'
      BY <2>1, <2>2, <2>3, <3>1
    <3>2. CASE ~at_(p) /\ ~at_(q)
      BY <2>1, <2>3, <3>2 DEF DocInv, OnePlace
    <3> QED BY <3>1, <3>2
  <2>6. CASE to \in Files
    <3>1. ~IsDir(to) /\ \A q \in Files : at_(q) => q = to
      BY <1>1, <2>2, <2>6, MovedHome DEF IsDir, Files
    <3>2. Housed'
      BY <2>1, <2>3, <3>1 DEF DocInv, Housed
    <3>3. Spared(r)
      <4> SUFFICES ASSUME NEW w \in Requests \ {r}, Does(w, "write", "land")
                   PROVE  file'[ask[w].from] = file[ask[w].from]
        BY DEF Spared
      <4>1. ask[w].from \in Files /\ ask[w].from \in Paths /\ ask[w].from \notin Held(r)
        BY LandingApart DEF DocInv
      <4>2. ask[w].from # to
        BY <1>1, <4>1 DEF Held, FirstPath
      <4> QED BY <2>3, <3>1, <4>1, <4>2
    <3> QED BY <2>4, <2>5, <3>2, <3>3 DEF Settles
  <2>7. CASE to \notin Files
    <3>1. IsDir(to) /\ \A q \in Files : at_(q) => Home(q) = to
      BY <1>1, <2>2, <2>7, MovedHome DEF Paths, Dirs, IsDir
    <3>2. Housed'
      BY <2>1, <2>3, <3>1 DEF DocInv, Housed
    <3>3. Spared(r)
      <4> SUFFICES ASSUME NEW w \in Requests \ {r}, Does(w, "write", "land")
                   PROVE  \/ file'[ask[w].from] = file[ask[w].from]
                          \/ file[ask[w].from] = None
        BY DEF Spared
      <4>1. ask[w].from \in Files
        BY LandingApart DEF DocInv
      <4> QED BY <2>1, <2>3, <3>1, <4>1 DEF Exists, DocInv, Housed
    <3> QED BY <2>4, <2>5, <3>2, <3>3 DEF Settles
  <2> QED BY <2>6, <2>7
<1> QED BY <1>2, <1>3

LEMMA DeleteSettles ==
  ASSUME DocInv, NEW r \in Requests, DeleteFile(r) \/ RemoveFolder(r)
  PROVE  Settles(r)
<1>1. /\ doubled' = doubled
      /\ \A p \in Files : file'[p] # None => file'[p] = file[p]
  BY DEF DeleteFile, RemoveFolder, DocInv, PatchInv, ContentShape
<1>2. Accounted(r) /\ OnePlace'
  BY <1>1 DEF Accounted, OnePlace, DocInv
<1>3. CASE DeleteFile(r)
  <2>1. Housed'
    BY <1>1, <1>3 DEF DeleteFile, Housed, DocInv
  <2>2. Spared(r)
    <3> SUFFICES ASSUME NEW w \in Requests \ {r}, Does(w, "write", "land")
                 PROVE  file'[ask[w].from] = file[ask[w].from]
      BY DEF Spared
    <3>1. ask[w].from \in Files /\ ask[w].from \in Paths /\ ask[w].from \notin Held(r)
      BY LandingApart DEF DocInv
    <3>2. ask[w].from # ask[r].from
      BY <1>3, <3>1 DEF DeleteFile, Does, Held, FirstPath
    <3> QED BY <1>3, <3>1, <3>2 DEF DeleteFile, DocInv, PatchInv, ContentShape
  <2> QED BY <1>2, <2>1, <2>2 DEF Settles
<1>4. CASE RemoveFolder(r)
  <2>1. Housed'
    BY <1>1, <1>4 DEF RemoveFolder, Housed, DocInv
  <2>2. Spared(r)
    <3> SUFFICES ASSUME NEW w \in Requests \ {r}, Does(w, "write", "land"), w \notin swept'
                 PROVE  file'[ask[w].from] = file[ask[w].from]
      BY DEF Spared
    <3>1. ask[w].from \in Files
      BY LandingApart DEF DocInv
    <3> QED BY <1>4, <3>1 DEF RemoveFolder, Landing
  <2> QED BY <1>2, <2>1, <2>2 DEF Settles
<1> QED BY <1>3, <1>4

LEMMA LandPatchSettles ==
  ASSUME DocInv, NEW r \in Requests, LandPatch(r)
  PROVE  Settles(r)
<1> DEFINE from == ask[r].from
           to == ask[r].to
<1>1. /\ at[r] = "land" /\ ask[r].op = "patch" /\ UNCHANGED <<dirs, swept, doubled>>
      /\ from \in Files /\ from \in Paths /\ to \in Files /\ to \in Paths
      /\ FirstPath(r) = from /\ SecondPath(r) = to
  BY AskedPaths DEF LandPatch, Does, DocInv, PatchInv
<1>2. CASE file' = file
  BY <1>1, <1>2 DEF Settles, Accounted, Spared, DocInv, Housed, OnePlace
<1>3. CASE file' # file
  <2>1. /\ to # from => DocAt(to) \in {None, base[r].doc}
        /\ file' = [p \in Files |-> IF p = to THEN [doc |-> base[r].doc, by |-> r]
                                    ELSE IF p = from THEN None ELSE file[p]]
    BY <1>3 DEF LandPatch
  <2>2. file[from] # None /\ file[from].doc = base[r].doc
    BY <1>1 DEF DocInv, PatchInv, PatchFresh, Patching, Does
  <2>3. file'[to].doc = file[from].doc /\ \A p \in Files \ {to} : file'[p] # None => p # from /\ file'[p] = file[p]
    BY <1>1, <2>1, <2>2
  <2>4. Accounted(r)
    BY <1>1, <2>2, <2>3 DEF Accounted
  <2>5. OnePlace'
    BY <1>1, <2>2, <2>3 DEF DocInv, OnePlace
  <2>6. Home(to) = Home(from)
    BY <1>1, ContentAssumption DEF Home, DocInv, PatchInv, ContentShape
  <2>7. Housed'
    BY <1>1, <2>2, <2>3, <2>6 DEF DocInv, Housed
  <2>8. Spared(r)
    <3> SUFFICES ASSUME NEW w \in Requests \ {r}, Does(w, "write", "land")
                 PROVE  file'[ask[w].from] = file[ask[w].from]
      BY DEF Spared
    <3>1. ask[w].from \in Files /\ ask[w].from \in Paths /\ ask[w].from \notin Held(r)
      BY LandingApart DEF DocInv
    <3>2. ask[w].from # from /\ ask[w].from # to
      BY <1>1, <3>1 DEF Held, Does
    <3> QED BY <2>1, <3>1, <3>2
  <2> QED BY <2>4, <2>5, <2>7, <2>8 DEF Settles
<1> QED BY <1>2, <1>3

(* Steps that change no file. *)
Unseen(r) ==
  /\ UNCHANGED <<file, dirs>>
  /\ Does(r, "write", "land")'
       => \/ about'[r] \in doubled' \cup {None}
          \/ file'[ask[r].from] # None /\ file'[ask[r].from].doc = about'[r]

LEMMA HandleUnseen ==
  ASSUME DocInv, NEW r \in Requests, Handle(r)
  PROVE  (Settles(r) /\ ~Does(r, "write", "land")') \/ Unseen(r)
<1> USE DEF DocInv, PatchInv, ContentShape
<1>1. ASSUME Return(r) PROVE ~Does(r, "write", "land")'
  BY <1>1 DEF Return, Does
<1>2. CASE LandWrite(r) \/ Copy(r) \/ DeleteFile(r) \/ RemoveFolder(r) \/ LandPatch(r)
  <2>1. Return(r)
    BY <1>2 DEF LandWrite, Copy, DeleteFile, RemoveFolder, LandPatch
  <2> QED BY <1>1, <1>2, <2>1, LandWriteSettles, CopySettles, DeleteSettles, LandPatchSettles
<1>3. CASE Rename(r)
  <2>1. ~Does(r, "write", "land")'
    BY <1>1, <1>3 DEF Rename, Does, handlerVars
  <2> QED BY <1>3, <2>1, RenameSettles
<1>4. CASE CheckWrite(r)
  <2>1. CASE Return(r)
    BY <1>1, <1>4, <2>1 DEF CheckWrite, Unseen
  <2>2. CASE ~Return(r)
    <3>1. ask[r].from \in Files
      BY <1>4, WritePath DEF CheckWrite
    <3>2. DocAt(ask[r].from) = IF file[ask[r].from] # None THEN file[ask[r].from].doc ELSE None
      <4>1. \A p \in Files : Len(p) # 1
        BY DEF Files
      <4> QED BY <3>1, <4>1 DEF DocAt, Exists, IsDir
    <3> QED BY <1>4, <2>2, <3>1, <3>2 DEF CheckWrite, Unseen, handlerVars
  <2> QED BY <2>1, <2>2
<1>5. CASE GetStructure(r) \/ GetPath(r) \/ GetSecond(r)
  <2>1. CASE GetSecond(r)
    <3>1. at[r] = "second" /\ ask[r].op # "write" /\ ask' = ask
      BY <2>1 DEF GetSecond, Lock, handlerVars, Guarded
    <3> QED BY <2>1, <3>1 DEF GetSecond, Lock, Unseen, Does
  <2> QED BY <1>5, <2>1 DEF GetStructure, GetPath, Lock, Unseen, Does
<1>6. CASE ListSides(r) \/ EndRename(r) \/ \E p \in Files : CheckMove(r, p) \/ MoveSide(r, p)
  BY <1>1, <1>6 DEF ListSides, EndRename, CheckMove, MoveSide, Unseen, Does
<1>7. CASE \E force \in BOOLEAN : CountFolder(r, force)
  BY <1>1, <1>7 DEF CountFolder, Unseen, Does
<1>8. CASE ReadPatch(r)
  BY <1>1, <1>8 DEF ReadPatch, Unseen, Does
<1>9. CASE ReadVersions(r) \/ SkipVersion(r) \/ \E slide \in BOOLEAN : AppendVersion(r, slide)
  BY <1>1, <1>9 DEF ReadVersions, SkipVersion, AppendVersion, Unseen, Does
<1> QED BY <1>2, <1>3, <1>4, <1>5, <1>6, <1>7, <1>8, <1>9 DEF Handle

LEMMA DropUnseen ==
  ASSUME DocInv, NEW r \in Requests, Drop(r)
  PROVE  Elsewhere(r) /\ Unseen(r)
<1> USE DEF DocInv, PatchInv, ContentShape
<1>1. Return(r) /\ at[r] \notin {"new", "done"} /\ UNCHANGED <<file, dirs, doubled, swept>>
  BY DEF Drop
<1>2. ~Does(r, "write", "land")'
  BY <1>1 DEF Return, Does
<1> QED BY <1>1, <1>2 DEF Return, Elsewhere, Unseen

LEMMA ArriveDocs ==
  ASSUME DocInv, PatchInv', NEW r \in Requests, NEW a \in Asks, Arrive(r, a)
  PROVE  DocInv'
<1>1. /\ UNCHANGED <<file, swept, doubled>> /\ dirs \subseteq dirs'
      /\ at[r] = "new" /\ at'[r] \in {"path", "structure", "record", "done"}
      /\ \A q \in Requests \ {r} : at'[q] = at[q] /\ ask'[q] = ask[q] /\ about'[q] = about[q]
  <2>1. r > arrived
    BY ContentAssumption DEF Arrive, ArriveWrite, ArriveRename, ArriveStructural, ArriveRecord, CreateFolder,
       Begin, DocInv, PatchInv, ContentShape, Requests
  <2> QED BY <2>1 DEF Arrive, ArriveWrite, ArriveRename, ArriveStructural, ArriveRecord, CreateFolder, Begin,
             DocInv, PatchInv, ContentShape
<1>2. about'[r] = about[r] \/ (a.from \in Files /\ about'[r] = DocAt(a.from))
  BY ContentAssumption DEF Arrive, ArriveWrite, ArriveRename, ArriveStructural, ArriveRecord, CreateFolder,
     DocInv, PatchInv, ContentShape
<1>3. a.from \in Files => DocAt(a.from) = IF file[a.from] # None THEN file[a.from].doc ELSE None
  BY DEF DocAt, Exists, IsDir, Files
<1>4. Unborn'
  <2> SUFFICES ASSUME NEW x \in Requests, at'[x] # "done"
               PROVE  Nowhere(x)' /\ \A q \in Requests : about'[q] # x
    BY DEF Unborn
  <2>1. Nowhere(x) /\ \A q \in Requests : about[q] # x
    BY <1>1 DEF DocInv, Unborn
  <2>2. x # None
    BY ContentAssumption DEF Docs, Requests
  <2> QED BY <1>1, <1>2, <1>3, <2>1, <2>2 DEF Nowhere
<1>5. Aimed' /\ Housed' /\ OnePlace'
  BY <1>1 DEF DocInv, Aimed, Housed, OnePlace, Does
<1> QED BY <1>4, <1>5 DEF DocInv

LEMMA DocInvStep == DocInv /\ [ContentNext]_contentVars => DocInv'
<1> SUFFICES ASSUME DocInv, [ContentNext]_contentVars PROVE DocInv'
  OBVIOUS
<1>1. PatchInv'
  BY PatchInvStep DEF DocInv
<1>2. ASSUME NEW r \in Requests, Handle(r) PROVE DocInv'
  BY <1>1, <1>2, HandleElsewhere, HandleUnseen, DocKeeps, DocUnseen DEF DocInv, Settles, Unseen
<1>3. ASSUME NEW r \in Requests, NEW a \in Asks, Arrive(r, a) PROVE DocInv'
  BY <1>1, <1>3, ArriveDocs
<1>4. CASE UNCHANGED contentVars
  BY <1>1, <1>4 DEF contentVars, handlerVars, DocInv, Housed, Unborn, Aimed, OnePlace, Nowhere, Does
<1>5. ASSUME NEW r \in Requests, Drop(r) PROVE DocInv'
  BY <1>1, <1>5, DropUnseen, DocUnseen DEF Unseen
<1> QED BY <1>2, <1>3, <1>4, <1>5 DEF ContentNext

(* A document is in one place, but for copies and the known exceptions,    *)
(* for any requests at once (write_file(), rename() and the locks,         *)
(* content.rs).                                                            *)
THEOREM DocumentsInOnePlace == ContentSpec => []OnePlace
<1>1. DocInv => OnePlace
  BY DEF DocInv
<1> QED BY DocStarts, DocInvStep, <1>1, PTL DEF ContentSpec

(* A document is brought back by nothing but the known exceptions: what    *)
(* the files hold after a step was there before it, or is new              *)
(* (content.rs:345-347).                                                   *)
THEOREM DocumentsStayDeleted == ContentSpec => NoRevival
<1> DEFINE Appears(d) == Nowhere(d) /\ ~Nowhere(d)'
                           => d \in doubled' \/ (d # 0 /\ at[d] = "land" /\ at'[d] = "done")
<1>1. ASSUME DocInv, [ContentNext]_contentVars, NEW d \in Docs PROVE Appears(d)
  <2>1. CASE UNCHANGED file
    BY <2>1 DEF Nowhere
  <2>2. ASSUME NEW r \in Requests, Handle(r) PROVE Appears(d)
    <3>1. Accounted(r) \/ UNCHANGED file
      BY <1>1, <2>2, HandleUnseen DEF Settles, Unseen
    <3>2. r # 0
      BY ContentAssumption DEF Requests
    <3> QED BY <2>1, <3>1, <3>2 DEF Accounted, Nowhere
  <2>3. ASSUME NEW r \in Requests, NEW a \in Asks, Arrive(r, a) PROVE UNCHANGED file
    BY <2>3 DEF Arrive, ArriveWrite, ArriveRename, ArriveStructural, ArriveRecord, CreateFolder, Begin
  <2>4. UNCHANGED contentVars => UNCHANGED file
    BY DEF contentVars
  <2>5. ASSUME NEW r \in Requests, Drop(r) PROVE UNCHANGED file
    BY <2>5 DEF Drop
  <2> QED BY <1>1, <2>1, <2>2, <2>3, <2>4, <2>5 DEF ContentNext
<1>2. DocInv /\ [ContentNext]_contentVars => [\A d \in Docs : Appears(d)]_contentVars
  BY <1>1
<1> QED BY DocStarts, DocInvStep, <1>2, PTL DEF ContentSpec, NoRevival
-------------------------------------------------------------------------------
(* Side-loaded history.  While a record stands between its reading and its *)
(* writing, only a move that crosses it touches its side file, so what it  *)
(* read is what it replaces; a move takes every version along; a request's *)
(* own version is nowhere before it is written.                            *)

InGot(r) == {got[r][i] : i \in DOMAIN got[r]}

HistoryShape ==
  /\ side \in [Files -> Seq(Docs)]
  /\ got \in [Requests -> Seq(Docs)]
  /\ sideLock = [p \in Files |-> sideLock[p]]

Recording ==
  \A r \in Requests :
    /\ at[r] \in {"record", "append"} => ask[r].op = "record"
    /\ at[r] = "append" =>
         /\ sideLock[ask[r].from] = r
         /\ \/ got[r] = side[ask[r].from]
            \/ InSide(ask[r].from) \cup InGot(r) \subseteq crossed

Unrecorded ==
  \A r \in Requests : at[r] # "done" =>
    /\ r \notin kept
    /\ \A p \in Files : r \notin InSide(p)
    /\ \A q \in Requests : r \notin InGot(q)

InOneSide == \A p, q \in Files : \A v \in InSide(p) \cap InSide(q) : p = q \/ v \in crossed

Found == \A v \in kept \ crossed : \E p \in Files : v \in InSide(p)

HistoryInv == PatchInv /\ HistoryShape /\ Recording /\ Unrecorded /\ InOneSide /\ Found

LEMMA HistoryStarts == ContentInit => HistoryInv
<1> SUFFICES ASSUME ContentInit PROVE HistoryInv
  OBVIOUS
<1>1. \A r \in Requests : at[r] = "new" /\ got[r] = <<>> /\ r # 0
  BY ContentAssumption DEF ContentInit, Requests
<1>2. \A p \in Files : side[p] = IF p = Placed THEN <<0>> ELSE <<>>
  BY DEF ContentInit
<1>3. \A p \in Files : InSide(p) = IF p = Placed THEN {0} ELSE {}
  BY <1>2 DEF InSide
<1>4. \A r \in Requests : InGot(r) = {}
  BY <1>1 DEF InGot
<1>5. HistoryShape
  <2>1. <<>> \in Seq(Docs) /\ <<0>> \in Seq(Docs)
    BY ContentAssumption DEF Docs
  <2>2. side \in [Files -> Seq(Docs)]
    BY <2>1 DEF ContentInit
  <2>3. got \in [Requests -> Seq(Docs)]
    BY <2>1 DEF ContentInit
  <2> QED BY <2>2, <2>3 DEF ContentInit, HistoryShape
<1>6. Placed \in Files /\ kept = {0}
  BY ContentAssumption DEF ContentInit
<1> QED BY PatchStarts, <1>1, <1>3, <1>4, <1>5, <1>6
        DEF HistoryInv, Recording, Unrecorded, InOneSide, Found

(* The request of a record is of a file.                                   *)
LEMMA RecordPath ==
  ASSUME HistoryInv, NEW r \in Requests, at[r] \in {"record", "append"}
  PROVE  ask[r].from \in Files
  BY ContentAssumption DEF HistoryInv, PatchInv, ContentShape, Recording

(* A returning handler lets go of its own side file alone.                 *)
LEMMA ReturnUnlocks ==
  ASSUME HistoryInv, NEW r \in Requests, Return(r)
  PROVE  /\ sideLock' = [p \in Files |-> sideLock'[p]]
         /\ \A p \in Files : sideLock'[p] = IF sideLock[p] = r THEN 0 ELSE sideLock[p]
         /\ got' \in [Requests -> Seq(Docs)]
         /\ got'[r] = <<>> /\ \A q \in Requests \ {r} : got'[q] = got[q]
         /\ at'[r] = "done" /\ \A q \in Requests \ {r} : at'[q] = at[q] /\ ask'[q] = ask[q]
  BY DEF Return, Unlocked, HistoryInv, HistoryShape, PatchInv, ContentShape

(* Steps that leave the side files alone. *)
LEMMA SideAlone ==
  ASSUME HistoryInv, PatchInv', NEW r \in Requests,
         side' = side, kept' = kept, crossed' = crossed, HistoryShape',
         \A q \in Requests \ {r} : at'[q] = at[q] /\ ask'[q] = ask[q],
         \A q \in Requests : got'[q] = got[q] \/ got'[q] = <<>>,
         \A q \in Requests \ {r} : got'[q] = got[q],
         \A q \in Requests \ {r}, p \in Files : sideLock[p] = q => sideLock'[p] = q,
         at'[r] = "record" => ask'[r].op = "record",
         at'[r] # "append",
         at[r] = "done" => at'[r] = "done"
  PROVE  HistoryInv'
<1>1. \A p \in Files : InSide(p)' = InSide(p)
  BY DEF InSide
<1>2. \A q \in Requests : InGot(q)' \subseteq InGot(q)
  BY DEF InGot
<1>3. \A q \in Requests \ {r} : InGot(q)' = InGot(q)
  BY DEF InGot
<1>4. Recording'
  <2>1. ASSUME NEW q \in Requests \ {r}, at'[q] = "append"
        PROVE  /\ sideLock'[ask'[q].from] = q
               /\ \/ got'[q] = side'[ask'[q].from]
                  \/ InSide(ask[q].from)' \cup InGot(q)' \subseteq crossed'
    <3>1. at[q] = "append" /\ ask'[q] = ask[q] /\ ask[q].from \in Files
      BY <2>1, RecordPath
    <3> QED BY <2>1, <3>1, <1>1, <1>3 DEF HistoryInv, Recording
  <2> QED BY <2>1 DEF HistoryInv, Recording
<1>5. Unrecorded'
  BY <1>1, <1>2 DEF HistoryInv, Unrecorded
<1>6. InOneSide' /\ Found'
  BY <1>1 DEF HistoryInv, InOneSide, Found
<1> QED BY <1>4, <1>5, <1>6 DEF HistoryInv

(* Where a move takes a side file is a path of a file. *)
LEMMA TargetIsFile ==
  ASSUME PatchInv, NEW r \in Requests, at[r] \notin {"new", "done"}, NEW p \in Files
  PROVE  Target(r, p) \in Files
<1>1. ask[r].from \in Paths /\ ask[r].to \in Paths /\ (ask[r].from \in Files <=> ask[r].to \in Files)
  BY ContentAssumption DEF PatchInv, ContentShape
<1>2. p[2] \in Names
  BY DEF Files
<1>3. CASE IsDir(ask[r].from)
  <2>1. ask[r].from \notin Files
    BY <1>3 DEF IsDir, Files
  <2>2. ask[r].to \in Dirs
    BY <1>1, <2>1 DEF Paths
  <2> QED BY <1>2, <1>3, <2>2 DEF Target, Moved, Dirs, Files
<1>4. CASE ~IsDir(ask[r].from)
  <2>1. ask[r].from \in Files
    BY <1>1, <1>4 DEF IsDir, Paths, Dirs
  <2> QED BY <1>1, <1>4, <2>1 DEF Target, Moved
<1> QED BY <1>3, <1>4

LEMMA MoveKeepsHistory ==
  ASSUME HistoryInv, PatchInv', NEW r \in Requests, NEW p \in Files, MoveSide(r, p)
  PROVE  HistoryInv'
<1> DEFINE q == Target(r, p)
<1>1. q \in Files
  BY TargetIsFile DEF HistoryInv, MoveSide
<1>2. /\ at[r] = "move" /\ at'[r] = "remap" /\ ask' = ask /\ got' = got /\ kept' = kept
      /\ \A x \in Requests \ {r} : at'[x] = at[x]
      /\ sideLock[p] = r
      /\ \A f \in Files : sideLock'[f] = IF f = p THEN 0 ELSE sideLock[f]
      /\ crossed' = crossed \cup InSide(q) \cup (IF sideLock[q] # 0 THEN InSide(p) ELSE {})
  BY DEF MoveSide, HistoryInv, HistoryShape, PatchInv, ContentShape
<1>3. /\ \A f \in Files : side'[f] = IF f = p THEN <<>> ELSE IF f = q THEN side[p] ELSE side[f]
      /\ HistoryShape'
  <2>1. side' = [side EXCEPT ![q] = side[p], ![p] = <<>>] /\ sideLock' = [sideLock EXCEPT ![p] = 0]
    BY DEF MoveSide
  <2>2. side[p] \in Seq(Docs) /\ <<>> \in Seq(Docs)
    BY DEF HistoryInv, HistoryShape
  <2>3. side' \in [Files -> Seq(Docs)]
    BY <1>1, <2>1, <2>2 DEF HistoryInv, HistoryShape
  <2>4. \A f \in Files : side'[f] = IF f = p THEN <<>> ELSE IF f = q THEN side[p] ELSE side[f]
    BY <1>1, <2>1 DEF HistoryInv, HistoryShape
  <2> QED BY <1>2, <2>1, <2>3, <2>4 DEF HistoryInv, HistoryShape
<1>4. \A f \in Files : InSide(f)' = IF f = p THEN {} ELSE IF f = q THEN InSide(p) ELSE InSide(f)
  BY <1>3 DEF InSide
<1>5. \A x \in Requests : InGot(x)' = InGot(x)
  BY <1>2 DEF InGot
<1>6. Recording'
  <2>1. ASSUME NEW x \in Requests, at'[x] = "append"
        PROVE  /\ sideLock'[ask'[x].from] = x
               /\ \/ got'[x] = side'[ask'[x].from]
                  \/ InSide(ask[x].from)' \cup InGot(x)' \subseteq crossed'
    <3>1. x # r /\ at[x] = "append" /\ ask[x].from \in Files
      BY <1>2, <2>1, RecordPath
    <3>2. /\ sideLock[ask[x].from] = x
          /\ \/ got[x] = side[ask[x].from]
             \/ InSide(ask[x].from) \cup InGot(x) \subseteq crossed
      BY <3>1 DEF HistoryInv, Recording
    <3>3. ask[x].from # p
      BY <1>2, <3>1, <3>2
    <3>4. CASE ask[x].from # q
      BY <1>2, <1>3, <1>4, <1>5, <3>1, <3>2, <3>3, <3>4
    <3>5. CASE ask[x].from = q
      <4>1. sideLock[q] # 0
        BY <3>2, <3>5, ContentAssumption DEF Requests
      <4>2. InGot(x) \subseteq InSide(q) \/ InGot(x) \subseteq crossed
        BY <3>2, <3>5 DEF InGot, InSide
      <4>3. \A f \in Files : f = q /\ f # p => InSide(f)' = InSide(p)
        BY <1>4
      <4>4. InSide(ask[x].from)' = InSide(p)
        BY <1>2, <3>1, <3>3, <3>5, <4>3
      <4>5. InSide(p) \subseteq crossed' /\ InGot(x) \subseteq crossed'
        BY <1>2, <4>1, <4>2
      <4> QED BY <1>2, <1>5, <3>1, <3>2, <4>4, <4>5
    <3> QED BY <3>4, <3>5
  <2> QED BY <1>2, <2>1 DEF HistoryInv, Recording
<1>7. Unrecorded'
  BY <1>2, <1>4, <1>5 DEF HistoryInv, Unrecorded
<1>8. InOneSide'
  BY <1>2, <1>4 DEF HistoryInv, InOneSide
<1>9. Found'
  <2> SUFFICES ASSUME NEW v \in kept', v \notin crossed'
               PROVE  \E f \in Files : v \in InSide(f)'
    BY DEF Found
  <2>1. PICK f \in Files : v \in InSide(f)
    BY <1>2 DEF HistoryInv, Found
  <2>2. f # q
    BY <1>2, <2>1
  <2>3. CASE f = p
    <3>1. \A x \in Files : x = q => InSide(x)' = InSide(p)
      BY <1>4, <2>2, <2>3
    <3> QED BY <1>1, <2>1, <2>3, <3>1
  <2> QED BY <1>4, <2>1, <2>2, <2>3
<1> QED BY <1>3, <1>6, <1>7, <1>8, <1>9 DEF HistoryInv

(* What a record writes: its version, and some of those it appends it to.  *)
Elements(s) == {s[i] : i \in DOMAIN s}

LEMMA AppendedVersions ==
  ASSUME NEW head \in Seq(Docs), NEW r \in Docs
  PROVE  /\ Pruned(Append(head, r)) \in Seq(Docs)
         /\ r \in Elements(Pruned(Append(head, r)))
         /\ Elements(Pruned(Append(head, r))) \subseteq Elements(head) \cup {r}
         /\ Len(Pruned(Append(head, r))) <= MaxVersions
<1> DEFINE all == Append(head, r)
<1>2. /\ all \in Seq(Docs) /\ Len(all) = Len(head) + 1
      /\ all[Len(all)] = r
      /\ \A i \in 1..Len(head) : all[i] = head[i]
  OBVIOUS
<1>3. {all[i] : i \in 1..Len(all)} \subseteq {head[i] : i \in 1..Len(head)} \cup {r}
  BY <1>2
<1> HIDE DEF all
<1> DEFINE new == Pruned(all)
<1>4. /\ new \in Seq(Docs) /\ Len(new) \in Nat \ {0} /\ Len(new) <= MaxVersions
      /\ new[Len(new)] = r
      /\ \A i \in 1..Len(new) : \E j \in 1..Len(all) : new[i] = all[j]
  <2>1. CASE Len(all) > MaxVersions
    <3>1. new = SubSeq(all, Len(all) - MaxVersions + 1, Len(all))
      BY <2>1 DEF Pruned
    <3>2. /\ Len(all) \in Nat /\ MaxVersions \in Nat \ {0}
          /\ Len(all) - MaxVersions + 1 \in 1..Len(all)
      BY <1>2, <2>1, ContentAssumption
    <3>3. /\ new \in Seq(Docs) /\ Len(new) = MaxVersions
          /\ \A i \in 1..MaxVersions : new[i] = all[Len(all) - MaxVersions + i]
      <4>1. \A i \in 1..Len(all) : all[i] \in Docs
        BY <1>2
      <4> QED BY <3>1, <3>2, <1>2, <4>1
    <3>4. \A i \in 1..MaxVersions : Len(all) - MaxVersions + i \in 1..Len(all)
      BY <3>2
    <3>5. new[Len(new)] = r
      BY <1>2, <3>2, <3>3
    <3> QED BY <3>2, <3>3, <3>4, <3>5
  <2>2. CASE ~(Len(all) > MaxVersions)
    BY <1>2, <2>2, ContentAssumption DEF Pruned
  <2> QED BY <2>1, <2>2
<1> HIDE DEF new
<1>5. DOMAIN new = 1..Len(new) /\ DOMAIN all = 1..Len(all) /\ DOMAIN head = 1..Len(head)
  BY <1>2, <1>4
<1>6. r \in {new[i] : i \in DOMAIN new}
  BY <1>4, <1>5
<1>7. {new[i] : i \in DOMAIN new} \subseteq {head[i] : i \in DOMAIN head} \cup {r}
  BY <1>3, <1>4, <1>5
<1> QED BY <1>4, <1>6, <1>7 DEF new, all, Elements

LEMMA ReadKeepsHistory ==
  ASSUME HistoryInv, PatchInv', NEW r \in Requests, ReadVersions(r)
  PROVE  HistoryInv'
<1>1. ask[r].from \in Files /\ ask[r].op = "record"
  BY RecordPath DEF ReadVersions, HistoryInv, Recording
<1>2. /\ at[r] = "record" /\ at'[r] = "append"
      /\ UNCHANGED <<ask, side, kept, crossed>>
      /\ \A x \in Requests \ {r} : at'[x] = at[x] /\ got'[x] = got[x]
      /\ got'[r] = side[ask[r].from]
      /\ sideLock[ask[r].from] = 0
      /\ \A f \in Files : sideLock'[f] = IF f = ask[r].from THEN r ELSE sideLock[f]
  BY <1>1 DEF ReadVersions, HistoryInv, HistoryShape, PatchInv, ContentShape
<1>3. HistoryShape'
  BY <1>1 DEF ReadVersions, HistoryInv, HistoryShape
<1>4. \A f \in Files : InSide(f)' = InSide(f)
  BY <1>2 DEF InSide
<1>5. /\ InGot(r)' = InSide(ask[r].from)
      /\ \A x \in Requests \ {r} : InGot(x)' = InGot(x)
  BY <1>2 DEF InGot, InSide
<1>6. Recording'
  <2>1. ASSUME NEW x \in Requests \ {r}, at'[x] = "append"
        PROVE  /\ sideLock'[ask'[x].from] = x
               /\ \/ got'[x] = side'[ask'[x].from]
                  \/ InSide(ask[x].from)' \cup InGot(x)' \subseteq crossed'
    <3>1. at[x] = "append" /\ ask[x].from \in Files
      BY <1>2, <2>1, RecordPath
    <3>2. sideLock[ask[x].from] = x /\ x # 0
      BY <3>1, ContentAssumption DEF HistoryInv, Recording, Requests
    <3> QED BY <1>2, <1>4, <1>5, <3>1, <3>2 DEF HistoryInv, Recording
  <2> QED BY <1>1, <1>2, <2>1 DEF HistoryInv, Recording
<1>7. Unrecorded'
  BY <1>1, <1>2, <1>4, <1>5 DEF HistoryInv, Unrecorded
<1>8. InOneSide' /\ Found'
  BY <1>2, <1>4 DEF HistoryInv, InOneSide, Found
<1> QED BY <1>3, <1>6, <1>7, <1>8 DEF HistoryInv

LEMMA WithoutLast ==
  ASSUME NEW S, NEW s \in Seq(S), s # <<>>
  PROVE  LET t == SubSeq(s, 1, Len(s) - 1)
         IN /\ t \in Seq(S)
            /\ \A i \in 1..Len(t) : i \in 1..Len(s) /\ t[i] = s[i]
<1> DEFINE n == Len(s) - 1
<1>1. n \in Nat /\ Len(s) = n + 1
  OBVIOUS
<1>2. \A i \in 1..n : i \in 1..Len(s)
  BY <1>1
<1>3. \A i \in 1..n : s[i] \in S
  BY <1>1, <1>2
<1> HIDE DEF n
<1>4. /\ SubSeq(s, 1, n) \in Seq(S)
      /\ Len(SubSeq(s, 1, n)) = IF 1 <= n THEN n - 1 + 1 ELSE 0
      /\ \A i \in 1..n - 1 + 1 : SubSeq(s, 1, n)[i] = s[1 + i - 1]
  BY <1>1, <1>3, SubSeqProperties
<1>5. Len(SubSeq(s, 1, n)) = n /\ \A i \in 1..n : SubSeq(s, 1, n)[i] = s[i]
  BY <1>1, <1>4
<1> QED BY <1>2, <1>4, <1>5 DEF n

LEMMA AppendKeepsHistory ==
  ASSUME HistoryInv, PatchInv', NEW r \in Requests, NEW slide \in BOOLEAN, AppendVersion(r, slide)
  PROVE  HistoryInv'
<1> DEFINE p == ask[r].from
           old == got[r]
           head == IF slide THEN SubSeq(old, 1, Len(old) - 1) ELSE old
           new == Pruned(Append(head, r))
           InNew == {new[i] : i \in DOMAIN new}
<1>1. /\ p \in Files /\ at[r] = "append" /\ sideLock[p] = r
      /\ old = side[p] \/ InSide(p) \cup InGot(r) \subseteq crossed
  BY RecordPath DEF AppendVersion, HistoryInv, Recording
<1>2. r \in Docs /\ old \in Seq(Docs) /\ (slide => old # <<>>)
  BY ContentAssumption DEF AppendVersion, HistoryInv, HistoryShape, Docs, Requests
<1>3. new \in Seq(Docs) /\ r \in InNew /\ InNew \subseteq InGot(r) \cup {r}
  <2>1. head \in Seq(Docs) /\ \A i \in 1..Len(head) : i \in 1..Len(old) /\ head[i] = old[i]
    <3>1. CASE slide
      <4>1. old \in Seq(Docs) /\ old # <<>> /\ head = SubSeq(old, 1, Len(old) - 1)
        BY <1>2, <3>1
      <4> HIDE DEF head, old
      <4> QED BY <4>1, WithoutLast
    <3> QED BY <1>2, <3>1
  <2>2. InGot(r) = {old[i] : i \in 1..Len(old)}
    BY <1>2 DEF InGot
  <2> HIDE DEF head, old
  <2>3. Elements(head) \subseteq InGot(r)
    <3>1. DOMAIN head = 1..Len(head)
      BY <2>1
    <3> QED BY <2>1, <2>2, <3>1 DEF Elements
  <2>4. /\ new \in Seq(Docs) /\ r \in Elements(new)
        /\ Elements(new) \subseteq Elements(head) \cup {r}
    BY <1>2, <2>1, AppendedVersions
  <2>5. InNew = Elements(new)
    BY DEF Elements
  <2> HIDE DEF new, InNew
  <2> QED BY <2>3, <2>4, <2>5
<1>4. /\ side' = [side EXCEPT ![p] = new]
      /\ kept' = (kept \cup {r}) \ (InGot(r) \ InNew)
      /\ crossed' = crossed
      /\ Return(r)
  BY DEF AppendVersion, InGot
<1> HIDE DEF new
<1>5. /\ sideLock' = [f \in Files |-> sideLock'[f]]
      /\ \A f \in Files : sideLock'[f] = IF sideLock[f] = r THEN 0 ELSE sideLock[f]
      /\ got' \in [Requests -> Seq(Docs)]
      /\ got'[r] = <<>> /\ \A q \in Requests \ {r} : got'[q] = got[q]
      /\ at'[r] = "done" /\ \A q \in Requests \ {r} : at'[q] = at[q] /\ ask'[q] = ask[q]
  BY <1>4, ReturnUnlocks
<1>6. HistoryShape'
  BY <1>1, <1>3, <1>4, <1>5 DEF HistoryInv, HistoryShape
<1>7. \A f \in Files : side'[f] = IF f = p THEN new ELSE side[f]
  BY <1>1, <1>4 DEF HistoryInv, HistoryShape
<1>8. \A f \in Files : InSide(f)' = IF f = p THEN InNew ELSE InSide(f)
  BY <1>7 DEF InSide
<1>9. InGot(r)' = {} /\ \A x \in Requests \ {r} : InGot(x)' = InGot(x)
  BY <1>5 DEF InGot
<1>10. InGot(r) = InSide(p) \/ InSide(p) \cup InGot(r) \subseteq crossed
  BY <1>1 DEF InGot, InSide
<1>11. Recording'
  <2>1. ASSUME NEW x \in Requests \ {r}, at'[x] = "append"
        PROVE  /\ sideLock'[ask'[x].from] = x
               /\ \/ got'[x] = side'[ask'[x].from]
                  \/ InSide(ask[x].from)' \cup InGot(x)' \subseteq crossed'
    <3>1. at[x] = "append" /\ ask[x].from \in Files
      BY <1>5, <2>1, RecordPath
    <3>2. sideLock[ask[x].from] = x /\ ask[x].from # p
      BY <1>1, <3>1 DEF HistoryInv, Recording
    <3>3. got[x] = side[ask[x].from] \/ InSide(ask[x].from) \cup InGot(x) \subseteq crossed
      BY <3>1 DEF HistoryInv, Recording
    <3>4. ask'[x] = ask[x] /\ sideLock'[ask[x].from] = x /\ got'[x] = got[x] /\ InGot(x)' = InGot(x)
      <4>1. x # r
        OBVIOUS
      <4> QED BY <1>5, <1>9, <3>1, <3>2, <4>1
    <3>5. side'[ask[x].from] = side[ask[x].from] /\ InSide(ask[x].from)' = InSide(ask[x].from)
      BY <1>7, <1>8, <3>1, <3>2, <3>4
    <3> QED BY <1>4, <3>3, <3>4, <3>5
  <2> QED BY <1>5, <2>1 DEF HistoryInv, Recording
<1>12. Unrecorded'
  <2> SUFFICES ASSUME NEW x \in Requests, at'[x] # "done"
               PROVE  /\ x \notin kept'
                      /\ \A f \in Files : x \notin InSide(f)'
                      /\ \A q \in Requests : x \notin InGot(q)'
    BY DEF Unrecorded
  <2>1. /\ x # r /\ x \notin kept
        /\ \A f \in Files : x \notin InSide(f)
        /\ \A q \in Requests : x \notin InGot(q)
    BY <1>5 DEF HistoryInv, Unrecorded
  <2> QED BY <1>3, <1>4, <1>8, <1>9, <2>1
<1>13. \A f \in Files : r \notin InSide(f)
  BY <1>1 DEF HistoryInv, Unrecorded
<1>14. InOneSide'
  <2> SUFFICES ASSUME NEW f \in Files, NEW g \in Files, NEW v, v \in InSide(f)', v \in InSide(g)', f # g
               PROVE  v \in crossed
    BY <1>4 DEF InOneSide
  <2>1. CASE f # p /\ g # p
    BY <1>8, <2>1 DEF HistoryInv, InOneSide
  <2>2. ASSUME NEW h \in Files, h # p, v \in InSide(h), v \in InNew PROVE v \in crossed
    BY <1>1, <1>3, <1>10, <1>13, <2>2 DEF HistoryInv, InOneSide
  <2> QED BY <1>8, <2>1, <2>2
<1>15. Found'
  <2> SUFFICES ASSUME NEW v \in kept', v \notin crossed
               PROVE  \E f \in Files : v \in InSide(f)'
    BY <1>4 DEF Found
  <2>1. CASE v = r
    BY <1>1, <1>3, <1>8, <2>1
  <2>2. CASE v # r
    <3>1. v \in kept /\ (v \in InGot(r) => v \in InNew)
      BY <1>4, <2>2
    <3>2. PICK f \in Files : v \in InSide(f)
      BY <3>1 DEF HistoryInv, Found
    <3> QED BY <1>1, <1>8, <1>10, <3>1, <3>2
  <2> QED BY <2>1, <2>2
<1> QED BY <1>6, <1>11, <1>12, <1>14, <1>15 DEF HistoryInv

(* What the rest of a handler does: it gives its locks back, or goes on to *)
(* a place that is no record's.                                            *)
LEMMA HandleSideAlone ==
  ASSUME HistoryInv, NEW r \in Requests, Handle(r)
  PROVE  \/ \E p \in Files : MoveSide(r, p)
         \/ ReadVersions(r)
         \/ \E slide \in BOOLEAN : AppendVersion(r, slide)
         \/ /\ UNCHANGED <<side, kept, crossed>>
            /\ \/ Return(r)
               \/ /\ UNCHANGED <<ask, got>>
                  /\ \A q \in Requests \ {r} : at'[q] = at[q]
                  /\ at[r] # "done" /\ at'[r] \notin {"record", "append"}
                  /\ \/ sideLock' = sideLock
                     \/ \E p \in Files : sideLock[p] = 0 /\ sideLock' = [sideLock EXCEPT ![p] = r]
<1> USE DEF HistoryInv, PatchInv, ContentShape
<1>1. CASE GetStructure(r) \/ GetPath(r) \/ GetSecond(r)
  BY <1>1 DEF GetStructure, GetPath, GetSecond, Lock, handlerVars
<1>2. CASE CheckWrite(r) \/ LandWrite(r) \/ Rename(r) \/ ReadPatch(r) \/ LandPatch(r)
  BY <1>2 DEF CheckWrite, LandWrite, Rename, ReadPatch, LandPatch, Does, handlerVars, lockVars
<1>3. CASE ListSides(r) \/ EndRename(r) \/ Copy(r) \/ DeleteFile(r) \/ RemoveFolder(r) \/ SkipVersion(r)
  BY <1>3 DEF ListSides, EndRename, Copy, DeleteFile, RemoveFolder, SkipVersion, handlerVars, lockVars
<1>4. ASSUME NEW p \in Files, CheckMove(r, p) PROVE
         /\ UNCHANGED <<side, kept, crossed, ask, got>>
         /\ \A q \in Requests \ {r} : at'[q] = at[q]
         /\ at[r] # "done" /\ at'[r] \notin {"record", "append"}
         /\ \/ sideLock' = sideLock
            \/ sideLock[p] = 0 /\ sideLock' = [sideLock EXCEPT ![p] = r]
  BY <1>4 DEF CheckMove
<1>5. CASE \E force \in BOOLEAN : CountFolder(r, force)
  BY <1>5 DEF CountFolder, handlerVars, lockVars
<1> QED BY <1>1, <1>2, <1>3, <1>4, <1>5 DEF Handle

(* A handler that returns, or is dropped, leaves the side files as they are. *)
LEMMA ReturnKeepsHistory ==
  ASSUME HistoryInv, PatchInv', NEW r \in Requests, UNCHANGED <<side, kept, crossed>>, Return(r)
  PROVE  HistoryInv'
<1>1. /\ sideLock' = [p \in Files |-> sideLock'[p]]
      /\ \A p \in Files : sideLock'[p] = IF sideLock[p] = r THEN 0 ELSE sideLock[p]
      /\ got' \in [Requests -> Seq(Docs)]
      /\ got'[r] = <<>> /\ \A q \in Requests \ {r} : got'[q] = got[q]
      /\ at'[r] = "done" /\ \A q \in Requests \ {r} : at'[q] = at[q] /\ ask'[q] = ask[q]
  BY ReturnUnlocks
<1>2. HistoryShape'
  BY <1>1 DEF HistoryInv, HistoryShape
<1> QED BY <1>1, <1>2, SideAlone

LEMMA HistoryInvStep == HistoryInv /\ [ContentNext]_contentVars => HistoryInv'
<1> SUFFICES ASSUME HistoryInv, [ContentNext]_contentVars PROVE HistoryInv'
  OBVIOUS
<1>1. PatchInv'
  BY PatchInvStep DEF HistoryInv
<1>2. ASSUME NEW r \in Requests, Handle(r) PROVE HistoryInv'
  <2>1. CASE \/ \E p \in Files : MoveSide(r, p)
             \/ ReadVersions(r)
             \/ \E slide \in BOOLEAN : AppendVersion(r, slide)
    BY <1>1, <2>1, MoveKeepsHistory, ReadKeepsHistory, AppendKeepsHistory
  <2>2. CASE UNCHANGED <<side, kept, crossed>> /\ Return(r)
    BY <1>1, <2>2, ReturnKeepsHistory
  <2>3. CASE /\ UNCHANGED <<side, kept, crossed, ask, got>>
             /\ \A q \in Requests \ {r} : at'[q] = at[q]
             /\ at[r] # "done" /\ at'[r] \notin {"record", "append"}
             /\ \/ sideLock' = sideLock
                \/ \E p \in Files : sideLock[p] = 0 /\ sideLock' = [sideLock EXCEPT ![p] = r]
    <3>1. HistoryShape'
      BY <2>3 DEF HistoryInv, HistoryShape
    <3>2. \A q \in Requests \ {r}, p \in Files : sideLock[p] = q => sideLock'[p] = q
      <4>1. \A q \in Requests : q # 0
        BY ContentAssumption DEF Requests
      <4> QED BY <2>3, <4>1 DEF HistoryInv, HistoryShape
    <3> QED BY <1>1, <2>3, <3>1, <3>2, SideAlone
  <2> QED BY <1>2, <2>1, <2>2, <2>3, HandleSideAlone
<1>3. ASSUME NEW r \in Requests, NEW a \in Asks, Arrive(r, a) PROVE HistoryInv'
  <2>1. /\ UNCHANGED <<side, kept, crossed, got, sideLock>>
        /\ \A q \in Requests \ {r} : at'[q] = at[q] /\ ask'[q] = ask[q]
    BY <1>3 DEF Arrive, ArriveWrite, ArriveRename, ArriveStructural, ArriveRecord, CreateFolder,
       Begin, lockVars, HistoryInv, PatchInv, ContentShape
  <2>2. at'[r] \in {"path", "structure", "record", "done"} /\ (at'[r] = "record" => ask'[r].op = "record")
    BY <1>3 DEF Arrive, ArriveWrite, ArriveRename, ArriveStructural, ArriveRecord, CreateFolder, Begin,
       HistoryInv, PatchInv, ContentShape
  <2>3. at[r] # "done"
    <3>1. r > arrived
      BY <1>3, ContentAssumption DEF Arrive, ArriveWrite, ArriveRename, ArriveStructural, ArriveRecord,
         CreateFolder, Begin, HistoryInv, PatchInv, ContentShape, Requests
    <3> QED BY <3>1 DEF HistoryInv, PatchInv, ContentShape
  <2>4. HistoryShape'
    BY <2>1 DEF HistoryInv, HistoryShape
  <2> QED BY <1>1, <2>1, <2>2, <2>3, <2>4, SideAlone
<1>4. CASE UNCHANGED contentVars
  <2>1. /\ UNCHANGED <<side, got, sideLock, at, ask, kept, crossed>>
    BY <1>4 DEF contentVars, handlerVars, lockVars
  <2>2. (\A p \in Files : InSide(p)' = InSide(p)) /\ \A r \in Requests : InGot(r)' = InGot(r)
    BY <2>1 DEF InSide, InGot
  <2>3. HistoryShape' /\ Unrecorded' /\ InOneSide' /\ Found'
    BY <2>1, <2>2 DEF HistoryInv, HistoryShape, Unrecorded, InOneSide, Found
  <2>4. \A r \in Requests : at[r] = "append" => InSide(ask[r].from)' = InSide(ask[r].from)
    BY <2>1, <2>2, RecordPath
  <2>5. Recording'
    BY <2>1, <2>2, <2>4 DEF HistoryInv, Recording
  <2> QED BY <1>1, <2>3, <2>5 DEF HistoryInv
<1>5. ASSUME NEW r \in Requests, Drop(r) PROVE HistoryInv'
  BY <1>1, <1>5, ReturnKeepsHistory DEF Drop
<1> QED BY <1>2, <1>3, <1>4, <1>5 DEF ContentNext

(* A version that was answered for is in exactly one side file, whatever   *)
(* is renamed and recorded at once, unless a move crossed a record at its  *)
(* target (record(), try_move_side_file(), history.rs).                    *)
THEOREM HistoryKeptOnce == ContentSpec => []HistoryOnce
<1>1. HistoryInv => HistoryOnce
  BY DEF HistoryInv, InOneSide, Found, HistoryOnce
<1> QED BY HistoryStarts, HistoryInvStep, <1>1, PTL DEF ContentSpec

-------------------------------------------------------------------------------
(* Types of the content store. *)

ContentInv == HistoryInv /\ ContentTypeOK

LEMMA ContentTypesStart == ContentInit => ContentTypeOK
<1> SUFFICES ASSUME ContentInit PROVE ContentTypeOK
  OBVIOUS
<1> USE ContentAssumption DEF ContentInit
<1>1. file \in [Files -> Contents \cup {None}] /\ dirs \subseteq Dirs
  <2>1. [doc |-> 0, by |-> 0] \in Contents
    BY DEF Contents, Docs
  <2>2. file \in [Files -> Contents \cup {None}]
    BY <2>1
  <2>3. Placed \in Files /\ Home(Placed) \in Dirs
    BY DEF Files, Home, Dirs
  <2> QED BY <2>2, <2>3
<1>2. side \in [Files -> Seq(Docs)] /\ got \in [Requests -> Seq(Docs)]
  BY HistoryStarts DEF HistoryInv, HistoryShape
<1>7. \A p \in Files : Len(side[p]) <= MaxVersions
  OBVIOUS
<1>3. /\ arrived \in 0..MaxRequests
      /\ ask \in [Requests -> Asks \cup {None}]
      /\ \A r \in Requests : at[r] = "new" <=> r > arrived
  BY DEF Requests
<1>4. /\ structureLock \in 0..MaxRequests
      /\ pathLock \in [Paths -> 0..MaxRequests]
      /\ sideLock \in [Files -> 0..MaxRequests]
  OBVIOUS
<1>5. /\ about \in [Requests -> Docs \cup {None}]
      /\ base \in [Requests -> Contents \cup {None}]
      /\ todo \in [Requests -> SUBSET Files]
  OBVIOUS
<1>6. swept \subseteq Requests /\ doubled \subseteq Docs /\ kept \subseteq Docs /\ crossed \subseteq Docs
  BY DEF Docs
<1> QED BY <1>1, <1>2, <1>3, <1>4, <1>5, <1>6, <1>7 DEF ContentTypeOK

LEMMA DocAtType ==
  ASSUME ContentTypeOK, NEW p \in Paths PROVE DocAt(p) \in Docs \cup {None}
<1>1. CASE p \in Files
  BY <1>1 DEF DocAt, Exists, IsDir, Files, ContentTypeOK, Contents
<1>2. CASE p \notin Files
  BY <1>2 DEF DocAt, IsDir, Paths, Dirs
<1> QED BY <1>1, <1>2

LEMMA ArriveTypes ==
  ASSUME ContentInv, HistoryInv', NEW r \in Requests, NEW a \in Asks, Arrive(r, a)
  PROVE  ContentTypeOK'
<1> USE ContentAssumption DEF ContentInv, ContentTypeOK
<1>1. Begin(r, a, "path") \/ Begin(r, a, "structure") \/ Begin(r, a, "done") \/ Begin(r, a, "record")
  BY DEF Arrive, ArriveWrite, ArriveRename, ArriveStructural, ArriveRecord, CreateFolder
<1>2. /\ file' \in [Files -> Contents \cup {None}]
      /\ side' \in [Files -> Seq(Docs)] /\ got' \in [Requests -> Seq(Docs)]
      /\ \A p \in Files : Len(side'[p]) <= MaxVersions
      /\ structureLock' \in 0..MaxRequests
      /\ pathLock' \in [Paths -> 0..MaxRequests]
      /\ sideLock' \in [Files -> 0..MaxRequests]
      /\ base' \in [Requests -> Contents \cup {None}]
      /\ todo' \in [Requests -> SUBSET Files]
      /\ swept' \subseteq Requests /\ doubled' \subseteq Docs /\ kept' \subseteq Docs /\ crossed' \subseteq Docs
      /\ arrived' = r /\ r = arrived + 1
  BY <1>1 DEF Begin, lockVars
<1>3. ask' \in [Requests -> Asks \cup {None}]
  BY <1>1 DEF Begin
<1>4. \A x \in Requests : at'[x] = "new" <=> x > arrived'
  <2>1. at'[r] # "new" /\ \A x \in Requests \ {r} : at'[x] = at[x]
    BY <1>1 DEF Begin, HistoryInv, PatchInv, ContentShape
  <2>2. \A x \in Requests \ {r} : x > arrived' <=> x > arrived
    <3>1. arrived \in Nat /\ r \in Nat /\ arrived' = r /\ r = arrived + 1
      BY <1>2 DEF Requests
    <3> QED BY <3>1 DEF Requests
  <2>3. ~(r > arrived')
    BY <1>2 DEF Requests
  <2> QED BY <2>1, <2>2, <2>3
<1>5. arrived' \in 0..MaxRequests
  BY <1>2 DEF Requests
<1>6. a.from \in Paths /\ a.to \in Paths
  OBVIOUS
<1>7. about' \in [Requests -> Docs \cup {None}]
  <2>1. about' = about \/ about' = [about EXCEPT ![r] = DocAt(a.from)]
    BY DEF Arrive, ArriveWrite, ArriveRename, ArriveStructural, ArriveRecord, CreateFolder
  <2>2. DocAt(a.from) \in Docs \cup {None}
    BY <1>6, DocAtType
  <2> QED BY <2>1, <2>2
<1>8. dirs' \subseteq Dirs
  <2>1. \A p \in Files : Home(p) \in Dirs
    BY DEF Home, Files, Dirs
  <2>2. Parents(a.to) \subseteq Dirs
    <3>1. CASE a.to \in Files
      BY <2>1, <3>1 DEF Parents
    <3>2. CASE a.to \in Dirs
      BY <3>2 DEF Parents, IsDir, Dirs
    <3> QED BY <1>6, <3>1, <3>2 DEF Paths
  <2> QED BY <2>1, <2>2 DEF Arrive, ArriveWrite, ArriveRename, ArriveStructural, ArriveRecord, CreateFolder
<1> QED BY <1>2, <1>3, <1>4, <1>5, <1>7, <1>8

(* What a returning handler leaves behind has its type. *)
LEMMA ReturnTypes ==
  ASSUME ContentInv, NEW r \in Requests, Return(r), at[r] # "new"
  PROVE  /\ structureLock' \in 0..MaxRequests
         /\ pathLock' \in [Paths -> 0..MaxRequests]
         /\ sideLock' \in [Files -> 0..MaxRequests]
         /\ about' \in [Requests -> Docs \cup {None}]
         /\ base' \in [Requests -> Contents \cup {None}]
         /\ todo' \in [Requests -> SUBSET Files]
         /\ arrived' \in 0..MaxRequests
         /\ ask' \in [Requests -> Asks \cup {None}]
         /\ \A x \in Requests : at'[x] = "new" <=> x > arrived'
<1> USE ContentAssumption DEF ContentInv, ContentTypeOK, Return
<1>1. 0 \in 0..MaxRequests
  OBVIOUS
<1>2. pathLock' \in [Paths -> 0..MaxRequests] /\ sideLock' \in [Files -> 0..MaxRequests]
  BY <1>1 DEF Unlocked
<1>3. \A x \in Requests : at'[x] = "new" <=> x > arrived'
  BY DEF HistoryInv, PatchInv, ContentShape
<1> QED BY <1>1, <1>2, <1>3

(* A handler that goes on. *)
LEMMA GoOnTypes ==
  ASSUME ContentInv, NEW r \in Requests, at[r] # "new", NEW where, where # "new",
         at' = [at EXCEPT ![r] = where], arrived' = arrived, ask' = ask
  PROVE  /\ arrived' \in 0..MaxRequests
         /\ ask' \in [Requests -> Asks \cup {None}]
         /\ \A x \in Requests : at'[x] = "new" <=> x > arrived'
  BY DEF ContentInv, ContentTypeOK, HistoryInv, PatchInv, ContentShape

FilesCopied(from, to) ==
  [q \in Files |-> IF \E p \in Inside(from) : Moved(p, from, to) = q
                   THEN file[CHOOSE p \in Inside(from) : Moved(p, from, to) = q]
                   ELSE file[q]]

(* What a folder's files become when it is moved or copied. *)
LEMMA MovedTypes ==
  ASSUME ContentInv, NEW from \in Paths, NEW to
  PROVE  /\ FilesMoved(from, to) \in [Files -> Contents \cup {None}]
         /\ FilesCopied(from, to) \in [Files -> Contents \cup {None}]
<1>1. Inside(from) \subseteq Files
  BY DEF Inside, FilesIn, Paths, Dirs, IsDir
<1>2. ASSUME NEW q \in Files, \E p \in Inside(from) : Moved(p, from, to) = q
      PROVE  file[CHOOSE p \in Inside(from) : Moved(p, from, to) = q] \in Contents \cup {None}
  <2>1. (CHOOSE p \in Inside(from) : Moved(p, from, to) = q) \in Inside(from)
    BY <1>2
  <2> QED BY <1>1, <2>1 DEF ContentInv, ContentTypeOK
<1>3. \A q \in Files : file[q] \in Contents \cup {None}
  BY DEF ContentInv, ContentTypeOK
<1> QED BY <1>2, <1>3 DEF FilesMoved, FilesCopied

LEMMA FileIsNoDir == \A p \in Files : ~IsDir(p)
  BY DEF IsDir, Files

(* No side file grows beyond its bound: a record prunes what it writes. *)
LEMMA SidesStayBounded ==
  ASSUME ContentInv, NEW r \in Requests, Handle(r)
  PROVE  \A p \in Files : Len(side'[p]) <= MaxVersions
<1> USE DEF ContentInv, ContentTypeOK
<1>1. ASSUME NEW p \in Files, MoveSide(r, p) PROVE \A f \in Files : Len(side'[f]) <= MaxVersions
  <2>1. side' = [side EXCEPT ![Target(r, p)] = side[p], ![p] = <<>>]
    BY <1>1 DEF MoveSide
  <2>2. Len(<<>>) <= MaxVersions
    BY ContentAssumption
  <2> QED BY <2>1, <2>2
<1>2. ASSUME NEW slide \in BOOLEAN, AppendVersion(r, slide)
      PROVE  \A f \in Files : Len(side'[f]) <= MaxVersions
  <2> DEFINE old == got[r]
             head == IF slide THEN SubSeq(old, 1, Len(old) - 1) ELSE old
             new == Pruned(Append(head, r))
  <2>1. r \in Docs /\ old \in Seq(Docs) /\ (slide => old # <<>>)
    BY <1>2, ContentAssumption DEF AppendVersion, Docs, Requests
  <2>2. head \in Seq(Docs)
    <3>1. CASE slide
      <4>1. old \in Seq(Docs) /\ old # <<>> /\ head = SubSeq(old, 1, Len(old) - 1)
        BY <2>1, <3>1
      <4> HIDE DEF head, old
      <4> QED BY <4>1, WithoutLast
    <3> QED BY <2>1, <3>1
  <2>3. side' = [side EXCEPT ![ask[r].from] = new]
    BY <1>2 DEF AppendVersion
  <2> HIDE DEF head, old
  <2>4. Len(new) <= MaxVersions
    BY <2>1, <2>2, AppendedVersions
  <2> HIDE DEF new
  <2> QED BY <2>3, <2>4
<1>3. ReadVersions(r) => side' = side
  BY DEF ReadVersions
<1> QED BY <1>1, <1>2, <1>3, HandleSideAlone

LEMMA HandleTypes ==
  ASSUME ContentInv, HistoryInv', NEW r \in Requests, Handle(r)
  PROVE  ContentTypeOK'
<1> USE DEF ContentInv, ContentTypeOK
<1> DEFINE FilesTyped == file' \in [Files -> Contents \cup {None}] /\ dirs' \subseteq Dirs
           NotesTyped == swept' \subseteq Requests /\ doubled' \subseteq Docs /\ kept' \subseteq Docs
                         /\ crossed' \subseteq Docs
           PlaceTyped == /\ arrived' \in 0..MaxRequests
                         /\ ask' \in [Requests -> Asks \cup {None}]
                         /\ \A x \in Requests : at'[x] = "new" <=> x > arrived'
           HandlerTyped == /\ about' \in [Requests -> Docs \cup {None}]
                           /\ base' \in [Requests -> Contents \cup {None}]
                           /\ todo' \in [Requests -> SUBSET Files]
           LockListsTyped == /\ structureLock' \in 0..MaxRequests
                         /\ pathLock' \in [Paths -> 0..MaxRequests]
                         /\ sideLock' \in [Files -> 0..MaxRequests]
<1>1. /\ side' \in [Files -> Seq(Docs)] /\ got' \in [Requests -> Seq(Docs)]
      /\ \A p \in Files : Len(side'[p]) <= MaxVersions
  BY SidesStayBounded DEF HistoryInv, HistoryShape
<1>2. at[r] \notin {"new", "done"}
        => /\ ask[r] \in Asks /\ ask[r].from \in Paths /\ ask[r].to \in Paths
           /\ (ask[r].from \in Files <=> ask[r].to \in Files)
           /\ (ask[r].op = "patch" => ask[r].from \in Files)
           /\ (ask[r].op = "write" => ask[r].from \in Files)
  BY ContentAssumption DEF HistoryInv, PatchInv, ContentShape
<1>3. r \in 0..MaxRequests /\ r \in Docs /\ 0 \in 0..MaxRequests
  BY ContentAssumption DEF Requests, Docs
<1>4. Return(r) /\ at[r] # "new" => LockListsTyped /\ HandlerTyped /\ PlaceTyped
  BY ReturnTypes
<1>5. ASSUME at[r] # "new", NEW where, where # "new", at' = [at EXCEPT ![r] = where], arrived' = arrived, ask' = ask
      PROVE PlaceTyped
  BY <1>5, GoOnTypes
<1>6. at' = at /\ arrived' = arrived /\ ask' = ask => PlaceTyped
  OBVIOUS
<1>7. UNCHANGED <<swept, doubled, kept, crossed>> => NotesTyped
  OBVIOUS
<1>8. UNCHANGED <<file, dirs>> => FilesTyped
  OBVIOUS
<1>9. ASSUME NEW p \in Paths, NEW where, Lock(r, p, where), at[r] \notin {"new", "done"}, where # "new" PROVE ContentTypeOK'
  <2>1. PlaceTyped
    BY <1>5, <1>9 DEF Lock, handlerVars
  <2>2. LockListsTyped
    BY <1>3, <1>9 DEF Lock
  <2> QED BY <1>1, <1>9, <2>1, <2>2 DEF Lock, handlerVars
<1>10. FilesTyped /\ NotesTyped /\ PlaceTyped /\ HandlerTyped /\ LockListsTyped => ContentTypeOK'
  BY <1>1
<1>11. at[r] \notin {"new", "done"} => FirstPath(r) \in Paths /\ SecondPath(r) \in Paths
  BY <1>2 DEF FirstPath, SecondPath
<1>12. UNCHANGED handlerVars => HandlerTyped
  BY DEF handlerVars
<1>13. UNCHANGED lockVars => LockListsTyped
  BY DEF lockVars
<1>14. CASE GetStructure(r)
  <2>1. PlaceTyped
    BY <1>5, <1>14 DEF GetStructure, handlerVars
  <2> QED BY <1>3, <1>8, <1>7, <1>10, <1>12, <1>14, <2>1 DEF GetStructure
<1>15. CASE GetPath(r) \/ GetSecond(r)
  BY <1>9, <1>11, <1>15 DEF GetPath, GetSecond
<1>16. CASE CheckWrite(r)
  <2>1. at[r] \notin {"new", "done"} /\ FilesTyped
    BY <1>16 DEF CheckWrite, Does
  <2>2. NotesTyped
    BY <1>16 DEF CheckWrite
  <2>3. CASE Return(r)
    BY <1>4, <1>10, <2>1, <2>2, <2>3
  <2>4. CASE ~Return(r)
    <3>1. at' = [at EXCEPT ![r] = "land"] /\ UNCHANGED <<arrived, handlerVars, lockVars>>
      BY <1>16, <2>4 DEF CheckWrite
    <3>2. PlaceTyped
      BY <1>5, <2>1, <3>1 DEF handlerVars
    <3> QED BY <1>10, <1>12, <1>13, <2>1, <2>2, <3>1, <3>2
  <2> QED BY <2>3, <2>4
<1>17. CASE LandWrite(r)
  <2>1. at[r] \notin {"new", "done"} /\ Return(r)
    BY <1>17 DEF LandWrite, Does
  <2>2. NotesTyped
    BY <1>17 DEF LandWrite
  <2>3. [doc |-> IF about[r] = None THEN r ELSE about[r], by |-> r] \in Contents
    BY <1>3 DEF Contents
  <2>4. FilesTyped
    <3> DEFINE written == [doc |-> IF about[r] = None THEN r ELSE about[r], by |-> r]
    <3>1. dirs' = dirs /\ (file' = file \/ file' = [file EXCEPT ![ask[r].from] = written])
      BY <1>17 DEF LandWrite
    <3> HIDE DEF written
    <3>2. written \in Contents
      BY <2>3 DEF written
    <3> QED BY <3>1, <3>2
  <2> QED BY <1>4, <1>10, <2>1, <2>2, <2>4
<1>18. CASE Rename(r)
  <2>1. at[r] \notin {"new", "done"}
    BY <1>18 DEF Rename, Does
  <2>2. FilesTyped
    <3>1. FilesMoved(ask[r].from, ask[r].to) \in [Files -> Contents \cup {None}]
      BY <1>2, <2>1, MovedTypes
    <3>2. IsDir(ask[r].from) => ask[r].to \in Dirs
      BY <1>2, <2>1, FileIsNoDir DEF Paths
    <3> QED BY <1>18, <3>1, <3>2 DEF Rename
  <2>3. NotesTyped
    BY <1>18 DEF Rename, Landing
  <2>4. CASE Return(r)
    BY <1>4, <1>10, <2>1, <2>2, <2>3, <2>4
  <2>5. CASE ~Return(r)
    <3>1. /\ at' = [at EXCEPT ![r] = "list"]
          /\ pathLock' = Unlocked(pathLock, r)
          /\ UNCHANGED <<arrived, handlerVars, structureLock, sideLock>>
      BY <1>18, <2>5 DEF Rename
    <3>2. PlaceTyped
      BY <1>5, <2>1, <3>1 DEF handlerVars
    <3>3. LockListsTyped
      BY <1>3, <3>1 DEF Unlocked
    <3> QED BY <1>10, <1>12, <2>2, <2>3, <3>1, <3>2, <3>3
  <2> QED BY <2>4, <2>5
<1>19. CASE ListSides(r)
  <2>1. at[r] \notin {"new", "done"} /\ PlaceTyped
    BY <1>5, <1>19 DEF ListSides
  <2>2. (IF IsDir(ask[r].from) THEN {p \in FilesIn(ask[r].from) : side[p] # <<>>} ELSE {ask[r].from}) \subseteq Files
    BY <1>2, <2>1 DEF IsDir, Files, Paths, Dirs, FilesIn
  <2>3. HandlerTyped
    BY <1>19, <2>2 DEF ListSides
  <2> QED BY <1>7, <1>8, <1>10, <1>13, <1>19, <2>1, <2>3 DEF ListSides
<1>20. ASSUME NEW p \in Files, CheckMove(r, p) PROVE ContentTypeOK'
  <2>1. PlaceTyped
    BY <1>5, <1>6, <1>20 DEF CheckMove
  <2>2. HandlerTyped
    <3>1. /\ UNCHANGED <<about, base>>
          /\ todo' = todo \/ todo' = [todo EXCEPT ![r] = @ \ {p}]
      BY <1>20 DEF CheckMove
    <3> QED BY <3>1
  <2>3. LockListsTyped
    <3>1. /\ sideLock' = sideLock \/ sideLock' = [sideLock EXCEPT ![p] = r]
          /\ UNCHANGED <<structureLock, pathLock>>
      BY <1>20 DEF CheckMove
    <3> QED BY <1>3, <3>1
  <2> QED BY <1>7, <1>8, <1>10, <1>20, <2>1, <2>2, <2>3 DEF CheckMove
<1>21. ASSUME NEW p \in Files, MoveSide(r, p) PROVE ContentTypeOK'
  <2>1. PlaceTyped
    BY <1>5, <1>21 DEF MoveSide
  <2>2. HandlerTyped
    BY <1>21 DEF MoveSide
  <2>3. LockListsTyped
    BY <1>3, <1>21 DEF MoveSide
  <2>4. Target(r, p) \in Files
    BY <1>21, TargetIsFile DEF MoveSide, HistoryInv
  <2>5. \A f \in Files : InSide(f) \subseteq Docs
    BY DEF InSide
  <2>6. NotesTyped
    BY <1>21, <2>4, <2>5 DEF MoveSide
  <2> QED BY <1>8, <1>10, <1>21, <2>1, <2>2, <2>3, <2>6 DEF MoveSide
<1>22. CASE EndRename(r) \/ SkipVersion(r)
  <2>1. at[r] \notin {"new", "done"} /\ Return(r)
    BY <1>22 DEF EndRename, SkipVersion
  <2> QED BY <1>4, <1>7, <1>8, <1>10, <1>22, <2>1 DEF EndRename, SkipVersion
<1>23. CASE Copy(r)
  <2>1. at[r] \notin {"new", "done"} /\ Return(r)
    BY <1>23 DEF Copy, Does
  <2>2. Inside(ask[r].from) \subseteq Files
    BY <1>2, <2>1 DEF Inside, FilesIn, Paths, Dirs, IsDir
  <2>3. FilesTyped
    <3>1. (IF IsDir(ask[r].to) THEN {ask[r].to} ELSE {Home(ask[r].to)}) \subseteq Dirs
      <4>1. CASE ask[r].to \in Files
        BY <4>1 DEF IsDir, Files, Home, Dirs
      <4>2. CASE ask[r].to \in Dirs
        BY <4>2 DEF IsDir, Dirs
      <4> QED BY <1>2, <2>1, <4>1, <4>2 DEF Paths
    <3>2. /\ file' \in [Files -> Contents \cup {None}] \/ file' = file
          /\ \/ dirs' = dirs
             \/ dirs' = dirs \cup (IF IsDir(ask[r].to) THEN {ask[r].to} ELSE {Home(ask[r].to)})
      <4>1. FilesCopied(ask[r].from, ask[r].to) \in [Files -> Contents \cup {None}]
        BY <1>2, <2>1, MovedTypes
      <4>2. file' = file \/ file' = FilesCopied(ask[r].from, ask[r].to)
        BY <1>23 DEF Copy, FilesCopied
      <4>3. \/ dirs' = dirs
            \/ dirs' = dirs \cup (IF IsDir(ask[r].to) THEN {ask[r].to} ELSE {Home(ask[r].to)})
        BY <1>23 DEF Copy
      <4> QED BY <4>1, <4>2, <4>3
    <3> QED BY <3>1, <3>2
  <2>4. NotesTyped
    <3>1. {file[p].doc : p \in {q \in Inside(ask[r].from) : file[q] # None}} \subseteq Docs
      BY <2>2 DEF Contents
    <3> QED BY <1>23, <3>1 DEF Copy
  <2> QED BY <1>4, <1>10, <2>1, <2>3, <2>4
<1>24. CASE DeleteFile(r)
  <2>1. at[r] \notin {"new", "done"} /\ Return(r) /\ FilesTyped /\ NotesTyped
    BY <1>24 DEF DeleteFile, Does
  <2> QED BY <1>4, <1>10, <2>1
<1>25. ASSUME NEW force \in BOOLEAN, CountFolder(r, force) PROVE ContentTypeOK'
  <2>1. at[r] \notin {"new", "done"} /\ FilesTyped /\ NotesTyped
    BY <1>25 DEF CountFolder
  <2>2. CASE Return(r)
    BY <1>4, <1>10, <2>1, <2>2
  <2>3. CASE ~Return(r)
    <3>1. /\ at' = [at EXCEPT ![r] = IF Empty(ask[r].from) THEN "removeEmpty" ELSE "removeAll"]
          /\ UNCHANGED <<arrived, handlerVars, lockVars>>
      BY <1>25, <2>3 DEF CountFolder
    <3>2. PlaceTyped
      BY <1>5, <2>1, <3>1 DEF handlerVars
    <3> QED BY <1>10, <1>12, <1>13, <2>1, <3>1, <3>2
  <2> QED BY <2>2, <2>3
<1>26. CASE RemoveFolder(r)
  <2>1. at[r] \notin {"new", "done"} /\ Return(r)
    BY <1>26 DEF RemoveFolder
  <2>2. FilesTyped /\ NotesTyped
    BY <1>26 DEF RemoveFolder, Landing
  <2> QED BY <1>4, <1>10, <2>1, <2>2
<1>27. CASE ReadPatch(r)
  <2>1. at[r] \notin {"new", "done"} /\ FilesTyped /\ NotesTyped /\ ask[r].op = "patch"
    BY <1>27 DEF ReadPatch, Does
  <2>2. CASE Return(r)
    BY <1>4, <1>10, <2>1, <2>2
  <2>3. CASE ~Return(r)
    <3>1. /\ base' = [base EXCEPT ![r] = file[ask[r].from]]
          /\ at' = [at EXCEPT ![r] = IF ask[r].to = ask[r].from THEN "land" ELSE "second"]
          /\ UNCHANGED <<arrived, ask, about, got, todo, lockVars>>
      BY <1>27, <2>3 DEF ReadPatch
    <3>2. PlaceTyped
      BY <1>5, <2>1, <3>1
    <3>3. HandlerTyped
      BY <1>2, <2>1, <3>1
    <3> QED BY <1>10, <1>13, <2>1, <3>1, <3>2, <3>3
  <2> QED BY <2>2, <2>3
<1>28. CASE LandPatch(r)
  <2>1. at[r] \notin {"new", "done"} /\ Return(r) /\ Patching(r)
    BY <1>28 DEF LandPatch, Does, Patching
  <2>2. base[r] \in Contents
    BY <2>1 DEF HistoryInv, PatchInv
  <2>3. [doc |-> base[r].doc, by |-> r] \in Contents
    BY <1>3, <2>2 DEF Contents
  <2>4. FilesTyped /\ NotesTyped
    <3> DEFINE merged == [doc |-> base[r].doc, by |-> r]
    <3>1. /\ UNCHANGED <<dirs, swept, doubled, kept, crossed>>
          /\ \/ file' = file
             \/ file' = [p \in Files |-> IF p = ask[r].to THEN merged
                                        ELSE IF p = ask[r].from THEN None ELSE file[p]]
      BY <1>28 DEF LandPatch
    <3> HIDE DEF merged
    <3>2. merged \in Contents
      BY <2>3 DEF merged
    <3> QED BY <3>1, <3>2
  <2> QED BY <1>4, <1>10, <2>1, <2>4
<1>29. CASE ReadVersions(r)
  <2>1. PlaceTyped
    BY <1>5, <1>29 DEF ReadVersions
  <2>2. HandlerTyped /\ LockListsTyped
    BY <1>3, <1>29 DEF ReadVersions
  <2> QED BY <1>7, <1>8, <1>10, <1>29, <2>1, <2>2 DEF ReadVersions
<1>30. ASSUME NEW slide \in BOOLEAN, AppendVersion(r, slide) PROVE ContentTypeOK'
  <2>1. at[r] \notin {"new", "done"} /\ Return(r) /\ FilesTyped /\ NotesTyped
    BY <1>3, <1>30 DEF AppendVersion
  <2> QED BY <1>4, <1>10, <2>1
<1> QED BY <1>14, <1>15, <1>16, <1>17, <1>18, <1>19, <1>20, <1>21, <1>22, <1>23, <1>24, <1>25,
           <1>26, <1>27, <1>28, <1>29, <1>30 DEF Handle

LEMMA DropTypes ==
  ASSUME ContentInv, HistoryInv', NEW r \in Requests, Drop(r)
  PROVE  ContentTypeOK'
<1>1. /\ Return(r) /\ at[r] \notin {"new", "done"}
      /\ UNCHANGED <<file, dirs, side, swept, doubled, kept, crossed>>
  BY DEF Drop
<1> QED BY <1>1, ReturnTypes DEF ContentInv, ContentTypeOK, HistoryInv, HistoryShape

LEMMA ContentInvStep == ContentInv /\ [ContentNext]_contentVars => ContentInv'
<1> SUFFICES ASSUME ContentInv, [ContentNext]_contentVars PROVE ContentInv'
  OBVIOUS
<1>1. HistoryInv'
  BY HistoryInvStep DEF ContentInv
<1>2. UNCHANGED contentVars => ContentTypeOK'
  BY DEF contentVars, handlerVars, lockVars, ContentInv, ContentTypeOK
<1> QED BY <1>1, <1>2, ArriveTypes, HandleTypes, DropTypes DEF ContentInv, ContentNext

(* Types of the content store, for any requests, folders and files.        *)
THEOREM ContentTyped == ContentSpec => []ContentTypeOK
<1>1. ContentInit => ContentInv
  BY HistoryStarts, ContentTypesStart DEF ContentInv
<1>2. ContentInv => ContentTypeOK
  BY DEF ContentInv
<1> QED BY ContentInvStep, <1>1, <1>2, PTL DEF ContentSpec

===============================================================================
