----------------------------- MODULE ServiceProofs -----------------------------
(***************************************************************************)
(* Proofs about the calls from plugin to plugin, ServiceCalls, and the     *)
(* directory they are routed by, ServiceDirectory.                         *)
(***************************************************************************)
EXTENDS ServiceCalls, ServiceDirectory, TLAPS

(* Who has a call, and in which sessions.                                  *)
CallersKnown ==
  /\ \A p \in open : session[p] >= 1
  /\ \A c \in ServiceCall : stage[c] # "none" => caller[c] \in Partners /\ asker[c] >= 1
  /\ \A c \in booked : /\ stage[c] \in {"booked", "wait"}
                       /\ provider[c] \in open \cup sweeping

(* A call whose asker did not end in the middle of a step is in the        *)
(* session that asked it: while a thread works on it, and by its token     *)
(* while it waits.  A call whose asker did not end before the booking is   *)
(* in that session, or the sweep finds it.                                 *)
AskersKept ==
  /\ \A c \in ServiceCall \ slipped : Midstep(c) => asker[c] = Token(caller[c])
  /\ \A c \in ServiceCall \ slipped : stage[c] = "wait" => tokenOf[c] = asker[c]
  /\ \A c \in ServiceCall \ unswept :
       c \in booked \/ stage[c] = "routed"
         => asker[c] = Token(caller[c]) \/ (c \in booked /\ caller[c] \in sweeping)

CallsInv == CallsTypeOK /\ CallersKnown /\ AskersKept /\ AnswersOwn

LEMMA CallsStart == CallsInit => CallsInv
  BY CallsAssumption DEF CallsInit, CallsInv, CallsTypeOK, CallersKnown, AskersKept, AnswersOwn,
     Midstep, ServiceCall

-------------------------------------------------------------------------------
(* The steps of sessions. *)

LEMMA OpenSessionKeeps ==
  ASSUME CallsInv, NEW p \in Partners, OpenSession(p) PROVE CallsInv'
<1> USE CallsAssumption DEF OpenSession, partyVars, peopleVars
<1>1. CallsTypeOK'
  BY DEF CallsInv, CallsTypeOK
<1>2. CallersKnown'
  BY DEF CallsInv, CallsTypeOK, CallersKnown, ServiceCall
<1>3. \A q \in Partners : q # p => Token(q)' = Token(q)
  BY DEF CallsInv, CallsTypeOK, Token
<1>4. Token(p) = 0
  BY DEF Token
<1>5. \A c \in ServiceCall : stage[c] # "none" => asker[c] # 0
  BY DEF CallsInv, CallersKnown, CallsTypeOK
<1>6. AskersKept'
  <2>1. \A c \in ServiceCall \ slipped' : Midstep(c)' => asker'[c] = Token(caller[c])'
    BY <1>3, <1>4, <1>5 DEF CallsInv, AskersKept, CallersKnown, Midstep
  <2>2. \A c \in ServiceCall \ unswept' :
          c \in booked' \/ stage'[c] = "routed"
            => asker'[c] = Token(caller[c])' \/ (c \in booked' /\ caller'[c] \in sweeping')
    BY <1>3, <1>4, <1>5 DEF CallsInv, AskersKept, CallersKnown, CallsTypeOK
  <2> QED BY <2>1, <2>2 DEF CallsInv, AskersKept
<1> QED BY <1>1, <1>2, <1>6 DEF CallsInv, AnswersOwn

LEMMA CloseSessionKeeps ==
  ASSUME CallsInv, NEW p \in Partners, CloseSession(p) PROVE CallsInv'
<1> USE DEF CloseSession, partyVars, peopleVars
<1>1. CallsTypeOK'
  BY DEF CallsInv, CallsTypeOK, Midstep
<1>2. CallersKnown'
  BY DEF CallsInv, CallsTypeOK, CallersKnown
<1>3. \A q \in Partners : q # p => Token(q)' = Token(q)
  BY DEF CallsInv, CallsTypeOK, Token
<1>4. AskersKept'
  BY <1>3 DEF CallsInv, CallsTypeOK, CallersKnown, AskersKept, Midstep
<1> QED BY <1>1, <1>2, <1>4 DEF CallsInv, AnswersOwn

LEMMA FailCallsKeeps ==
  ASSUME CallsInv, NEW p \in Partners, FailCalls(p) PROVE CallsInv'
<1> USE DEF FailCalls, peopleVars
<1>1. CallsTypeOK'
  BY DEF CallsInv, CallsTypeOK
<1>2. CallersKnown'
  BY DEF CallsInv, CallersKnown
<1>3. AskersKept'
  BY DEF CallsInv, CallersKnown, AskersKept, Midstep, Token
<1> QED BY <1>1, <1>2, <1>3 DEF CallsInv, AnswersOwn

-------------------------------------------------------------------------------
(* The steps of calls. *)

LEMMA AskKeeps ==
  ASSUME CallsInv, NEW c \in ServiceCall, NEW p \in Partners, NEW q \in Partners, Ask(c, p, q)
  PROVE  CallsInv'
<1> USE DEF Ask, To, partyVars
<1>1. CallsTypeOK'
  BY DEF CallsInv, CallsTypeOK
<1>2. CallersKnown'
  BY DEF CallsInv, CallsTypeOK, CallersKnown
<1>3. c \notin booked
  BY DEF CallsInv, CallersKnown
<1>4. AskersKept'
  BY <1>3 DEF CallsInv, CallsTypeOK, AskersKept, Midstep, Token
<1> QED BY <1>1, <1>2, <1>4 DEF CallsInv, AnswersOwn

LEMMA BookKeeps ==
  ASSUME CallsInv, NEW c \in ServiceCall, Book(c) PROVE CallsInv'
<1> USE DEF Book, To, partyVars, peopleVars
<1>1. CallsTypeOK'
  BY DEF CallsInv, CallsTypeOK
<1>2. CallersKnown'
  BY DEF CallsInv, CallsTypeOK, CallersKnown
<1>3. AskersKept'
  BY DEF CallsInv, CallsTypeOK, AskersKept, Midstep, Token
<1> QED BY <1>1, <1>2, <1>3 DEF CallsInv, AnswersOwn

LEMMA DispatchKeeps ==
  ASSUME CallsInv, NEW c \in ServiceCall, Dispatch(c) PROVE CallsInv'
<1> USE CallsAssumption DEF Dispatch, To, partyVars, peopleVars
<1>1. CallsTypeOK'
  BY DEF CallsInv, CallsTypeOK, CallersKnown, Token
<1>2. CallersKnown'
  BY DEF CallsInv, CallsTypeOK, CallersKnown
<1>3. AskersKept'
  BY DEF CallsInv, CallsTypeOK, AskersKept, Midstep, Token
<1> QED BY <1>1, <1>2, <1>3 DEF CallsInv, AnswersOwn

LEMMA ResolveKeeps ==
  ASSUME CallsInv, NEW c \in ServiceCall, Resolve(c) PROVE CallsInv'
<1> USE DEF Resolve, partyVars, peopleVars
<1>1. CallsTypeOK' /\ CallersKnown'
  BY DEF CallsInv, CallsTypeOK, CallersKnown
<1>2. AskersKept'
  BY DEF CallsInv, AskersKept, Midstep, Token
<1> QED BY <1>1, <1>2 DEF CallsInv, AnswersOwn

LEMMA WakeKeeps ==
  ASSUME CallsInv, NEW c \in ServiceCall, Wake(c) PROVE CallsInv'
<1> USE CallsAssumption DEF Wake, Over, To, partyVars, peopleVars
<1>1. CallsTypeOK'
  BY DEF CallsInv, CallsTypeOK
<1>2. CallersKnown'
  BY DEF CallsInv, CallsTypeOK, CallersKnown
<1>3. AskersKept'
  BY DEF CallsInv, CallsTypeOK, AskersKept, Midstep, Token
<1> QED BY <1>1, <1>2, <1>3 DEF CallsInv, AnswersOwn

LEMMA WriteAnswerKeeps ==
  ASSUME CallsInv, NEW c \in ServiceCall, WriteAnswer(c) PROVE CallsInv'
<1> USE CallsAssumption DEF WriteAnswer, Over, To, partyVars
<1>1. CallsTypeOK'
  BY DEF CallsInv, CallsTypeOK
<1>2. CallersKnown'
  BY DEF CallsInv, CallsTypeOK, CallersKnown
<1>3. AskersKept'
  BY DEF CallsInv, CallsTypeOK, AskersKept, Midstep, Token
<1>4. AnswersOwn'
  BY DEF CallsInv, AskersKept, AnswersOwn, Midstep
<1> QED BY <1>1, <1>2, <1>3, <1>4 DEF CallsInv

-------------------------------------------------------------------------------
(* The theorems. *)

(* The inductive invariant of ServiceCalls holds (service_dir.rs:635-777). *)
THEOREM CallsTracked == CallsSpec => []CallsInv
<1>1. CallsInv /\ [CallsNext]_callVars => CallsInv'
  <2> SUFFICES ASSUME CallsInv, [CallsNext]_callVars PROVE CallsInv'
    OBVIOUS
  <2>1. CASE \E p \in Partners : OpenSession(p) \/ CloseSession(p) \/ FailCalls(p)
    BY <2>1, OpenSessionKeeps, CloseSessionKeeps, FailCallsKeeps
  <2>2. CASE \E c \in ServiceCall, p, q \in Partners : Ask(c, p, q)
    BY <2>2, AskKeeps
  <2>3. CASE \E c \in ServiceCall : \/ Book(c) \/ Dispatch(c) \/ Resolve(c)
                                    \/ Wake(c) \/ WriteAnswer(c)
    BY <2>3, BookKeeps, DispatchKeeps, ResolveKeeps, WakeKeeps, WriteAnswerKeeps
  <2>4. CASE UNCHANGED callVars
    BY <2>4 DEF callVars, partyVars, peopleVars, CallsInv, CallsTypeOK, CallersKnown, AskersKept,
       AnswersOwn, Midstep, Token
  <2> QED BY <2>1, <2>2, <2>3, <2>4 DEF CallsNext
<1> QED BY CallsStart, <1>1, PTL DEF CallsSpec

(* No call waits on a plugin that has ended and was swept, whichever side  *)
(* of it that plugin is on (fail_service_calls_of(), service_dir.rs:753).  *)
THEOREM NoCallForsaken == CallsSpec => []NoneForsaken
<1>1. CallsInv => NoneForsaken
  BY DEF CallsInv, CallsTypeOK, CallersKnown, AskersKept, NoneForsaken
<1> QED BY CallsTracked, <1>1, PTL

(* An answer reaches the session that asked, unless that session ended     *)
(* within a step of the bridge (service_dir.rs:684).                       *)
THEOREM AnswersReachAskers == CallsSpec => []AnswersOwn
  BY CallsTracked, PTL DEF CallsInv


-------------------------------------------------------------------------------
(* The directory of services. *)

(* The entry: the chosen plugin is a candidate, and one waits only where   *)
(* somebody else answers.                                                  *)
EntryOK ==
  /\ chosen \in Plugins => Has(chosen)
  /\ chosen \notin Plugins /\ ~BuiltinAvailable => candidates = <<>>
  /\ chosen = Nobody <=> chosen \notin Plugins /\ ~HasBuiltin

Announcing == \E th \in Tellers : teller[th].at = "announce"

(* Unless two announcements are told at the same time, the one being told  *)
(* or told last is what the entry says, when none is due; and a running    *)
(* plugin has heard it or is still to be told.                             *)
ToldOK ==
  ~overlapped =>
    /\ \A th, u \in Tellers : teller[th].at = "tell" /\ teller[u].at = "tell" => th = u
    /\ ~Announcing =>
         /\ \A th \in Tellers : teller[th].at = "tell" => teller[th].said = Changed
         /\ \A p \in live : \/ known[p] \in {Nobody, Changed}
                            \/ \E th \in Tellers : teller[th].at = "tell" /\ p \in teller[th].left

LEMMA Without ==
  ASSUME NEW S, NEW s \in Seq(S), NEW i \in DOMAIN s
  PROVE  /\ RemoveAt(s, i) \in Seq(S)
         /\ Len(RemoveAt(s, i)) = Len(s) - 1
         /\ \A j \in 1..Len(s) - 1 : RemoveAt(s, i)[j] = IF j < i THEN s[j] ELSE s[j + 1]
<1> DEFINE a == SubSeq(s, 1, i - 1)
           b == SubSeq(s, i + 1, Len(s))
<1>1. i \in 1..Len(s) /\ Len(s) \in Nat /\ i \in Nat
  OBVIOUS
<1>2. a \in Seq(S) /\ Len(a) = i - 1 /\ \A j \in 1..i - 1 : a[j] = s[j]
  BY <1>1
<1>3. b \in Seq(S) /\ Len(b) = Len(s) - i /\ \A j \in 1..Len(s) - i : b[j] = s[i + j]
  BY <1>1
<1>4. RemoveAt(s, i) = a \o b
  BY DEF RemoveAt
<1> HIDE DEF a, b
<1>5. a \o b \in Seq(S) /\ Len(a \o b) = Len(s) - 1
  BY <1>1, <1>2, <1>3
<1>6. ASSUME NEW j \in 1..Len(s) - 1
      PROVE  (a \o b)[j] = IF j < i THEN s[j] ELSE s[j + 1]
  <2>1. j \in 1..Len(a) + Len(b)
    BY <1>1, <1>2, <1>3
  <2>2. (a \o b)[j] = IF j <= Len(a) THEN a[j] ELSE b[j - Len(a)]
    <3>1. a \in Seq(S) /\ b \in Seq(S) /\ j \in 1..Len(a) + Len(b)
      BY <1>2, <1>3, <2>1
    <3> QED BY <3>1
  <2>3. CASE j < i
    BY <1>1, <1>2, <2>2, <2>3
  <2>4. CASE ~(j < i)
    <3>1. j - (i - 1) \in 1..Len(s) - i
      BY <1>1, <2>4
    <3>2. (a \o b)[j] = b[j - (i - 1)] /\ i + (j - (i - 1)) = j + 1
      BY <1>1, <1>2, <2>2, <2>4
    <3> QED BY <1>3, <2>4, <3>1, <3>2
  <2> QED BY <2>3, <2>4
<1> QED BY <1>4, <1>5, <1>6

CandidatesOK ==
  /\ candidates \in Seq(Plugins)
  /\ \A i, j \in DOMAIN candidates : candidates[i] = candidates[j] => i = j

(* Who is left when a candidate goes. *)
LEMMA CandidateGoes ==
  ASSUME CandidatesOK, NEW p \in Plugins, Has(p),
         candidates' = RemoveAt(candidates, PlaceOf(p))
  PROVE  /\ CandidatesOK'
         /\ \A q \in Plugins : Has(q)' <=> Has(q) /\ q # p
<1> DEFINE i == PlaceOf(p)
           n == Len(candidates)
<1>1. i \in DOMAIN candidates /\ candidates[i] = p /\ n \in Nat /\ DOMAIN candidates = 1..n
  BY DEF Has, PlaceOf, CandidatesOK
<1> HIDE DEF i, n
<1>2. /\ candidates' \in Seq(Plugins) /\ Len(candidates') = n - 1
      /\ \A j \in 1..n - 1 : candidates'[j] = IF j < i THEN candidates[j] ELSE candidates[j + 1]
  <2>1. candidates \in Seq(Plugins) /\ candidates' = RemoveAt(candidates, i)
    BY DEF CandidatesOK, i
  <2> QED BY <1>1, <2>1, Without DEF n
<1>3. DOMAIN candidates' = 1..n - 1
  BY <1>2
<1>4. CandidatesOK'
  <2>1. ASSUME NEW j \in 1..n - 1, NEW k \in 1..n - 1, candidates'[j] = candidates'[k]
        PROVE  j = k
    <3> DEFINE at(k0) == IF k0 < i THEN k0 ELSE k0 + 1
    <3>1. candidates[at(j)] = candidates[at(k)]
      BY <1>2, <2>1
    <3>2. at(j) \in DOMAIN candidates /\ at(k) \in DOMAIN candidates
      BY <1>1
    <3>3. at(j) = at(k)
      BY <3>1, <3>2 DEF CandidatesOK
    <3> QED BY <1>1, <3>3
  <2> QED BY <1>2, <1>3, <2>1 DEF CandidatesOK
<1>5. ASSUME NEW q \in Plugins, Has(q)' PROVE Has(q) /\ q # p
  <2>1. PICK j \in 1..n - 1 : candidates'[j] = q
    BY <1>3, <1>5 DEF Has
  <2>2. candidates[IF j < i THEN j ELSE j + 1] = q
    BY <1>2, <2>1
  <2> QED BY <1>1, <2>1, <2>2 DEF Has, CandidatesOK
<1>6. ASSUME NEW q \in Plugins, Has(q), q # p PROVE Has(q)'
  <2>1. PICK j \in 1..n : candidates[j] = q
    BY <1>1, <1>6 DEF Has
  <2>2. j # i
    BY <1>1, <1>6, <2>1
  <2>3. CASE j < i
    BY <1>1, <1>2, <1>3, <2>1, <2>3 DEF Has
  <2>4. CASE j > i
    <3>1. j - 1 \in 1..n - 1 /\ candidates'[j - 1] = q
      BY <1>1, <1>2, <2>1, <2>4
    <3> QED BY <1>3, <3>1 DEF Has
  <2> QED BY <1>1, <2>1, <2>2, <2>3, <2>4
<1> QED BY <1>4, <1>5, <1>6

(* What remove_provider leaves, and that plugins need not be told unless   *)
(* the provider was the chosen one.                                        *)
LEMMA ProviderGoes ==
  ASSUME CandidatesOK, chosen \in Plugins \cup {Host, Nobody}, EntryOK,
         NEW p \in Plugins, RemoveProvider(p), UNCHANGED <<kind, enabled>>
  PROVE  /\ CandidatesOK' /\ chosen' \in Plugins \cup {Host, Nobody} /\ EntryOK'
         /\ chosen # p => Changed' = Changed
<1> USE ServiceAssumption
<1>1. /\ CandidatesOK'
      /\ \A q \in Plugins : Has(q)' <=> Has(q) /\ q # p
  <2>1. CASE Has(p)
    BY <2>1, CandidateGoes DEF RemoveProvider
  <2>2. CASE ~Has(p)
    BY <2>2 DEF RemoveProvider, CandidatesOK, Has
  <2> QED BY <2>1, <2>2
<1>2. /\ \A q \in Plugins : Has(q) => candidates # <<>>
      /\ \A q \in Plugins : Has(q)' => candidates' # <<>>
      /\ candidates # <<>> => \E q \in Plugins : Has(q)
      /\ candidates' # <<>> =>
           \E q \in Plugins : q = Head(candidates') /\ Has(q)'
  BY <1>1 DEF CandidatesOK, Has
<1>3. /\ BuiltinAvailable' <=> BuiltinAvailable
      /\ HasBuiltin' <=> HasBuiltin
      /\ BuiltinAvailable => HasBuiltin
  BY DEF BuiltinAvailable, HasBuiltin
<1>4. /\ chosen # p => chosen' = chosen
      /\ chosen = p /\ BuiltinAvailable => chosen' = Host
      /\ chosen = p /\ ~BuiltinAvailable /\ candidates' # <<>> => chosen' = Head(candidates')
      /\ chosen = p /\ ~BuiltinAvailable /\ candidates' = <<>> =>
           chosen' = IF HasBuiltin THEN Host ELSE Nobody
  BY DEF RemoveProvider
<1>5. chosen' \in Plugins \cup {Host, Nobody}
  BY <1>2, <1>4
<1>6. EntryOK'
  <2>1. CASE chosen # p
    <3>1. candidates = <<>> => candidates' = <<>>
      BY <1>1, <1>2
    <3> QED BY <1>1, <1>3, <1>4, <2>1, <3>1 DEF EntryOK
  <2>2. CASE chosen = p
    <3>1. CASE BuiltinAvailable
      BY <1>3, <1>4, <2>2, <3>1 DEF EntryOK
    <3>2. CASE ~BuiltinAvailable /\ candidates' # <<>>
      BY <1>2, <1>3, <1>4, <2>2, <3>2 DEF EntryOK
    <3>3. CASE ~BuiltinAvailable /\ candidates' = <<>>
      BY <1>3, <1>4, <2>2, <3>3 DEF EntryOK
    <3> QED BY <3>1, <3>2, <3>3
  <2> QED BY <2>1, <2>2
<1>7. ASSUME chosen # p PROVE Changed' = Changed
  <2>1. Available' <=> Available
    <3>1. CASE BuiltinAvailable
      BY <1>3, <3>1 DEF Available
    <3>2. CASE ~BuiltinAvailable /\ chosen \in Plugins
      BY <1>1, <1>2, <1>7, <3>2 DEF Available, EntryOK
    <3>3. CASE ~BuiltinAvailable /\ chosen \notin Plugins
      BY <1>1, <1>2, <1>3, <3>3 DEF Available, EntryOK
    <3> QED BY <3>1, <3>2, <3>3
  <2>2. Available \in BOOLEAN /\ Available' \in BOOLEAN
    BY DEF Available, BuiltinAvailable, HasBuiltin
  <2>3. Available' = Available
    BY <2>1, <2>2
  <2> QED BY <1>4, <1>7, <2>3 DEF Changed
<1> QED BY <1>1, <1>5, <1>6, <1>7

Phases == [at : {"idle", "announce", "tell"}, said : Views \cup {Nobody}, left : SUBSET Plugins]

(* Types, in the parts the actions disturb.                                *)
EntryTyped ==
  /\ kind \in Kinds /\ enabled \in BOOLEAN
  /\ CandidatesOK
  /\ chosen \in Plugins \cup {Host, Nobody}
  /\ edits \in 0..MaxEdits
SessionsTyped ==
  starts \in 0..MaxStarts /\ live \subseteq Plugins /\ ending \subseteq Plugins
TellersTyped ==
  /\ teller \in [Tellers -> Phases]
  /\ overlapped \in BOOLEAN
  /\ known \in [Plugins -> Views \cup {Nobody}]

DirectoryInv == EntryTyped /\ SessionsTyped /\ TellersTyped /\ EntryOK /\ ToldOK

LEMMA DirectoryTypes == ServiceTypeOK <=> EntryTyped /\ SessionsTyped /\ TellersTyped
BY Zenon DEF ServiceTypeOK, EntryTyped, CandidatesOK, SessionsTyped, TellersTyped, Phases

LEMMA ChangedTyped == EntryTyped => Changed \in Views
BY DEF EntryTyped, Changed, Views, Available, BuiltinAvailable, HasBuiltin

LEMMA TellerNames ==
  /\ ShellThread \in Tellers
  /\ \A p \in Plugins : Listener(p) \in Tellers /\ Sweeper(p) \in Tellers
BY DEF ShellThread, Tellers, Listener, Sweeper

(* A change of the entry that the thread announces, or that leaves what    *)
(* plugins are told as it was.                                             *)
LEMMA EntryChanges ==
  ASSUME DirectoryInv, NEW th \in Tellers, NEW does \in BOOLEAN, Announces(th, does),
         EntryTyped', EntryOK', ~does => Changed' = Changed,
         starts' = starts, live' = live, ending' \subseteq ending,
         UNCHANGED <<overlapped, known>>
  PROVE  DirectoryInv'
<1>1. SessionsTyped'
  BY DEF DirectoryInv, SessionsTyped
<1>2. TellersTyped'
  BY DEF DirectoryInv, TellersTyped, Announces, Phases
<1>3. ToldOK'
  <2>1. CASE does
    <3>1. Announcing'
      BY <2>1 DEF Announces, Announcing, DirectoryInv, TellersTyped
    <3>2. \A u \in Tellers : teller'[u].at = "tell" => teller[u].at = "tell"
      BY <2>1 DEF Announces, DirectoryInv, TellersTyped, Phases
    <3> QED BY <3>1, <3>2 DEF ToldOK, DirectoryInv
  <2>2. CASE ~does
    <3>1. teller' = teller /\ Changed' = Changed
      BY <2>2 DEF Announces
    <3> QED BY <3>1 DEF ToldOK, DirectoryInv, Announcing
  <2> QED BY <2>1, <2>2
<1> QED BY <1>1, <1>2, <1>3 DEF DirectoryInv

LEMMA FirstCandidate ==
  ASSUME candidates \in Seq(Plugins), candidates # <<>>
  PROVE  Head(candidates) \in Plugins /\ Has(Head(candidates))
<1>1. 1 \in DOMAIN candidates /\ candidates[1] = Head(candidates)
  OBVIOUS
<1> QED BY <1>1 DEF Has

LEMMA RegisterKeeps ==
  ASSUME DirectoryInv, NEW p \in Plugins, RegisterService(p)
  PROVE  DirectoryInv'
<1> USE ServiceAssumption
<1> DEFINE takesOver == chosen \notin Plugins /\ ~BuiltinAvailable
<1>1. /\ candidates' = IF Has(p) THEN candidates ELSE Append(candidates, p)
      /\ chosen' = IF takesOver THEN Head(candidates') ELSE chosen
      /\ Announces(Listener(p), takesOver) /\ kind # "fixed"
      /\ UNCHANGED <<kind, enabled, starts, live, ending, overlapped, known>>
      /\ edits' \in 0..MaxEdits
  BY DEF RegisterService, Edit, sessionVars, DirectoryInv, EntryTyped
<1>2. /\ CandidatesOK' /\ \A q \in Plugins : Has(q)' <=> Has(q) \/ q = p
      /\ candidates' # <<>> /\ Head(candidates') \in Plugins /\ Has(Head(candidates))'
  <2>1. CASE Has(p)
    <3>1. candidates' = candidates /\ candidates \in Seq(Plugins) /\ candidates # <<>>
      BY <1>1, <2>1 DEF DirectoryInv, EntryTyped, CandidatesOK, Has
    <3>2. CandidatesOK' /\ \A q \in Plugins : Has(q)' <=> Has(q)
      BY <3>1 DEF DirectoryInv, EntryTyped, CandidatesOK, Has
    <3>3. Head(candidates) \in Plugins /\ Has(Head(candidates))
      BY <3>1, FirstCandidate
    <3>4. Has(Head(candidates))' <=> Has(Head(candidates))
      BY <3>1 DEF Has
    <3> QED BY <2>1, <3>1, <3>2, <3>3, <3>4
  <2>2. CASE ~Has(p)
    <3>1. candidates' = Append(candidates, p) /\ candidates \in Seq(Plugins)
      BY <1>1, <2>2 DEF DirectoryInv, EntryTyped, CandidatesOK
    <3>2. /\ candidates' \in Seq(Plugins) /\ Len(candidates) \in Nat
          /\ DOMAIN candidates' = 1..Len(candidates) + 1
          /\ DOMAIN candidates = 1..Len(candidates)
          /\ \A i \in 1..Len(candidates) : candidates'[i] = candidates[i]
          /\ candidates'[Len(candidates) + 1] = p
      BY <3>1
    <3>3. CandidatesOK'
      <4>1. ASSUME NEW i \in DOMAIN candidates', NEW j \in DOMAIN candidates',
                   candidates'[i] = candidates'[j]
            PROVE  i = j
        <5>1. i \in DOMAIN candidates \/ i = Len(candidates) + 1
          BY <3>2
        <5>2. j \in DOMAIN candidates \/ j = Len(candidates) + 1
          BY <3>2
        <5> QED BY <2>2, <3>2, <4>1, <5>1, <5>2 DEF Has, DirectoryInv, EntryTyped, CandidatesOK
      <4> QED BY <3>2, <4>1 DEF CandidatesOK
    <3>4. \A q \in Plugins : Has(q)' <=> Has(q) \/ q = p
      <4>1. ASSUME NEW q \in Plugins, Has(q)' PROVE Has(q) \/ q = p
        <5>1. PICK i \in DOMAIN candidates' : candidates'[i] = q
          BY <4>1 DEF Has
        <5>2. i \in DOMAIN candidates \/ i = Len(candidates) + 1
          BY <3>2
        <5> QED BY <3>2, <5>1, <5>2 DEF Has
      <4>2. ASSUME NEW q \in Plugins, Has(q) \/ q = p PROVE Has(q)'
        BY <3>2, <4>2 DEF Has
      <4> QED BY <4>1, <4>2
    <3>5. candidates' # <<>> /\ Head(candidates') \in Plugins /\ Has(Head(candidates))'
      <4>1. 1 \in DOMAIN candidates' /\ candidates' # <<>>
        BY <3>2
      <4>2. candidates'[1] = Head(candidates') /\ candidates'[1] \in Plugins
        BY <3>2, <4>1
      <4> QED BY <4>1, <4>2 DEF Has
    <3> QED BY <3>3, <3>4, <3>5
  <2> QED BY <2>1, <2>2
<1>3. /\ BuiltinAvailable' <=> BuiltinAvailable
      /\ HasBuiltin' <=> HasBuiltin
      /\ BuiltinAvailable => HasBuiltin
  BY <1>1 DEF BuiltinAvailable, HasBuiltin
<1>4. EntryTyped'
  BY <1>1, <1>2 DEF DirectoryInv, EntryTyped
<1>5. EntryOK'
  BY <1>1, <1>2, <1>3 DEF DirectoryInv, EntryOK
<1>6. ASSUME ~takesOver PROVE Changed' = Changed
  <2>1. Available /\ Available'
    <3>1. Available'
      BY <1>2 DEF Available
    <3>2. CASE BuiltinAvailable
      BY <3>1, <3>2 DEF Available
    <3>3. CASE chosen \in Plugins
      BY <3>1, <3>3 DEF Available, DirectoryInv, EntryOK, Has
    <3> QED BY <1>6, <3>2, <3>3
  <2> QED BY <1>1, <1>6, <2>1, Zenon DEF Changed
<1>7. takesOver \in BOOLEAN /\ Listener(p) \in Tellers
  BY TellerNames
<1> HIDE DEF takesOver
<1> QED BY <1>1, <1>4, <1>5, <1>6, <1>7, EntryChanges

LEMMA UnregisterKeeps ==
  ASSUME DirectoryInv, NEW p \in Plugins, UnregisterService(p) \/ DropServices(p)
  PROVE  DirectoryInv'
<1>1. CandidatesOK /\ chosen \in Plugins \cup {Host, Nobody} /\ EntryOK
  BY DEF DirectoryInv, EntryTyped
<1>2. CASE UnregisterService(p)
  <2>1. /\ RemoveProvider(p) /\ Announces(Listener(p), chosen = p)
        /\ UNCHANGED <<kind, enabled, starts, live, ending, overlapped, known>>
        /\ edits' \in 0..MaxEdits
    BY <1>2, ServiceAssumption DEF UnregisterService, Edit, sessionVars, DirectoryInv, EntryTyped
  <2>2. /\ CandidatesOK' /\ chosen' \in Plugins \cup {Host, Nobody} /\ EntryOK'
        /\ chosen # p => Changed' = Changed
    BY <1>1, <2>1, ProviderGoes
  <2>3. EntryTyped'
    BY <2>1, <2>2 DEF DirectoryInv, EntryTyped
  <2>4. (chosen = p) \in BOOLEAN /\ Listener(p) \in Tellers
    BY TellerNames
  <2> QED BY <2>1, <2>2, <2>3, <2>4, EntryChanges
<1>3. CASE DropServices(p)
  <2>1. /\ IF Has(p) THEN RemoveProvider(p) ELSE UNCHANGED <<candidates, chosen>>
        /\ Announces(Sweeper(p), Has(p)) /\ ending' = ending \ {p}
        /\ UNCHANGED <<kind, enabled, edits, starts, live, overlapped, known>>
    BY <1>3 DEF DropServices
  <2>2. /\ EntryTyped' /\ EntryOK'
        /\ ~Has(p) => Changed' = Changed
    <3>1. CASE Has(p)
      BY <1>1, <2>1, <3>1, ProviderGoes DEF DirectoryInv, EntryTyped
    <3>2. CASE ~Has(p)
      BY <2>1, <3>2 DEF DirectoryInv, EntryTyped, CandidatesOK, EntryOK, Has, Changed,
         Available, BuiltinAvailable, HasBuiltin
    <3> QED BY <3>1, <3>2
  <2>3. Has(p) \in BOOLEAN /\ Sweeper(p) \in Tellers
    BY TellerNames DEF Has
  <2> QED BY <2>1, <2>2, <2>3, EntryChanges
<1> QED BY <1>2, <1>3

LEMMA SettingsKeep ==
  ASSUME DirectoryInv, SetOwnerEnabled \/ \E target \in Plugins \cup {Host} : SetProvider(target)
  PROVE  DirectoryInv'
<1> USE ServiceAssumption
<1>1. /\ Announces(ShellThread, TRUE)
      /\ UNCHANGED <<kind, candidates, starts, live, ending, overlapped, known>>
      /\ edits' \in 0..MaxEdits
  <2>1. /\ Edit /\ Announces(ShellThread, TRUE)
        /\ UNCHANGED <<candidates, starts, live, ending, overlapped, known>>
    BY DEF SetOwnerEnabled, SetProvider, sessionVars
  <2>2. edits' \in 0..MaxEdits /\ UNCHANGED kind
    BY <2>1 DEF Edit, DirectoryInv, EntryTyped
  <2> QED BY <2>1, <2>2
<1>2. /\ HasBuiltin' <=> HasBuiltin
      /\ BuiltinAvailable => HasBuiltin
      /\ \A q \in Plugins : Has(q)' <=> Has(q)
  BY <1>1 DEF BuiltinAvailable, HasBuiltin, Has
<1>3. /\ candidates # <<>> => Head(candidates) \in Plugins /\ Has(Head(candidates))
      /\ \A q \in Plugins : Has(q) => candidates # <<>>
  BY DEF DirectoryInv, EntryTyped, CandidatesOK, Has
<1>4. EntryTyped' /\ EntryOK'
  <2>1. ASSUME NEW target \in Plugins \cup {Host}, SetProvider(target) PROVE EntryTyped' /\ EntryOK'
    <3>1. /\ chosen' = target /\ UNCHANGED enabled
          /\ target = Host => BuiltinAvailable
          /\ target # Host => Has(target)
      BY <2>1 DEF SetProvider
    <3>2. BuiltinAvailable' <=> BuiltinAvailable
      BY <1>1, <3>1 DEF BuiltinAvailable, HasBuiltin
    <3> QED BY <1>1, <1>2, <1>3, <3>1, <3>2 DEF DirectoryInv, EntryTyped, CandidatesOK, EntryOK
  <2>2. CASE SetOwnerEnabled
    <3>1. /\ kind = "optional" /\ enabled' = ~enabled
          /\ chosen' = IF enabled /\ chosen = Host /\ candidates # <<>> THEN Head(candidates)
                       ELSE chosen
      BY <2>2 DEF SetOwnerEnabled
    <3>2. HasBuiltin /\ enabled' \in BOOLEAN
      BY <3>1 DEF HasBuiltin
    <3>3. (BuiltinAvailable <=> enabled) /\ (BuiltinAvailable' <=> ~enabled)
      BY <1>1, <3>1, <3>2 DEF BuiltinAvailable, HasBuiltin
    <3>4. EntryTyped'
      BY <1>1, <1>3, <3>1, <3>2 DEF DirectoryInv, EntryTyped, CandidatesOK
    <3>5. EntryOK'
      BY <1>1, <1>2, <1>3, <3>1, <3>2, <3>3 DEF DirectoryInv, EntryTyped, EntryOK
    <3> QED BY <3>4, <3>5
  <2> QED BY <2>1, <2>2
<1>5. TRUE \in BOOLEAN /\ ShellThread \in Tellers
  BY TellerNames
<1> QED BY <1>1, <1>4, <1>5, EntryChanges

LEMMA TellingKeeps ==
  ASSUME DirectoryInv, NEW th \in Tellers,
         TakeSnapshot(th) \/ \E p \in Plugins : Tell(th, p)
  PROVE  DirectoryInv'
<1>1. UNCHANGED <<kind, enabled, candidates, chosen, edits, starts, live, ending>>
  BY DEF TakeSnapshot, Tell, entryVars, sessionVars
<1>2. /\ EntryTyped' /\ SessionsTyped' /\ EntryOK' /\ Changed' = Changed
  BY <1>1 DEF DirectoryInv, EntryTyped, SessionsTyped, EntryOK, CandidatesOK, Has, Changed,
     Available, BuiltinAvailable, HasBuiltin
<1>3. CASE TakeSnapshot(th)
  <2>1. /\ teller[th].at = "announce"
        /\ teller' = [teller EXCEPT ![th] = [at |-> "tell", said |-> Changed, left |-> Plugins]]
        /\ UNCHANGED known
        /\ overlapped' = \E t \in Tellers : teller[t].at = "tell"
    BY <1>3 DEF TakeSnapshot
  <2>2. Changed \in Views
    BY ChangedTyped DEF DirectoryInv
  <2>3. TellersTyped'
    BY <2>1, <2>2 DEF DirectoryInv, TellersTyped, Phases
  <2>4. ToldOK'
    <3> SUFFICES ASSUME ~overlapped' PROVE ToldOK'
      BY DEF ToldOK
    <3>1. \A t \in Tellers : teller[t].at # "tell"
      BY <2>1
    <3>2. /\ teller'[th] = [at |-> "tell", said |-> Changed, left |-> Plugins]
          /\ \A t \in Tellers \ {th} : teller'[t] = teller[t]
      BY <2>1 DEF DirectoryInv, TellersTyped
    <3> QED BY <1>1, <1>2, <3>1, <3>2 DEF ToldOK, DirectoryInv, SessionsTyped
  <2> QED BY <1>2, <2>3, <2>4 DEF DirectoryInv
<1>4. ASSUME NEW p \in Plugins, Tell(th, p) PROVE DirectoryInv'
  <2>1. /\ teller[th].at = "tell" /\ p \in teller[th].left
        /\ known' = IF p \in live THEN [known EXCEPT ![p] = teller[th].said] ELSE known
        /\ UNCHANGED overlapped
    BY <1>4 DEF Tell
  <2>2. teller[th] \in Phases
    BY DEF DirectoryInv, TellersTyped
  <2>3. /\ teller' \in [Tellers -> Phases]
        /\ \A t \in Tellers \ {th} : teller'[t] = teller[t]
        /\ teller[th].left = {p} => teller'[th].at = "idle"
        /\ teller[th].left # {p} => /\ teller'[th].at = "tell"
                                   /\ teller'[th].said = teller[th].said
                                   /\ teller'[th].left = teller[th].left \ {p}
    <3>1. CASE teller[th].left = {p}
      <4>1. teller' = [teller EXCEPT ![th] = [at |-> "idle", said |-> Nobody, left |-> {}]]
        BY <1>4, <3>1 DEF Tell
      <4>2. [at |-> "idle", said |-> Nobody, left |-> {}] \in Phases
        BY DEF Phases
      <4> QED BY <3>1, <4>1, <4>2 DEF DirectoryInv, TellersTyped
    <3>2. CASE teller[th].left # {p}
      <4>1. teller' = [teller EXCEPT ![th].left = @ \ {p}]
        BY <1>4, <3>2 DEF Tell
      <4> QED BY <2>1, <2>2, <3>2, <4>1 DEF DirectoryInv, TellersTyped, Phases
    <3> QED BY <3>1, <3>2
  <2>4. TellersTyped'
    BY <2>1, <2>2, <2>3 DEF DirectoryInv, TellersTyped, Phases
  <2>5. ToldOK'
    <3> SUFFICES ASSUME ~overlapped PROVE ToldOK'
      BY <2>1 DEF ToldOK
    <3>1. \A t, u \in Tellers : teller'[t].at = "tell" /\ teller'[u].at = "tell" => t = u
      BY <2>1, <2>3 DEF DirectoryInv, ToldOK
    <3>2. ASSUME ~Announcing' PROVE ~Announcing
      BY <2>1, <2>3, <3>2 DEF Announcing
    <3>3. ASSUME ~Announcing'
          PROVE  \A t \in Tellers : teller'[t].at = "tell" => teller'[t].said = Changed'
      BY <1>2, <2>1, <2>3, <3>2, <3>3 DEF DirectoryInv, ToldOK
    <3>4. ASSUME ~Announcing', NEW q \in live'
          PROVE  \/ known'[q] \in {Nobody, Changed'}
                 \/ \E t \in Tellers : teller'[t].at = "tell" /\ q \in teller'[t].left
      <4>1. q \in live /\ q \in Plugins /\ ~Announcing
        BY <1>1, <3>2, <3>4 DEF DirectoryInv, SessionsTyped
      <4>2. CASE q = p
        BY <1>2, <2>1, <4>1, <4>2 DEF DirectoryInv, TellersTyped, ToldOK
      <4>3. CASE q # p
        <5>1. known'[q] = known[q]
          BY <2>1, <4>1, <4>3 DEF DirectoryInv, TellersTyped
        <5>2. CASE known[q] \in {Nobody, Changed}
          BY <1>2, <5>1, <5>2
        <5>3. CASE \E t \in Tellers : teller[t].at = "tell" /\ q \in teller[t].left
          <6>1. q \in teller[th].left
            BY <2>1, <5>3 DEF DirectoryInv, ToldOK
          <6> QED BY <2>3, <4>3, <6>1
        <5> QED BY <4>1, <5>2, <5>3 DEF DirectoryInv, ToldOK
      <4> QED BY <4>2, <4>3
    <3> QED BY <3>1, <3>3, <3>4 DEF ToldOK
  <2> QED BY <1>2, <2>4, <2>5 DEF DirectoryInv
<1> QED BY <1>3, <1>4

LEMMA SessionsKeep ==
  ASSUME DirectoryInv, NEW p \in Plugins, StartSession(p) \/ EndSession(p)
  PROVE  DirectoryInv'
<1>1. /\ UNCHANGED <<kind, enabled, candidates, chosen, edits, teller, overlapped>>
      /\ \/ live' = live \cup {p} /\ known' = [known EXCEPT ![p] = Nobody]
         \/ live' = live \ {p} /\ UNCHANGED known
  BY DEF StartSession, EndSession, entryVars, tellVars
<1>2. /\ EntryTyped' /\ EntryOK' /\ Changed' = Changed
  BY <1>1 DEF DirectoryInv, EntryTyped, EntryOK, CandidatesOK, Has, Changed,
     Available, BuiltinAvailable, HasBuiltin
<1>3. SessionsTyped'
  BY ServiceAssumption DEF StartSession, EndSession, DirectoryInv, SessionsTyped
<1>4. TellersTyped'
  BY <1>1 DEF DirectoryInv, TellersTyped
<1>5. ToldOK'
  <2>1. Announcing' <=> Announcing
    BY <1>1 DEF Announcing
  <2>2. \A q \in live' : (q \in live /\ known'[q] = known[q]) \/ known'[q] = Nobody
    BY <1>1 DEF DirectoryInv, TellersTyped, SessionsTyped
  <2> QED BY <1>1, <1>2, <2>1, <2>2 DEF DirectoryInv, ToldOK
<1> QED BY <1>2, <1>3, <1>4, <1>5 DEF DirectoryInv

(* The inductive invariant of the directory: who is chosen, and what the   *)
(* announcement under way has to do with the entry and with what plugins   *)
(* have heard.                                                             *)
THEOREM DirectoryTracked == ServiceSpec => []DirectoryInv
<1>1. ServiceInit => DirectoryInv
  <2> SUFFICES ASSUME ServiceInit PROVE DirectoryInv
    OBVIOUS
  <2>1. EntryTyped /\ EntryOK
    BY ServiceAssumption DEF ServiceInit, EntryTyped, EntryOK, CandidatesOK, BuiltinAvailable,
       HasBuiltin, Kinds
  <2>2. SessionsTyped /\ TellersTyped
    <3>1. [at |-> "idle", said |-> Nobody, left |-> {}] \in Phases
      BY DEF Phases
    <3>2. TellersTyped
      BY <3>1 DEF ServiceInit, TellersTyped
    <3>3. SessionsTyped
      BY ServiceAssumption DEF ServiceInit, SessionsTyped
    <3> QED BY <3>2, <3>3
  <2>3. ToldOK
    BY DEF ServiceInit, ToldOK
  <2> QED BY <2>1, <2>2, <2>3 DEF DirectoryInv
<1>2. DirectoryInv /\ [ServiceNext]_serviceVars => DirectoryInv'
  <2> SUFFICES ASSUME DirectoryInv, [ServiceNext]_serviceVars PROVE DirectoryInv'
    OBVIOUS
  <2>1. CASE UNCHANGED serviceVars
    BY <2>1 DEF serviceVars, entryVars, sessionVars, tellVars, DirectoryInv, EntryTyped,
       SessionsTyped, TellersTyped, EntryOK, ToldOK, CandidatesOK, Has, Changed, Available,
       BuiltinAvailable, HasBuiltin, Announcing
  <2> QED BY <2>1, RegisterKeeps, UnregisterKeeps, SettingsKeep, TellingKeeps, SessionsKeep
          DEF ServiceNext
<1> QED BY <1>1, <1>2, PTL DEF ServiceSpec

(* The types of the directory.                                             *)
THEOREM DirectoryTyped == ServiceSpec => []ServiceTypeOK
<1>1. DirectoryInv => ServiceTypeOK
  BY DirectoryTypes DEF DirectoryInv
<1> QED BY <1>1, DirectoryTracked, PTL

(* Once everyone has been told, what a plugin was told last is where a     *)
(* call goes, for any number of plugins, sessions and changes.             *)
THEOREM WhatPluginsKnow == ServiceSpec => []KnownIsRouted
<1>1. DirectoryInv => KnownIsRouted
  <2> SUFFICES ASSUME DirectoryInv, \A th \in Tellers : Quiet(th), ~overlapped,
                      NEW p \in live, known[p] # Nobody
               PROVE  Route = CASE known[p].provider # Nobody -> known[p].provider
                                [] known[p].available /\ known[p].provider = Nobody -> Host
                                [] OTHER -> Nobody
    BY DEF KnownIsRouted
  <2>1. known[p] = Changed
    BY DEF DirectoryInv, ToldOK, Quiet, Announcing
  <2>2. known[p].available = Available
    BY <2>1 DEF Changed
  <2>3. known[p].provider = IF chosen \in Plugins /\ Available THEN chosen ELSE Nobody
    BY <2>1 DEF Changed
  <2>4. BuiltinAvailable => HasBuiltin
    BY DEF BuiltinAvailable
  <2>5. CASE ~Available
    BY <2>2, <2>3, <2>5 DEF Route
  <2>6. CASE Available /\ chosen \in Plugins
    BY <2>2, <2>3, <2>6, ServiceAssumption DEF Route
  <2>7. CASE Available /\ chosen \notin Plugins
    <3>1. BuiltinAvailable /\ chosen = Host
      BY <2>4, <2>7 DEF Available, DirectoryInv, EntryOK, EntryTyped
    <3> QED BY <2>2, <2>3, <2>7, <3>1, ServiceAssumption DEF Route
  <2> QED BY <2>5, <2>6, <2>7
<1> QED BY <1>1, DirectoryTracked, PTL
===============================================================================
