------------------------------ MODULE SpaceRoster -----------------------------
(***************************************************************************)
(* Accounts, device sessions, spaces with their members and invites, and   *)
(* the live connections of a space's room (atelyx-server auth.rs,          *)
(* spaces.rs, admin.rs, space_ws.rs, and joining and kicking in ws.rs).    *)
(*                                                                         *)
(* Every change of the roster is one ServerState::mutate, atomic under the *)
(* state's lock.  What a handler does before and after it is a step of its *)
(* own: authenticating the caller, verifying the password (login), reading *)
(* the sessions to kick (remove_member), kicking.  These are the tasks in  *)
(* flight.  A connection is authenticated, then found to be a member, then *)
(* enters the room, then is checked again, and from then on hears of       *)
(* changes only by the kick signal.                                        *)
(*                                                                         *)
(* Equal requests in flight are one element of tasks: a request that comes *)
(* again can be made again.                                                *)
(*                                                                         *)
(* Left out: names, colours, time stamps, content roots and the renaming   *)
(* of a space, read-only endpoints, requests the handlers refuse (EndCall) *)
(* and a roster that cannot be written (mutate rolls back: as if refused). *)
(***************************************************************************)
EXTENDS Integers, Sequences, FiniteSets, SequencesExt

CONSTANTS
  Users, Devices, Spaces, Conns,
  Nobody,       \* no owner: the space does not exist; no device id
  Ids,          \* session ids; one is free again when nothing refers to it
  Codes,        \* invite codes; one is free again when its invite is revoked
  InviteRoles,  \* roles an invite may give
  Limits,       \* limits of use an invite may have, 0: none
  MaxTasks      \* bound: requests in flight

ASSUME NobodyAssumption == Nobody \notin Users /\ Nobody \notin Devices
ASSUME InvitesAssumption == InviteRoles \subseteq {"editor", "viewer"} /\ Limits \subseteq Nat
ASSUME TasksAssumption == MaxTasks \in Nat

VARIABLES
  accounts,  \* registered users in order; the first is the administrator
  sessions,  \* device sessions: [id, user, device]
  owner,     \* owner[s]: owner_user_id
  role,      \* role[s][u]: u's entry in the members of s, "none" without one
  invites,   \* [code, space, role, max, used]; max = 0: unlimited, uses not counted
  tasks,     \* requests in flight
  conns,     \* conns[c]: a connection of the room's channel
  silent     \* history: connections whose session was removed with no kick to follow

roster == <<accounts, sessions, owner, role, invites, silent>>
vars == <<accounts, sessions, owner, role, invites, tasks, conns, silent>>

Roles == {"owner", "editor", "viewer"}
Members(s) == {u \in Users : role[s][u] # "none"}
LiveIds == {x.id : x \in sessions}
IdsOf(u) == {x.id : x \in {y \in sessions : y.user = u}}

NoConn == [phase |-> "idle", session |-> 0, user |-> Nobody, space |-> Nobody, kicked |-> FALSE]
InRoom == {"entered", "open"}

-------------------------------------------------------------------------------
(* Requests in flight. *)

Call(u, id)        == [do |-> "call", user |-> u, session |-> id]
Install(u, d)      == [do |-> "install", user |-> u, device |-> d, outdated |-> FALSE]
FindSessions(u, s) == [do |-> "find", user |-> u, space |-> s]
Kick(where, ids)   == [do |-> "kick", spaces |-> where, sessions |-> ids]

(* t has run and goes on as the tasks ts. *)
Becomes(t, ts) == tasks' = (tasks \ {t}) \cup ts

Start(t) == Cardinality(tasks) < MaxTasks /\ tasks' = tasks \cup {t}

(* The sessions ids end, and nobody kicks. *)
Quietly(ids) == silent' = silent \cup {c \in Conns : conns[c].session \in ids}

(* AuthUser::from_request_parts: the token names a session. *)
Request(x) ==
  /\ Start(Call(x.user, x.id))
  /\ UNCHANGED <<roster, conns>>

(* The request is refused, reads only, or finds nothing to change. *)
EndCall(t) ==
  /\ t.do = "call"
  /\ Becomes(t, {})
  /\ UNCHANGED <<roster, conns>>

-------------------------------------------------------------------------------
(* Accounts and sessions. *)

(* A session id nothing refers to. *)
FreeIds ==
  Ids \ (LiveIds \cup {conns[c].session : c \in Conns}
         \cup {t.session : t \in {x \in tasks : x.do = "call"}}
         \cup UNION {t.sessions : t \in {x \in tasks : x.do = "kick"}})

NewSession(u, d) == [id |-> CHOOSE id \in FreeIds : TRUE, user |-> u, device |-> d]

Register(u, d) ==
  /\ u \notin Range(accounts)
  /\ FreeIds # {}
  /\ accounts' = Append(accounts, u)
  /\ sessions' = sessions \cup {NewSession(u, d)}
  /\ UNCHANGED <<owner, role, invites, silent, tasks, conns>>

(* login up to verify_password. *)
VerifyLogin(u, d) ==
  /\ u \in Range(accounts)
  /\ Start(Install(u, d))
  /\ UNCHANGED <<roster, conns>>

(* Mutant of InstallSession: the device's session is not looked for.       *)
InstallAnother(t) ==
  /\ t.do = "install"
  /\ FreeIds # {}
  /\ sessions' = sessions \cup {NewSession(t.user, t.device)}
  /\ Becomes(t, {})
  /\ UNCHANGED <<accounts, owner, role, invites, silent, conns>>

(* install_session: sessions of the user without a device id go when a     *)
(* device logs in; the device's own session keeps its id and gets the new  *)
(* token, and connections under it are kicked.                             *)
InstallSession(t) ==
  LET new  == NewSession(t.user, t.device)
      gone == {x \in sessions : t.device # Nobody /\ x.user = t.user /\ x.device = Nobody}
      same == {x \in sessions : t.device # Nobody /\ x.user = t.user /\ x.device = t.device}
  IN  /\ t.do = "install"
      /\ Quietly({x.id : x \in gone})
      /\ IF same = {}
         THEN /\ FreeIds # {}
              /\ sessions' = (sessions \ gone) \cup {new}
              /\ Becomes(t, {})
         ELSE /\ sessions' = sessions \ gone
              /\ Becomes(t, {Kick(Spaces, {old.id}) : old \in same})
      /\ UNCHANGED <<accounts, owner, role, invites, conns>>

Logout(t) ==
  /\ t.do = "call"
  /\ sessions' = {x \in sessions : x.id # t.session}
  /\ Quietly({t.session})
  /\ Becomes(t, {})
  /\ UNCHANGED <<accounts, owner, role, invites, conns>>

RevokeDevice(t, x) ==
  /\ t.do = "call"
  /\ x.user = t.user
  /\ sessions' = sessions \ {x}
  /\ Quietly({x.id})
  /\ Becomes(t, {})
  /\ UNCHANGED <<accounts, owner, role, invites, conns>>

(* Guard and effect of the two requests by which the administrator ends    *)
(* all sessions of v; ts are the requests in flight besides t.             *)
EndSessionsOf(t, v, ts) ==
  /\ t.do = "call"
  /\ t.user = accounts[1]
  /\ v \in Range(accounts)
  /\ sessions' = {x \in sessions : x.user # v}
  /\ tasks' = ts \cup {Kick(Spaces, IdsOf(v))}
  /\ UNCHANGED <<accounts, owner, role, invites, silent, conns>>

(* A login of v in flight has verified what is now the old password. *)
ResetPassword(t, v) ==
  EndSessionsOf(t, v, {IF x.do = "install" /\ x.user = v THEN [x EXCEPT !.outdated = TRUE] ELSE x
                         : x \in tasks \ {t}})

RevokeUserSessions(t, v) == EndSessionsOf(t, v, tasks \ {t})

-------------------------------------------------------------------------------
(* Spaces, members and invites. *)

CreateSpace(t, s) ==
  /\ t.do = "call"
  /\ owner[s] = Nobody
  /\ owner' = [owner EXCEPT ![s] = t.user]
  /\ role' = [role EXCEPT ![s][t.user] = "owner"]
  /\ Becomes(t, {})
  /\ UNCHANGED <<accounts, sessions, invites, silent, conns>>

(* Mutant of TransferOwnership: the former owner keeps the role.           *)
TransferKeeping(t, s, v) ==
  /\ t.do = "call" /\ v # t.user
  /\ role[s][t.user] = "owner" /\ v \in Members(s)
  /\ owner' = [owner EXCEPT ![s] = v]
  /\ role' = [role EXCEPT ![s][v] = "owner"]
  /\ Becomes(t, {})
  /\ UNCHANGED <<accounts, sessions, invites, silent, conns>>

TransferOwnership(t, s, v) ==
  /\ t.do = "call"
  /\ v # t.user
  /\ role[s][t.user] = "owner"
  /\ v \in Members(s)
  /\ owner' = [owner EXCEPT ![s] = v]
  /\ role' = [role EXCEPT ![s][v] = "owner", ![s][t.user] = "editor"]
  /\ Becomes(t, {})
  /\ UNCHANGED <<accounts, sessions, invites, silent, conns>>

RemoveMember(t, s, v) ==
  /\ t.do = "call"
  /\ v # owner[s]
  /\ v = t.user \/ owner[s] = t.user
  /\ v \in Members(s)
  /\ role' = [role EXCEPT ![s][v] = "none"]
  /\ Becomes(t, {FindSessions(v, s)})
  /\ UNCHANGED <<accounts, sessions, owner, invites, silent, conns>>

(* remove_member, after its change: the sessions of the removed member. *)
FindAndKick(t) ==
  /\ t.do = "find"
  /\ Becomes(t, {Kick({t.space}, IdsOf(t.user))})
  /\ UNCHANGED <<roster, conns>>

CreateInvite(t, s, r, max) ==
  /\ t.do = "call"
  /\ role[s][t.user] = "owner"
  /\ \E code \in Codes \ {i.code : i \in invites} :
       invites' = invites \cup {[code |-> code, space |-> s, role |-> r, max |-> max, used |-> 0]}
  /\ Becomes(t, {})
  /\ UNCHANGED <<accounts, sessions, owner, role, silent, conns>>

RevokeInvite(t, i) ==
  /\ t.do = "call"
  /\ role[i.space][t.user] = "owner"
  /\ invites' = invites \ {i}
  /\ Becomes(t, {})
  /\ UNCHANGED <<accounts, sessions, owner, role, silent, conns>>

(* Mutant of UsedUp: one use too many. *)
UsedUpLate(i) == i.max # 0 /\ i.used > i.max

(* An expired invite behaves as a revoked one; a member who accepts again  *)
(* changes nothing (EndCall).                                              *)
UsedUp(i) == i.max # 0 /\ i.used >= i.max

AcceptInvite(t, i) ==
  /\ t.do = "call"
  /\ ~UsedUp(i)
  /\ t.user \notin Members(i.space)
  /\ role' = [role EXCEPT ![i.space][t.user] = i.role]
  /\ invites' = (invites \ {i}) \cup {[i EXCEPT !.used = IF i.max = 0 THEN 0 ELSE @ + 1]}
  /\ Becomes(t, {})
  /\ UNCHANGED <<accounts, sessions, owner, silent, conns>>

-------------------------------------------------------------------------------
(* Connections. *)

Close(c) == conns' = [conns EXCEPT ![c] = NoConn]

Advance(c, phase) == conns' = [conns EXCEPT ![c].phase = phase]

(* The hello's token names a session. *)
Hello(c, x, s) ==
  /\ conns[c].phase = "idle"
  /\ conns' = [conns EXCEPT ![c] =
       [phase |-> "known", session |-> x.id, user |-> x.user, space |-> s, kicked |-> FALSE]]
  /\ silent' = silent \ {c}
  /\ UNCHANGED <<accounts, sessions, owner, role, invites, tasks>>

CheckMember(c) ==
  /\ conns[c].phase = "known"
  /\ IF conns[c].user \in Members(conns[c].space)
     THEN Advance(c, "cleared")
     ELSE Close(c)
  /\ UNCHANGED <<roster, tasks>>

Enter(c) ==
  /\ conns[c].phase = "cleared"
  /\ Advance(c, "entered")
  /\ UNCHANGED <<roster, tasks>>

(* session_alive. *)
StillWelcome(k) == k.session \in LiveIds /\ k.user \in Members(k.space)

(* Mutant of Recheck: membership is not asked again.                       *)
RecheckSession(c) ==
  /\ conns[c].phase = "entered"
  /\ IF conns[c].session \in LiveIds THEN Advance(c, "open") ELSE Close(c)
  /\ UNCHANGED <<roster, tasks>>

(* Mutant of Recheck: the session is not looked for again.                 *)
RecheckMember(c) ==
  /\ conns[c].phase = "entered"
  /\ IF conns[c].user \in Members(conns[c].space) THEN Advance(c, "open") ELSE Close(c)
  /\ UNCHANGED <<roster, tasks>>

Recheck(c) ==
  /\ conns[c].phase = "entered"
  /\ IF StillWelcome(conns[c]) THEN Advance(c, "open") ELSE Close(c)
  /\ UNCHANGED <<roster, tasks>>

(* The message loop ends and the connection leaves the room: by the kick   *)
(* signal, or the peer's own doing.                                        *)
Obey(c) ==
  /\ conns[c].phase = "open"
  /\ conns[c].kicked
  /\ Close(c)
  /\ UNCHANGED <<roster, tasks>>

HangUp(c) ==
  /\ conns[c].phase = "open"
  /\ Close(c)
  /\ UNCHANGED <<roster, tasks>>

(* kick_sessions: signals the connections that are in the room by now.     *)
Kicked(k, t) == k.phase \in InRoom /\ k.space \in t.spaces /\ k.session \in t.sessions

KickSessions(t) ==
  /\ t.do = "kick"
  /\ conns' = [c \in Conns |-> IF Kicked(conns[c], t) THEN [conns[c] EXCEPT !.kicked = TRUE]
                               ELSE conns[c]]
  /\ Becomes(t, {})
  /\ UNCHANGED roster

(* The process ends and starts again: the roster is on disk. *)
Restart ==
  /\ tasks' = {}
  /\ conns' = [c \in Conns |-> NoConn]
  /\ UNCHANGED roster

-------------------------------------------------------------------------------

Init ==
  /\ accounts = <<>>
  /\ sessions = {}
  /\ owner = [s \in Spaces |-> Nobody]
  /\ role = [s \in Spaces |-> [u \in Users |-> "none"]]
  /\ invites = {}
  /\ tasks = {}
  /\ conns = [c \in Conns |-> NoConn]
  /\ silent = {}

Next ==
  \/ \E u \in Users, d \in Devices \cup {Nobody} : Register(u, d) \/ VerifyLogin(u, d)
  \/ \E x \in sessions : Request(x)
  \/ \E t \in tasks : EndCall(t) \/ InstallSession(t) \/ Logout(t) \/ FindAndKick(t) \/ KickSessions(t)
  \/ \E t \in tasks, x \in sessions : RevokeDevice(t, x)
  \/ \E t \in tasks, v \in Users : ResetPassword(t, v) \/ RevokeUserSessions(t, v)
  \/ \E t \in tasks, s \in Spaces : CreateSpace(t, s)
  \/ \E t \in tasks, s \in Spaces, v \in Users : TransferOwnership(t, s, v) \/ RemoveMember(t, s, v)
  \/ \E t \in tasks, s \in Spaces, r \in InviteRoles, max \in Limits : CreateInvite(t, s, r, max)
  \/ \E t \in tasks, i \in invites : RevokeInvite(t, i) \/ AcceptInvite(t, i)
  \/ \E c \in Conns, x \in sessions, s \in Spaces : Hello(c, x, s)
  \/ \E c \in Conns : CheckMember(c) \/ Enter(c) \/ Recheck(c) \/ Obey(c) \/ HangUp(c)
  \/ Restart

Spec == Init /\ [][Next]_vars

-------------------------------------------------------------------------------
(* Properties. *)

Tasks ==
  [do : {"call"}, user : Users, session : Ids]
  \cup [do : {"install"}, user : Users, device : Devices \cup {Nobody}, outdated : BOOLEAN]
  \cup [do : {"find"}, user : Users, space : Spaces]
  \cup [do : {"kick"}, spaces : SUBSET Spaces, sessions : SUBSET Ids]

SessionRecords == [id : Ids, user : Users, device : Devices \cup {Nobody}]

ConnRecords ==
  {NoConn} \cup
  [phase : {"known", "cleared"} \cup InRoom, session : Ids, user : Users, space : Spaces,
   kicked : BOOLEAN]

(* Every variable has its type, session ids are unique, and no invite was  *)
(* used more often than its limit.                                         *)
TypeOK ==
  /\ accounts \in Seq(Users)
  /\ sessions \subseteq SessionRecords
  /\ \A x, y \in sessions : x.id = y.id => x = y
  /\ owner \in [Spaces -> Users \cup {Nobody}]
  /\ role \in [Spaces -> [Users -> Roles \cup {"none"}]]
  /\ \A i \in invites : i \in [code : Codes, space : Spaces, role : InviteRoles, max : Limits, used : 0..i.max]
  /\ tasks \subseteq Tasks
  /\ conns \in [Conns -> ConnRecords]
  /\ silent \subseteq Conns

(* The two records of who owns a space agree, whatever transfers, removals *)
(* and joins do: the owner, and nobody else, is a member as "owner".       *)
OneOwner == \A s \in Spaces, u \in Users : role[s][u] = "owner" <=> owner[s] = u

(* A user has at most one session for a device, also when the device logs  *)
(* in twice at once.                                                       *)
DeviceOnce ==
  \A x, y \in sessions :
    x.user = y.user /\ x.device = y.device /\ x.device # Nobody => x = y

(* A request in flight that will kick connection k. *)
WillKick(k) ==
  \E t \in tasks :
    \/ t.do = "find" /\ t.user = k.user /\ t.space = k.space /\ k.session \in LiveIds
    \/ t.do = "kick" /\ k.space \in t.spaces /\ k.session \in t.sessions

Unkicked(k) == k.phase = "open" /\ ~k.kicked

(* No removed member stays in a room: a checked connection of a user who   *)
(* is not a member is kicked or about to be, whenever the removal fell     *)
(* between its checks.                                                     *)
RemovedAreKicked ==
  \A c \in Conns :
    Unkicked(conns[c]) /\ conns[c].session \in LiveIds
      => conns[c].user \in Members(conns[c].space) \/ WillKick(conns[c])

(* No connection outlives its session, where the code that ended the       *)
(* session means to kick.                                                  *)
RevokedAreKicked ==
  \A c \in Conns :
    Unkicked(conns[c]) /\ conns[c].session \notin LiveIds
      => c \in silent \/ WillKick(conns[c])

(* ws.rs: revocation before entering is found by the check after entering, *)
(* and later revocation is covered by the kick signal, without a gap.      *)
RevokedLeave ==
  \A c \in Conns :
    Unkicked(conns[c]) => conns[c].session \in LiveIds \/ WillKick(conns[c])

(* reset_password: resetting a password ends what the old one gave, so no  *)
(* login that has verified the old one opens a session any more.           *)
OldPasswordEnds ==
  [][\A t \in tasks : t.do = "install" /\ t.outdated => ~InstallSession(t)]_vars

===============================================================================
