--------------------------- MODULE SpaceRosterProofs --------------------------
(***************************************************************************)
(* Proofs about SpaceRoster: types, the one owner of a space, and that no  *)
(* connection outlives a removal or a revocation that means to kick it.    *)
(***************************************************************************)
EXTENDS SpaceRoster, TLAPS

(* A connection that is not idle stays a record of a connection when it is *)
(* kicked or goes on to another phase.                                     *)
LEMMA ConnMoves ==
  ASSUME NEW k \in ConnRecords, k.phase # "idle"
  PROVE  /\ [k EXCEPT !.kicked = TRUE] \in ConnRecords
         /\ \A p \in {"cleared", "entered", "open"} : [k EXCEPT !.phase = p] \in ConnRecords
<1>1. k \in [phase : {"known", "cleared"} \cup InRoom, session : Ids, user : Users, space : Spaces,
            kicked : BOOLEAN]
  BY DEF ConnRecords, NoConn
<1> QED BY <1>1 DEF ConnRecords, InRoom

(* Types are kept by what happens to accounts and sessions. *)
LEMMA SessionTypes ==
  ASSUME TypeOK,
         \/ \E u \in Users, d \in Devices \cup {Nobody} : Register(u, d) \/ VerifyLogin(u, d)
         \/ \E x \in sessions : Request(x)
         \/ \E t \in tasks : EndCall(t) \/ InstallSession(t) \/ Logout(t)
         \/ \E t \in tasks, x \in sessions : RevokeDevice(t, x)
         \/ \E t \in tasks, v \in Users : ResetPassword(t, v) \/ RevokeUserSessions(t, v)
  PROVE  TypeOK'
<1>1. ASSUME NEW u \in Users, NEW d \in Devices \cup {Nobody}, Register(u, d) PROVE TypeOK'
  <2>1. PICK id \in FreeIds : NewSession(u, d) = [id |-> id, user |-> u, device |-> d]
    BY <1>1 DEF Register, NewSession
  <2>2. id \in Ids /\ \A x \in sessions : x.id # id
    BY <2>1 DEF FreeIds, LiveIds
  <2>3. accounts' \in Seq(Users)
    BY <1>1 DEF TypeOK, Register
  <2> QED BY <1>1, <2>1, <2>2, <2>3 DEF TypeOK, Register, SessionRecords
<1>2. ASSUME NEW u \in Users, NEW d \in Devices \cup {Nobody}, VerifyLogin(u, d) PROVE TypeOK'
  <2>1. Install(u, d) \in Tasks
    BY DEF Install, Tasks
  <2>2. tasks' \subseteq Tasks
    BY <1>2, <2>1 DEF TypeOK, VerifyLogin, Start
  <2> QED BY <1>2, <2>2 DEF TypeOK, VerifyLogin, roster
<1>3. ASSUME NEW x \in sessions, Request(x) PROVE TypeOK'
  BY <1>3 DEF TypeOK, Request, Start, Call, Tasks, SessionRecords, roster
<1>4. ASSUME NEW t \in tasks, EndCall(t) PROVE TypeOK'
  BY <1>4 DEF TypeOK, EndCall, Becomes, roster
<1>5. ASSUME NEW t \in tasks, InstallSession(t) PROVE TypeOK'
  <2> DEFINE dev  == t.device # Nobody
             gone == {x \in sessions : dev /\ x.user = t.user /\ x.device = Nobody}
             same == {x \in sessions : dev /\ x.user = t.user /\ x.device = t.device}
             new  == NewSession(t.user, t.device)
  <2>1. t.user \in Users /\ t.device \in Devices \cup {Nobody}
    BY <1>5 DEF TypeOK, Tasks, InstallSession
  <2>2. silent' \subseteq Conns
    BY <1>5 DEF TypeOK, InstallSession, Quietly
  <2>3. CASE same = {}
    <3>1. /\ FreeIds # {}
          /\ sessions' = (sessions \ gone) \cup {new}
          /\ tasks' = tasks \ {t}
      BY <1>5, <2>3 DEF InstallSession, Becomes
    <3>2. PICK id \in FreeIds : new = [id |-> id, user |-> t.user, device |-> t.device]
      BY <3>1 DEF NewSession
    <3>3. id \in Ids /\ \A x \in sessions : x.id # id
      BY <3>2 DEF FreeIds, LiveIds
    <3>4. sessions' \subseteq SessionRecords /\ \A x, y \in sessions' : x.id = y.id => x = y
      BY <2>1, <3>1, <3>2, <3>3 DEF TypeOK, SessionRecords
    <3> QED BY <1>5, <2>2, <3>1, <3>4 DEF TypeOK, InstallSession
  <2>4. CASE same # {}
    <3>1. /\ sessions' = sessions \ gone
          /\ tasks' = (tasks \ {t}) \cup {Kick(Spaces, {old.id}) : old \in same}
      BY <1>5, <2>4 DEF InstallSession, Becomes
    <3>2. \A old \in same : Kick(Spaces, {old.id}) \in Tasks
      BY DEF Kick, Tasks, TypeOK, SessionRecords
    <3>3. tasks' \subseteq Tasks
      BY <3>1, <3>2 DEF TypeOK
    <3> QED BY <1>5, <2>2, <3>1, <3>3 DEF TypeOK, InstallSession
  <2> QED BY <2>3, <2>4
<1>6. ASSUME NEW t \in tasks, Logout(t) PROVE TypeOK'
  BY <1>6 DEF TypeOK, Logout, Becomes, Quietly
<1>7. ASSUME NEW t \in tasks, NEW x \in sessions, RevokeDevice(t, x) PROVE TypeOK'
  BY <1>7 DEF TypeOK, RevokeDevice, Becomes, Quietly
<1>8. ASSUME NEW t \in tasks, NEW v \in Users, ResetPassword(t, v) PROVE TypeOK'
  <2> DEFINE aged(x) == IF x.do = "install" /\ x.user = v THEN [x EXCEPT !.outdated = TRUE] ELSE x
  <2>1. tasks' = {aged(x) : x \in tasks \ {t}} \cup {Kick(Spaces, IdsOf(v))}
    BY <1>8 DEF ResetPassword, EndSessionsOf
  <2>2. Kick(Spaces, IdsOf(v)) \in Tasks
    BY DEF Kick, Tasks, IdsOf, TypeOK, SessionRecords
  <2>3. \A x \in tasks : aged(x) \in Tasks
    <3> SUFFICES ASSUME NEW x \in tasks, x.do = "install" PROVE [x EXCEPT !.outdated = TRUE] \in Tasks
      BY DEF TypeOK
    <3>1. x \in [do : {"install"}, user : Users, device : Devices \cup {Nobody}, outdated : BOOLEAN]
      BY DEF TypeOK, Tasks
    <3> QED BY <3>1 DEF Tasks
  <2>4. tasks' \subseteq Tasks
    BY <2>1, <2>2, <2>3
  <2> QED BY <1>8, <2>4 DEF TypeOK, ResetPassword, EndSessionsOf
<1>9. ASSUME NEW t \in tasks, NEW v \in Users, RevokeUserSessions(t, v) PROVE TypeOK'
  BY <1>9 DEF TypeOK, RevokeUserSessions, EndSessionsOf, Kick, IdsOf, Tasks, SessionRecords
<1> QED BY <1>1, <1>2, <1>3, <1>4, <1>5, <1>6, <1>7, <1>8, <1>9

(* Types are kept by what happens to spaces, members and invites. *)
LEMMA SpaceTypes ==
  ASSUME TypeOK,
         \/ \E t \in tasks : FindAndKick(t) \/ KickSessions(t)
         \/ \E t \in tasks, s \in Spaces : CreateSpace(t, s)
         \/ \E t \in tasks, s \in Spaces, v \in Users : TransferOwnership(t, s, v) \/ RemoveMember(t, s, v)
         \/ \E t \in tasks, s \in Spaces, r \in InviteRoles, max \in Limits : CreateInvite(t, s, r, max)
         \/ \E t \in tasks, i \in invites : RevokeInvite(t, i) \/ AcceptInvite(t, i)
  PROVE  TypeOK'
<1>1. ASSUME NEW t \in tasks, FindAndKick(t) PROVE TypeOK'
  <2>1. t.space \in Spaces
    BY <1>1 DEF TypeOK, Tasks, FindAndKick
  <2>2. Kick({t.space}, IdsOf(t.user)) \in Tasks
    BY <2>1 DEF Kick, Tasks, IdsOf, TypeOK, SessionRecords
  <2> QED BY <1>1, <2>2 DEF TypeOK, FindAndKick, Becomes, roster
<1>2. ASSUME NEW t \in tasks, KickSessions(t) PROVE TypeOK'
  <2>1. conns' \in [Conns -> ConnRecords]
    <3>1. \A c \in Conns : Kicked(conns[c], t) => [conns[c] EXCEPT !.kicked = TRUE] \in ConnRecords
      BY ConnMoves DEF TypeOK, Kicked, InRoom
    <3> QED BY <1>2, <3>1 DEF TypeOK, KickSessions
  <2> QED BY <1>2, <2>1 DEF TypeOK, KickSessions, Becomes, roster
<1>3. ASSUME NEW t \in tasks, NEW s \in Spaces, CreateSpace(t, s) PROVE TypeOK'
  <2>1. t.user \in Users
    BY <1>3 DEF TypeOK, Tasks, CreateSpace
  <2> QED BY <1>3, <2>1 DEF TypeOK, CreateSpace, Becomes, Roles
<1>4. ASSUME NEW t \in tasks, NEW s \in Spaces, NEW v \in Users, TransferOwnership(t, s, v) PROVE TypeOK'
  BY <1>4 DEF TypeOK, TransferOwnership, Becomes, Roles
<1>5. ASSUME NEW t \in tasks, NEW s \in Spaces, NEW v \in Users, RemoveMember(t, s, v) PROVE TypeOK'
  <2>1. FindSessions(v, s) \in Tasks
    BY DEF FindSessions, Tasks
  <2> QED BY <1>5, <2>1 DEF TypeOK, RemoveMember, Becomes
<1>6. ASSUME NEW t \in tasks, NEW s \in Spaces, NEW r \in InviteRoles, NEW max \in Limits,
             CreateInvite(t, s, r, max)
      PROVE  TypeOK'
  <2>1. PICK code \in Codes :
          invites' = invites \cup {[code |-> code, space |-> s, role |-> r, max |-> max, used |-> 0]}
    BY <1>6 DEF CreateInvite
  <2>2. max \in Nat
    BY InvitesAssumption
  <2> QED BY <1>6, <2>1, <2>2 DEF TypeOK, CreateInvite, Becomes
<1>7. ASSUME NEW t \in tasks, NEW i \in invites, RevokeInvite(t, i) PROVE TypeOK'
  BY <1>7 DEF TypeOK, RevokeInvite, Becomes
<1>8. ASSUME NEW t \in tasks, NEW i \in invites, AcceptInvite(t, i) PROVE TypeOK'
  <2>1. /\ i \in [code : Codes, space : Spaces, role : InviteRoles, max : Limits, used : 0..i.max]
        /\ i.max \in Nat
    BY InvitesAssumption DEF TypeOK
  <2>2. i.role \in Roles
    BY <2>1, InvitesAssumption DEF Roles
  <2>3. [i EXCEPT !.used = IF i.max = 0 THEN 0 ELSE @ + 1]
          \in [code : Codes, space : Spaces, role : InviteRoles, max : Limits, used : 0..i.max]
    BY <1>8, <2>1 DEF AcceptInvite, UsedUp
  <2>4. role' \in [Spaces -> [Users -> Roles \cup {"none"}]]
    BY <1>8, <2>1, <2>2 DEF TypeOK, AcceptInvite
  <2>5. \A j \in invites' :
          j \in [code : Codes, space : Spaces, role : InviteRoles, max : Limits, used : 0..j.max]
    BY <1>8, <2>1, <2>3 DEF TypeOK, AcceptInvite
  <2> QED BY <1>8, <2>4, <2>5 DEF TypeOK, AcceptInvite, Becomes
<1> QED BY <1>1, <1>2, <1>3, <1>4, <1>5, <1>6, <1>7, <1>8

(* Types are kept by what happens to connections. *)
LEMMA ConnTypes ==
  ASSUME TypeOK,
         \/ \E c \in Conns, x \in sessions, s \in Spaces : Hello(c, x, s)
         \/ \E c \in Conns : CheckMember(c) \/ Enter(c) \/ Recheck(c) \/ Obey(c) \/ HangUp(c)
         \/ Restart
  PROVE  TypeOK'
<1>1. ASSUME NEW c \in Conns, NEW x \in sessions, NEW s \in Spaces, Hello(c, x, s) PROVE TypeOK'
  BY <1>1 DEF TypeOK, Hello, ConnRecords, SessionRecords
<1>2. ASSUME NEW c \in Conns, CheckMember(c) \/ Enter(c) \/ Recheck(c) \/ Obey(c) \/ HangUp(c)
      PROVE  TypeOK'
  <2>1. conns' \in [Conns -> ConnRecords]
    <3>1. CASE Close(c)
      BY <3>1 DEF TypeOK, Close, ConnRecords
    <3>2. CASE conns[c].phase # "idle" /\ \E p \in {"cleared", "entered", "open"} : Advance(c, p)
      <4>1. PICK p \in {"cleared", "entered", "open"} : conns' = [conns EXCEPT ![c].phase = p]
        BY <3>2 DEF Advance
      <4>2. [conns[c] EXCEPT !.phase = p] \in ConnRecords
        BY <3>2, ConnMoves DEF TypeOK
      <4>3. conns' = [conns EXCEPT ![c] = [conns[c] EXCEPT !.phase = p]]
        BY <4>1
      <4> QED BY <4>2, <4>3 DEF TypeOK
    <3> QED BY <1>2, <3>1, <3>2 DEF CheckMember, Enter, Recheck, Obey, HangUp
  <2> QED BY <1>2, <2>1 DEF TypeOK, CheckMember, Enter, Recheck, Obey, HangUp, roster
<1>3. ASSUME Restart PROVE TypeOK'
  BY <1>3 DEF TypeOK, Restart, ConnRecords, roster
<1> QED BY <1>1, <1>2, <1>3

(* Every variable has its type; session ids stay unique, and no invite is  *)
(* used more often than its limit allows, whatever requests run together.  *)
THEOREM RosterTyped == Spec => []TypeOK
<1>1. Init => TypeOK
  BY DEF Init, TypeOK, ConnRecords
<1>2. TypeOK /\ [Next]_vars => TypeOK'
  <2>1. TypeOK /\ Next => TypeOK'
    BY SessionTypes, SpaceTypes, ConnTypes DEF Next
  <2>2. TypeOK /\ UNCHANGED vars => TypeOK'
    BY DEF TypeOK, vars
  <2> QED BY <2>1, <2>2
<1> QED BY <1>1, <1>2, PTL DEF Spec


-------------------------------------------------------------------------------
(* The one owner of a space. *)

(* Only create_space and transfer_ownership write the owner; the others    *)
(* change the role of somebody who is not the owner, to something that is  *)
(* not "owner".                                                            *)
LEMMA OwnerStep == TypeOK /\ OneOwner /\ [Next]_vars => OneOwner'
<1> SUFFICES ASSUME TypeOK, OneOwner, [Next]_vars PROVE OneOwner'
  OBVIOUS
<1>1. ASSUME NEW t \in tasks, NEW s \in Spaces, CreateSpace(t, s) PROVE OneOwner'
  <2>1. t.user \in Users
    BY <1>1 DEF TypeOK, Tasks, CreateSpace
  <2> QED BY <1>1, <2>1, NobodyAssumption DEF TypeOK, OneOwner, CreateSpace
<1>2. ASSUME NEW t \in tasks, NEW s \in Spaces, NEW v \in Users, TransferOwnership(t, s, v)
      PROVE  OneOwner'
  <2>1. t.user \in Users
    BY <1>2 DEF TypeOK, Tasks, TransferOwnership
  <2> QED BY <1>2, <2>1 DEF TypeOK, OneOwner, TransferOwnership
<1>3. ASSUME NEW t \in tasks, NEW s \in Spaces, NEW v \in Users, RemoveMember(t, s, v)
      PROVE  OneOwner'
  BY <1>3 DEF TypeOK, OneOwner, RemoveMember
<1>4. ASSUME NEW t \in tasks, NEW i \in invites, AcceptInvite(t, i) PROVE OneOwner'
  <2>1. i.space \in Spaces /\ i.role # "owner" /\ t.user \in Users
    BY <1>4, InvitesAssumption DEF TypeOK, Tasks, AcceptInvite
  <2>2. role[i.space][t.user] = "none"
    BY <1>4, <2>1 DEF AcceptInvite, Members
  <2> QED BY <1>4, <2>1, <2>2 DEF TypeOK, OneOwner, AcceptInvite
<1>5. CASE UNCHANGED <<owner, role>>
  BY <1>5 DEF OneOwner
<1> QED
  BY <1>1, <1>2, <1>3, <1>4, <1>5
  DEF Next, Register, VerifyLogin, Request, EndCall, InstallSession, Logout, FindAndKick, KickSessions,
      RevokeDevice, ResetPassword, RevokeUserSessions, EndSessionsOf, CreateInvite, RevokeInvite, Hello,
      CheckMember, Enter, Recheck, Obey, HangUp, Restart, roster, vars

(* The owner of a space, and nobody else, is a member with the role of     *)
(* owner: in every reachable state, for any number of users and spaces.    *)
THEOREM SpaceHasOneOwner == Spec => []OneOwner
<1>1. Init => OneOwner
  BY NobodyAssumption DEF Init, OneOwner
<1> QED BY <1>1, OwnerStep, RosterTyped, PTL DEF Spec

-------------------------------------------------------------------------------
(* One session per device. *)

(* Who has a session, or has verified a password, is registered.           *)
Registered ==
  /\ \A x \in sessions : x.user \in Range(accounts)
  /\ \A t \in tasks : t.do = "install" => t.user \in Range(accounts)

DeviceInv == Registered /\ DeviceOnce

(* A user that registers has no session yet, and a login looks for the     *)
(* session of its device in the step that makes one.                       *)
LEMMA DeviceStep == TypeOK /\ DeviceInv /\ [Next]_vars => DeviceInv'
<1> SUFFICES ASSUME TypeOK, DeviceInv, [Next]_vars PROVE DeviceInv'
  OBVIOUS
<1>1. ASSUME NEW u \in Users, NEW d \in Devices \cup {Nobody}, Register(u, d) PROVE DeviceInv'
  <2>1. Range(accounts') = Range(accounts) \cup {u}
    <3>1. accounts \in Seq(Users) /\ accounts' = Append(accounts, u)
      BY <1>1 DEF Register, TypeOK
    <3> QED BY <3>1 DEF Range
  <2>2. NewSession(u, d).user = u
    BY DEF NewSession
  <2>3. \A x \in sessions : x.user # u
    BY <1>1 DEF Register, DeviceInv, Registered
  <2> QED BY <1>1, <2>1, <2>2, <2>3 DEF Register, DeviceInv, Registered, DeviceOnce
<1>2. ASSUME NEW u \in Users, NEW d \in Devices \cup {Nobody}, VerifyLogin(u, d) PROVE DeviceInv'
  BY <1>2 DEF VerifyLogin, Start, Install, roster, DeviceInv, Registered, DeviceOnce
<1>3. ASSUME NEW t \in tasks, InstallSession(t) PROVE DeviceInv'
  <2> DEFINE same == {x \in sessions : t.device # Nobody /\ x.user = t.user /\ x.device = t.device}
  <2>1. /\ accounts' = accounts
        /\ t.user \in Range(accounts)
        /\ \A x \in tasks' : x.do = "install" => x \in tasks
    BY <1>3 DEF InstallSession, Becomes, Kick, DeviceInv, Registered
  <2>2. CASE same = {}
    <3>1. /\ NewSession(t.user, t.device).user = t.user
          /\ NewSession(t.user, t.device).device = t.device
      BY DEF NewSession
    <3>2. sessions' \subseteq sessions \cup {NewSession(t.user, t.device)}
      BY <1>3, <2>2 DEF InstallSession
    <3> QED BY <2>1, <2>2, <3>1, <3>2 DEF DeviceInv, Registered, DeviceOnce
  <2>3. CASE same # {}
    <3>1. sessions' \subseteq sessions
      BY <1>3, <2>3 DEF InstallSession
    <3> QED BY <2>1, <3>1 DEF DeviceInv, Registered, DeviceOnce
  <2> QED BY <2>2, <2>3
<1>4. ASSUME NEW t \in tasks, NEW v \in Users, ResetPassword(t, v) \/ RevokeUserSessions(t, v)
      PROVE  DeviceInv'
  <2>1. sessions' \subseteq sessions /\ accounts' = accounts
    BY <1>4 DEF ResetPassword, RevokeUserSessions, EndSessionsOf
  <2>2. \A x \in tasks' : x.do = "install" => \E y \in tasks : y.do = "install" /\ y.user = x.user
    <3>1. CASE RevokeUserSessions(t, v)
      BY <3>1 DEF RevokeUserSessions, EndSessionsOf, Kick
    <3>2. CASE ResetPassword(t, v)
      <4> DEFINE aged(x) == IF x.do = "install" /\ x.user = v THEN [x EXCEPT !.outdated = TRUE] ELSE x
      <4>1. tasks' = {aged(x) : x \in tasks \ {t}} \cup {Kick(Spaces, IdsOf(v))}
        BY <3>2 DEF ResetPassword, EndSessionsOf
      <4>2. \A x \in tasks : x.do = "install" => aged(x).do = "install" /\ aged(x).user = x.user
        BY DEF TypeOK, Tasks
      <4>3. \A x \in tasks : x.do # "install" => aged(x) = x
        OBVIOUS
      <4>4. Kick(Spaces, IdsOf(v)).do # "install"
        BY DEF Kick
      <4> HIDE DEF aged
      <4> QED BY <4>1, <4>2, <4>3, <4>4
    <3> QED BY <1>4, <3>1, <3>2
  <2> QED BY <2>1, <2>2 DEF DeviceInv, Registered, DeviceOnce
<1>5. CASE /\ accounts' = accounts /\ sessions' \subseteq sessions
           /\ \A x \in tasks' : x.do = "install" => x \in tasks
  BY <1>5 DEF DeviceInv, Registered, DeviceOnce
<1>6. ASSUME \/ \E x \in sessions : Request(x)
             \/ \E t \in tasks : EndCall(t) \/ Logout(t) \/ FindAndKick(t) \/ KickSessions(t)
             \/ \E t \in tasks, x \in sessions : RevokeDevice(t, x)
      PROVE  DeviceInv'
  <2>1. ASSUME NEW x \in sessions, Request(x) PROVE DeviceInv'
    BY <1>5, <2>1 DEF Request, Start, Call, roster
  <2>2. ASSUME NEW t \in tasks, EndCall(t) \/ KickSessions(t) PROVE DeviceInv'
    BY <1>5, <2>2 DEF EndCall, KickSessions, Becomes, roster
  <2>3. ASSUME NEW t \in tasks, FindAndKick(t) PROVE DeviceInv'
    BY <1>5, <2>3 DEF FindAndKick, Kick, Becomes, roster
  <2>4. ASSUME NEW t \in tasks, Logout(t) PROVE DeviceInv'
    BY <1>5, <2>4 DEF Logout, Becomes
  <2>5. ASSUME NEW t \in tasks, NEW x \in sessions, RevokeDevice(t, x) PROVE DeviceInv'
    BY <1>5, <2>5 DEF RevokeDevice, Becomes
  <2> QED BY <1>6, <2>1, <2>2, <2>3, <2>4, <2>5
<1>7. ASSUME \/ \E t \in tasks, s \in Spaces : CreateSpace(t, s)
             \/ \E t \in tasks, s \in Spaces, v \in Users : TransferOwnership(t, s, v) \/ RemoveMember(t, s, v)
             \/ \E t \in tasks, s \in Spaces, r \in InviteRoles, max \in Limits : CreateInvite(t, s, r, max)
             \/ \E t \in tasks, i \in invites : RevokeInvite(t, i) \/ AcceptInvite(t, i)
      PROVE  DeviceInv'
  <2>1. ASSUME NEW t \in tasks, NEW s \in Spaces, CreateSpace(t, s) PROVE DeviceInv'
    BY <1>5, <2>1 DEF CreateSpace, Becomes
  <2>2. ASSUME NEW t \in tasks, NEW s \in Spaces, NEW v \in Users, TransferOwnership(t, s, v)
        PROVE  DeviceInv'
    BY <1>5, <2>2 DEF TransferOwnership, Becomes
  <2>3. ASSUME NEW t \in tasks, NEW s \in Spaces, NEW v \in Users, RemoveMember(t, s, v)
        PROVE  DeviceInv'
    BY <1>5, <2>3 DEF RemoveMember, FindSessions, Becomes
  <2>4. ASSUME NEW t \in tasks, NEW s \in Spaces, NEW r \in InviteRoles, NEW max \in Limits,
               CreateInvite(t, s, r, max)
        PROVE  DeviceInv'
    BY <1>5, <2>4 DEF CreateInvite, Becomes
  <2>5. ASSUME NEW t \in tasks, NEW i \in invites, RevokeInvite(t, i) \/ AcceptInvite(t, i)
        PROVE  DeviceInv'
    BY <1>5, <2>5 DEF RevokeInvite, AcceptInvite, Becomes
  <2> QED BY <1>7, <2>1, <2>2, <2>3, <2>4, <2>5
<1>8. ASSUME \/ \E c \in Conns, x \in sessions, s \in Spaces : Hello(c, x, s)
             \/ \E c \in Conns : CheckMember(c) \/ Enter(c) \/ Recheck(c) \/ Obey(c) \/ HangUp(c)
             \/ Restart
             \/ UNCHANGED vars
      PROVE  DeviceInv'
  BY <1>5, <1>8 DEF Hello, CheckMember, Enter, Recheck, Obey, HangUp, Restart, roster, vars
<1> QED BY <1>1, <1>2, <1>3, <1>4, <1>6, <1>7, <1>8 DEF Next

(* A user has one session for a device, whatever logins, registrations and *)
(* revocations run together (install_session(), auth.rs:131).              *)
THEOREM OneSessionPerDevice == Spec => []DeviceOnce
<1>1. Init => DeviceInv
  BY DEF Init, DeviceInv, Registered, DeviceOnce
<1>2. Spec => []DeviceInv
  BY <1>1, DeviceStep, RosterTyped, PTL DEF Spec
<1>3. DeviceInv => DeviceOnce
  BY DEF DeviceInv
<1> QED BY <1>2, <1>3, PTL

-------------------------------------------------------------------------------
(* Removed members and ended sessions. *)

(* A session's user is the user of the connections under the session.      *)
Own ==
  \A c \in Conns, x \in sessions :
    conns[c].phase # "idle" /\ x.id = conns[c].session => x.user = conns[c].user

(* Connection c has a reason to stay open, or is about to be kicked. *)
Covered(c) ==
  Unkicked(conns[c]) =>
    \/ conns[c].session \in LiveIds /\ conns[c].user \in Members(conns[c].space)
    \/ conns[c].session \notin LiveIds /\ c \in silent
    \/ WillKick(conns[c])

(* New sessions have ids no connection refers to, so a connection keeps    *)
(* the user it was authenticated for.                                      *)
LEMMA OwnStep == TypeOK /\ Own /\ [Next]_vars => Own'
<1> SUFFICES ASSUME TypeOK, Own, [Next]_vars PROVE Own'
  OBVIOUS
<1>1. CASE conns' = conns /\ sessions' \subseteq sessions
  BY <1>1 DEF Own
<1>2. ASSUME NEW u, NEW d, NEW rest, FreeIds # {}, rest \subseteq sessions, conns' = conns,
             sessions' = rest \cup {NewSession(u, d)}
      PROVE  Own'
  <2>1. NewSession(u, d).id \in FreeIds
    BY <1>2 DEF NewSession
  <2>2. \A c \in Conns : conns[c].session # NewSession(u, d).id
    BY <2>1 DEF FreeIds
  <2> QED BY <1>2, <2>2 DEF Own
<1>3. ASSUME NEW c \in Conns, NEW x \in sessions, NEW s \in Spaces, Hello(c, x, s) PROVE Own'
  BY <1>3 DEF Own, Hello, TypeOK
<1>4. ASSUME NEW c \in Conns, CheckMember(c) \/ Enter(c) \/ Recheck(c) \/ Obey(c) \/ HangUp(c)
      PROVE  Own'
  <2>1. conns[c].phase # "idle" /\ sessions' = sessions
    BY <1>4 DEF CheckMember, Enter, Recheck, Obey, HangUp, roster
  <2>2. CASE Close(c)
    BY <2>1, <2>2 DEF Close, NoConn, TypeOK, Own
  <2>3. ASSUME NEW p \in {"cleared", "entered", "open"}, Advance(c, p) PROVE Own'
    BY <2>1, <2>3 DEF Advance, TypeOK, ConnRecords, Own
  <2> QED BY <1>4, <2>2, <2>3 DEF CheckMember, Enter, Recheck, Obey, HangUp
<1>5. ASSUME NEW t \in tasks, KickSessions(t) PROVE Own'
  <2>1. \A c \in Conns : Kicked(conns[c], t) => conns[c].phase # "idle"
    BY DEF Kicked, InRoom
  <2> QED BY <1>5, <2>1 DEF KickSessions, TypeOK, ConnRecords, NoConn, Own, roster
<1>6. CASE Restart
  BY <1>6 DEF Restart, NoConn, Own
<1>7. ASSUME NEW t \in tasks, InstallSession(t) PROVE Own'
  <2>1. PICK rest \in SUBSET sessions :
          \/ sessions' = rest
          \/ FreeIds # {} /\ sessions' = rest \cup {NewSession(t.user, t.device)}
    BY <1>7 DEF InstallSession
  <2>2. conns' = conns
    BY <1>7 DEF InstallSession
  <2> QED BY <1>1, <1>2, <2>1, <2>2
<1>8. ASSUME NEW u \in Users, NEW d \in Devices \cup {Nobody}, Register(u, d) PROVE Own'
  BY <1>2, <1>8 DEF Register
<1>9. ASSUME NEW t \in tasks,
              \/ EndCall(t) \/ Logout(t) \/ FindAndKick(t)
              \/ \E x \in sessions : RevokeDevice(t, x)
              \/ \E v \in Users : ResetPassword(t, v) \/ RevokeUserSessions(t, v)
       PROVE  Own'
  BY <1>1, <1>9
  DEF EndCall, Logout, FindAndKick, RevokeDevice, ResetPassword, RevokeUserSessions, EndSessionsOf, roster
<1>10. ASSUME NEW t \in tasks,
              \/ \E s \in Spaces : CreateSpace(t, s)
              \/ \E s \in Spaces, v \in Users : TransferOwnership(t, s, v) \/ RemoveMember(t, s, v)
              \/ \E s \in Spaces, r \in InviteRoles, max \in Limits : CreateInvite(t, s, r, max)
              \/ \E i \in invites : RevokeInvite(t, i) \/ AcceptInvite(t, i)
       PROVE  Own'
  BY <1>1, <1>10 DEF CreateSpace, TransferOwnership, RemoveMember, CreateInvite, RevokeInvite, AcceptInvite
<1>11. ASSUME \/ \E u \in Users, d \in Devices \cup {Nobody} : VerifyLogin(u, d)
              \/ \E x \in sessions : Request(x)
              \/ UNCHANGED vars
       PROVE  Own'
  BY <1>1, <1>11 DEF VerifyLogin, Request, roster, vars
<1> QED
  BY <1>3, <1>4, <1>5, <1>6, <1>7, <1>8, <1>9, <1>10, <1>11 DEF Next


(* Whatever ends a membership or a session either kicks the connections it *)
(* concerns, or is seen by their check after entering, or is silent.       *)
LEMMA CoveredStep ==
  ASSUME TypeOK, Own, \A c \in Conns : Covered(c), [Next]_vars, NEW c \in Conns
  PROVE  Covered(c)'
<1>0. Covered(c) /\ c \in Conns
  OBVIOUS
<1>00. Unkicked(conns[c]) => conns[c].space \in Spaces /\ conns[c].user \in Users
  BY DEF TypeOK, Unkicked, ConnRecords, NoConn
<1>1. ASSUME NEW u \in Users, NEW d \in Devices \cup {Nobody}, Register(u, d) PROVE Covered(c)'
  <2>1. conns[c].session # NewSession(u, d).id
    BY <1>1 DEF Register, NewSession, FreeIds
  <2> QED BY <1>0, <1>1, <2>1 DEF Register, Covered, Unkicked, WillKick, LiveIds, Members
<1>2. ASSUME \/ \E u \in Users, d \in Devices \cup {Nobody} : VerifyLogin(u, d)
             \/ \E x \in sessions : Request(x)
             \/ UNCHANGED vars
      PROVE  Covered(c)'
  BY <1>0, <1>2 DEF VerifyLogin, Request, Start, roster, vars, Covered, Unkicked, WillKick, LiveIds, Members
<1>3. ASSUME NEW t \in tasks, EndCall(t) PROVE Covered(c)'
  BY <1>0, <1>3 DEF EndCall, Becomes, roster, Covered, Unkicked, WillKick, LiveIds, Members
<1>4. ASSUME NEW t \in tasks, InstallSession(t) PROVE Covered(c)'
  <2> DEFINE gone == {x \in sessions : t.device # Nobody /\ x.user = t.user /\ x.device = Nobody}
  <2>1. /\ t.do = "install"
        /\ conns' = conns /\ role' = role
        /\ silent' = silent \cup {d \in Conns : conns[d].session \in {x.id : x \in gone}}
        /\ tasks \ {t} \subseteq tasks'
        /\ \/ sessions' = sessions \ gone
           \/ FreeIds # {} /\ sessions' = (sessions \ gone) \cup {NewSession(t.user, t.device)}
    BY <1>4 DEF InstallSession, Quietly, Becomes
  <2>2. FreeIds # {} => conns[c].session # NewSession(t.user, t.device).id
    BY DEF NewSession, FreeIds
  <2>3. conns[c].session \in LiveIds => conns[c].session \in LiveIds' \/ c \in silent'
    BY <2>1 DEF LiveIds
  <2>4. conns[c].session \in LiveIds' => conns[c].session \in LiveIds
    BY <2>1, <2>2 DEF LiveIds
  <2>5. Members(conns[c].space)' = Members(conns[c].space)
    BY <2>1 DEF Members
  <2>6. WillKick(conns[c]) => WillKick(conns[c])' \/ (conns[c].session \notin LiveIds' /\ c \in silent')
    <3>1. \A x \in tasks : x.do \in {"find", "kick"} => x \in tasks'
      BY <2>1
    <3>2. conns[c] = conns'[c]
      BY <2>1
    <3>3. CASE conns[c].session \in LiveIds'
      BY <3>1, <3>2, <3>3 DEF WillKick
    <3>4. CASE conns[c].session \notin LiveIds'
      BY <2>3, <3>1, <3>2, <3>4 DEF WillKick
    <3> QED BY <3>3, <3>4
  <2> QED BY <1>0, <2>1, <2>3, <2>4, <2>5, <2>6 DEF Covered, Unkicked
<1>5. ASSUME NEW t \in tasks, Logout(t) PROVE Covered(c)'
  BY <1>0, <1>5 DEF Logout, Quietly, Becomes, Covered, Unkicked, WillKick, LiveIds, Members
<1>6. ASSUME NEW t \in tasks, NEW x \in sessions, RevokeDevice(t, x) PROVE Covered(c)'
  BY <1>0, <1>6 DEF RevokeDevice, Quietly, Becomes, Covered, Unkicked, WillKick, LiveIds, Members
<1>7. ASSUME NEW t \in tasks, NEW v \in Users, ResetPassword(t, v) \/ RevokeUserSessions(t, v)
      PROVE  Covered(c)'
  <2>1. /\ t.do = "call"
        /\ conns' = conns /\ role' = role /\ silent' = silent
        /\ sessions' = {x \in sessions : x.user # v}
        /\ Kick(Spaces, IdsOf(v)) \in tasks'
        /\ \A x \in tasks : x.do \in {"find", "kick"} => x \in tasks'
    BY <1>7 DEF ResetPassword, RevokeUserSessions, EndSessionsOf
  <2>2. ASSUME Unkicked(conns[c]), conns[c].session \in LiveIds, conns[c].session \notin LiveIds'
        PROVE  WillKick(conns[c])'
    <3>1. conns[c].session \in IdsOf(v)
      BY <2>1, <2>2 DEF LiveIds, IdsOf
    <3> QED BY <1>00, <2>1, <2>2, <3>1 DEF WillKick, Kick
  <2>3. conns[c].session \in LiveIds' => conns[c].session \in LiveIds
    BY <2>1 DEF LiveIds
  <2>4. Members(conns[c].space)' = Members(conns[c].space)
    BY <2>1 DEF Members
  <2>5. CASE conns[c].session \in LiveIds <=> conns[c].session \in LiveIds'
    <3>1. WillKick(conns[c]) => WillKick(conns[c])'
      BY <2>1, <2>5 DEF WillKick
    <3> QED BY <1>0, <2>1, <2>4, <2>5, <3>1 DEF Covered, Unkicked
  <2> QED BY <2>1, <2>2, <2>3, <2>5 DEF Covered, Unkicked
<1>8. ASSUME NEW t \in tasks, FindAndKick(t) PROVE Covered(c)'
  <2>1. /\ t.do = "find"
        /\ UNCHANGED <<conns, role, silent, sessions>>
        /\ tasks \ {t} \subseteq tasks'
        /\ Kick({t.space}, IdsOf(t.user)) \in tasks'
    BY <1>8 DEF FindAndKick, Becomes, roster
  <2>2. LiveIds' = LiveIds /\ Members(conns[c].space)' = Members(conns[c].space)
    BY <2>1 DEF LiveIds, Members
  <2>3. ASSUME Unkicked(conns[c]), t.user = conns[c].user, t.space = conns[c].space,
               conns[c].session \in LiveIds
        PROVE  WillKick(conns[c])'
    <3>1. conns[c].session \in IdsOf(t.user)
      BY <2>3 DEF Own, Unkicked, LiveIds, IdsOf
    <3> QED BY <2>1, <2>3, <3>1 DEF WillKick, Kick
  <2>4. Unkicked(conns[c]) /\ WillKick(conns[c]) => WillKick(conns[c])'
    BY <2>1, <2>2, <2>3 DEF WillKick
  <2> QED BY <1>0, <2>1, <2>2, <2>4 DEF Covered, Unkicked
<1>9. ASSUME NEW t \in tasks, KickSessions(t) PROVE Covered(c)'
  BY <1>0, <1>9 DEF KickSessions, Kicked, InRoom, Becomes, roster, Covered, Unkicked, WillKick, LiveIds, Members
<1>10. ASSUME NEW t \in tasks, NEW s \in Spaces, CreateSpace(t, s) PROVE Covered(c)'
  BY <1>0, <1>10 DEF CreateSpace, Becomes, TypeOK, Covered, Unkicked, WillKick, LiveIds, Members
<1>11. ASSUME NEW t \in tasks, NEW s \in Spaces, NEW v \in Users, TransferOwnership(t, s, v)
       PROVE  Covered(c)'
  <2>1. /\ t.do = "call"
        /\ UNCHANGED <<conns, silent, sessions>>
        /\ tasks' = tasks \ {t}
        /\ role' = [role EXCEPT ![s][v] = "owner", ![s][t.user] = "editor"]
    BY <1>11 DEF TransferOwnership, Becomes
  <2>2. conns[c].space \in Spaces => Members(conns[c].space) \subseteq Members(conns[c].space)'
    BY <2>1 DEF Members, TypeOK
  <2>3. LiveIds' = LiveIds
    BY <2>1 DEF LiveIds
  <2>4. WillKick(conns[c]) => WillKick(conns[c])'
    BY <2>1, <2>3 DEF WillKick
  <2> QED BY <1>0, <1>00, <2>1, <2>2, <2>3, <2>4 DEF Covered, Unkicked
<1>12. ASSUME NEW t \in tasks, NEW s \in Spaces, NEW v \in Users, RemoveMember(t, s, v)
       PROVE  Covered(c)'
  <2>1. /\ t.do = "call"
        /\ UNCHANGED <<conns, silent, sessions>>
        /\ tasks' = (tasks \ {t}) \cup {FindSessions(v, s)}
        /\ role' = [role EXCEPT ![s][v] = "none"]
    BY <1>12 DEF RemoveMember, Becomes
  <2>2. LiveIds' = LiveIds
    BY <2>1 DEF LiveIds
  <2>3. WillKick(conns[c]) => WillKick(conns[c])'
    BY <2>1, <2>2 DEF WillKick
  <2>4. CASE conns[c].space = s /\ conns[c].user = v /\ conns[c].session \in LiveIds
    <3>1. FindSessions(v, s) \in tasks' /\ conns'[c] = conns[c]
      BY <2>1
    <3>2. WillKick(conns[c])'
      BY <2>2, <2>4, <3>1 DEF WillKick, FindSessions
    <3> QED BY <3>2 DEF Covered
  <2>5. CASE ~(conns[c].space = s /\ conns[c].user = v)
    <3>1. Unkicked(conns[c]) /\ conns[c].user \in Members(conns[c].space)
            => conns[c].user \in Members(conns[c].space)'
      BY <1>00, <2>1, <2>5 DEF Members, TypeOK
    <3> QED BY <1>0, <2>1, <2>2, <2>3, <3>1 DEF Covered, Unkicked
  <2>6. CASE conns[c].session \notin LiveIds
    BY <1>0, <2>1, <2>2, <2>3, <2>6 DEF Covered, Unkicked
  <2> QED BY <2>4, <2>5, <2>6
<1>13. ASSUME NEW t \in tasks, NEW s \in Spaces, NEW r \in InviteRoles, NEW max \in Limits,
              CreateInvite(t, s, r, max)
       PROVE  Covered(c)'
  BY <1>0, <1>13 DEF CreateInvite, Becomes, Covered, Unkicked, WillKick, LiveIds, Members
<1>14. ASSUME NEW t \in tasks, NEW i \in invites, RevokeInvite(t, i) PROVE Covered(c)'
  BY <1>0, <1>14 DEF RevokeInvite, Becomes, Covered, Unkicked, WillKick, LiveIds, Members
<1>15. ASSUME NEW t \in tasks, NEW i \in invites, AcceptInvite(t, i) PROVE Covered(c)'
  BY <1>0, <1>15 DEF AcceptInvite, Becomes, TypeOK, Covered, Unkicked, WillKick, LiveIds, Members
<1>16. ASSUME NEW d \in Conns, NEW x \in sessions, NEW s \in Spaces, Hello(d, x, s) PROVE Covered(c)'
  BY <1>0, <1>16 DEF Hello, TypeOK, Covered, Unkicked, WillKick, LiveIds, Members
<1>17. ASSUME NEW d \in Conns, CheckMember(d) \/ Enter(d) \/ Obey(d) \/ HangUp(d) PROVE Covered(c)'
  <2>1. UNCHANGED <<tasks, roster>>
    BY <1>17 DEF CheckMember, Enter, Obey, HangUp
  <2>2. conns'[c] = conns[c] \/ conns'[c].phase # "open"
    BY <1>17 DEF CheckMember, Enter, Obey, HangUp, Close, Advance, NoConn, TypeOK, ConnRecords
  <2> QED BY <1>0, <2>1, <2>2 DEF roster, Covered, Unkicked, WillKick, LiveIds, Members
<1>18. ASSUME NEW d \in Conns, Recheck(d) PROVE Covered(c)'
  <2>1. UNCHANGED <<tasks, roster>>
    BY <1>18 DEF Recheck
  <2>2. CASE conns'[c] = conns[c] \/ conns'[c].phase # "open"
    BY <1>0, <2>1, <2>2 DEF roster, Covered, Unkicked, WillKick, LiveIds, Members
  <2>3. CASE StillWelcome(conns[c]) /\ conns'[c] = [conns[c] EXCEPT !.phase = "open"]
    <3>1. conns[c].session \in LiveIds' /\ conns[c].user \in Members(conns[c].space)'
      BY <2>1, <2>3 DEF StillWelcome, roster, LiveIds, Members
    <3>2. conns'[c].session = conns[c].session /\ conns'[c].user = conns[c].user
          /\ conns'[c].space = conns[c].space
      BY <2>3
    <3> QED BY <3>1, <3>2 DEF Covered
  <2>4. CASE c # d
    BY <1>18, <2>2, <2>4 DEF Recheck, Close, Advance, TypeOK
  <2>5. CASE c = d
    BY <1>18, <2>2, <2>3, <2>5 DEF Recheck, Close, Advance, NoConn, TypeOK
  <2> QED BY <2>4, <2>5
<1>19. CASE Restart
  BY <1>19 DEF Restart, NoConn, Covered, Unkicked
<1> QED
  BY <1>1, <1>2, <1>3, <1>4, <1>5, <1>6, <1>7, <1>8, <1>9, <1>10, <1>11, <1>12, <1>13, <1>14, <1>15,
     <1>16, <1>17, <1>18, <1>19 DEF Next


(* The inductive strengthening of the two invariants about kicks. *)
KickInv == TypeOK /\ Own /\ \A c \in Conns : Covered(c)

LEMMA KickInvInvariant == Spec => []KickInv
<1>1. Init => KickInv
  <2>1. Init => TypeOK
    BY DEF Init, TypeOK, ConnRecords
  <2> QED BY <2>1 DEF Init, KickInv, Own, Covered, Unkicked, NoConn
<1>2. KickInv /\ [Next]_vars => KickInv'
  <2> SUFFICES ASSUME KickInv, [Next]_vars PROVE KickInv'
    OBVIOUS
  <2>1. TypeOK'
    <3>1. CASE Next
      BY <3>1, SessionTypes, SpaceTypes, ConnTypes DEF Next, KickInv
    <3>2. CASE UNCHANGED vars
      BY <3>2 DEF TypeOK, vars, KickInv
    <3> QED BY <3>1, <3>2
  <2> QED BY <2>1, OwnStep, CoveredStep DEF KickInv
<1> QED BY <1>1, <1>2, PTL DEF Spec

(* A removed member's checked connection is kicked or about to be, however *)
(* the removal and the connection's entering interleave.                   *)
THEOREM RemovedMembersKicked == Spec => []RemovedAreKicked
<1>1. KickInv => RemovedAreKicked
  BY DEF KickInv, Covered, RemovedAreKicked
<1> QED BY <1>1, KickInvInvariant, PTL

(* A connection whose session has ended is kicked or about to be, unless   *)
(* the session ended by a request that kicks nobody.                       *)
THEOREM RevokedSessionsKicked == Spec => []RevokedAreKicked
<1>1. KickInv => RevokedAreKicked
  BY DEF KickInv, Covered, RevokedAreKicked
<1> QED BY <1>1, KickInvInvariant, PTL

===============================================================================
