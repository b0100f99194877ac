----------------------------- MODULE ServiceCalls -----------------------------
(***************************************************************************)
(* The calls from plugin to plugin that the host forwards: the bridge of   *)
(* plugin_runtime/service_dir.rs, with the sessions of instance.rs.        *)
(*                                                                         *)
(* The reader of the caller's output reads the directory (module           *)
(* ServiceDirectory: here any plugin may come out, and be gone the next    *)
(* moment), books the call in the gate of the provider, takes the caller's *)
(* token and leaves the rest to a waiter.  A plugin whose session ends is  *)
(* swept later, and may have a new session by then (module                 *)
(* PluginInstance).                                                        *)
(***************************************************************************)
EXTENDS Naturals

CONSTANTS
  Partners,     \* the plugins
  NoOne,
  MaxSessions,  \* bound: sessions of a plugin
  MaxCalls      \* bound: calls at a time, numbered anew when they are over

ASSUME CallsAssumption ==
  MaxSessions \in Nat /\ MaxCalls \in Nat /\ NoOne \notin Partners

ServiceCall == 1..MaxCalls

VARIABLES
  session,   \* session[p]: sessions of p so far
  open,      \* plugins whose session is active
  sweeping,  \* plugins whose calls a sweep has yet to end
  caller, asker, provider,  \* of a call: who asks, in which session, whom
  stage,     \* where the call stands
  tokenOf,   \* caller_token, 0 when no session has it
  booked,    \* service_calls
  strayed,   \* history: calls answered to a session that did not ask
  slipped,   \* history: calls whose asker ended in the middle of a step
  unswept    \* history: those of them that were not booked yet

partyVars == <<session, open, sweeping>>
peopleVars == <<caller, asker, provider>>
callVars == <<partyVars, peopleVars, stage, tokenOf, booked, strayed, slipped, unswept>>

To(c, where) == stage' = [stage EXCEPT ![c] = where]

Token(p) == IF p \in open THEN session[p] ELSE 0

(* The caller's own thread is at work on the call, or a write to it is.    *)
Midstep(c) == stage[c] \in {"routed", "booked", "write"}

-------------------------------------------------------------------------------
(* Sessions. *)

OpenSession(p) ==
  /\ p \notin open
  /\ session[p] < MaxSessions
  /\ session' = [session EXCEPT ![p] = @ + 1]
  /\ open' = open \cup {p}
  /\ UNCHANGED <<sweeping, peopleVars, stage, tokenOf, booked, strayed, slipped, unswept>>

(* session_active goes down and the token moves on; the sweep follows. *)
CloseSession(p) ==
  /\ p \in open
  /\ open' = open \ {p}
  /\ sweeping' = sweeping \cup {p}
  /\ slipped' = slipped \cup {c \in ServiceCall : caller[c] = p /\ Midstep(c)}
  /\ unswept' = unswept \cup {c \in ServiceCall : caller[c] = p /\ stage[c] = "routed"}
  /\ UNCHANGED <<session, peopleVars, stage, tokenOf, booked, strayed>>

(* Mutant of FailCalls: the calls p asked wait on. *)
FailProvided(p) ==
  /\ p \in sweeping
  /\ sweeping' = sweeping \ {p}
  /\ booked' = {c \in booked : p # provider[c]}
  /\ UNCHANGED <<session, open, peopleVars, stage, tokenOf, strayed, slipped, unswept>>

(* fail_service_calls_of(): the calls p was to answer and those it asked. *)
FailCalls(p) ==
  /\ p \in sweeping
  /\ sweeping' = sweeping \ {p}
  /\ booked' = {c \in booked : p \notin {provider[c], caller[c]}}
  /\ UNCHANGED <<session, open, peopleVars, stage, tokenOf, strayed, slipped, unswept>>

-------------------------------------------------------------------------------
(* Calls. *)

(* A reader handles one request after the other.                           *)
Ask(c, p, q) ==
  /\ stage[c] = "none"
  /\ p \in open
  /\ \A d \in ServiceCall : stage[d] \in {"routed", "booked"} => caller[d] # p
  /\ To(c, "routed")
  /\ caller' = [caller EXCEPT ![c] = p]
  /\ asker' = [asker EXCEPT ![c] = session[p]]
  /\ provider' = [provider EXCEPT ![c] = q]
  /\ slipped' = slipped \ {c}
  /\ unswept' = unswept \ {c}
  /\ strayed' = strayed \ {c}
  /\ UNCHANGED <<partyVars, tokenOf, booked>>

(* register_service_call(), with_active_session() of the provider: without *)
(* a session of it the call is refused.                                    *)
Book(c) ==
  /\ stage[c] = "routed"
  /\ IF provider[c] \in open THEN To(c, "booked") /\ booked' = booked \cup {c}
     ELSE To(c, "write") /\ UNCHANGED booked
  /\ UNCHANGED <<partyVars, peopleVars, tokenOf, strayed, slipped, unswept>>

(* The caller's token is taken only now, the waiter starts, the provider   *)
(* is told.                                                                *)
Dispatch(c) ==
  /\ stage[c] = "booked"
  /\ To(c, "wait")
  /\ tokenOf' = [tokenOf EXCEPT ![c] = Token(caller[c])]
  /\ UNCHANGED <<partyVars, peopleVars, booked, strayed, slipped, unswept>>

(* resolve_service_call(): the answer to a call that was closed is refused. *)
Resolve(c) ==
  /\ stage[c] = "wait"
  /\ c \in booked
  /\ booked' = booked \ {c}
  /\ UNCHANGED <<partyVars, peopleVars, stage, tokenOf, strayed, slipped, unswept>>

(* Nothing is left of a call but what became of its answer.                *)
Over(c) ==
  /\ To(c, "none")
  /\ caller' = [caller EXCEPT ![c] = NoOne]
  /\ asker' = [asker EXCEPT ![c] = 0]
  /\ provider' = [provider EXCEPT ![c] = NoOne]
  /\ tokenOf' = [tokenOf EXCEPT ![c] = 0]

(* Mutant of Wake: the outcome is written whatever the session is. *)
WakeAnyway(c) ==
  /\ stage[c] = "wait"
  /\ booked' = booked \ {c}
  /\ To(c, "write")
  /\ UNCHANGED <<partyVars, peopleVars, tokenOf, strayed, slipped, unswept>>

(* The waiter has its outcome, or its 30 s are over and it closes the      *)
(* call: respond_if_current() looks at the session.                        *)
Wake(c) ==
  /\ stage[c] = "wait"
  /\ booked' = booked \ {c}
  /\ IF tokenOf[c] # 0 /\ Token(caller[c]) = tokenOf[c]
     THEN To(c, "write") /\ UNCHANGED <<peopleVars, tokenOf>>
     ELSE Over(c)
  /\ UNCHANGED <<partyVars, strayed, slipped, unswept>>

(* respond() writes to whatever session the plugin has. *)
WriteAnswer(c) ==
  /\ stage[c] = "write"
  /\ Over(c)
  /\ strayed' = IF Token(caller[c]) \in {0, asker[c]} THEN strayed ELSE strayed \cup {c}
  /\ UNCHANGED <<partyVars, booked, slipped, unswept>>

-------------------------------------------------------------------------------
CallsInit ==
  /\ session = [p \in Partners |-> 0]
  /\ open = {}
  /\ sweeping = {}
  /\ caller = [c \in ServiceCall |-> NoOne]
  /\ asker = [c \in ServiceCall |-> 0]
  /\ provider = [c \in ServiceCall |-> NoOne]
  /\ stage = [c \in ServiceCall |-> "none"]
  /\ tokenOf = [c \in ServiceCall |-> 0]
  /\ booked = {}
  /\ strayed = {}
  /\ slipped = {}
  /\ unswept = {}

CallsNext ==
  \/ \E p \in Partners : OpenSession(p) \/ CloseSession(p) \/ FailCalls(p)
  \/ \E c \in ServiceCall : \/ \E p, q \in Partners : Ask(c, p, q)
                            \/ Book(c) \/ Dispatch(c) \/ Resolve(c)
                            \/ Wake(c) \/ WriteAnswer(c)

CallsSpec == CallsInit /\ [][CallsNext]_callVars

-------------------------------------------------------------------------------
(* Properties. *)

(* Every variable has its type.                                            *)
CallsTypeOK ==
  /\ session \in [Partners -> 0..MaxSessions]
  /\ open \subseteq Partners /\ sweeping \subseteq Partners
  /\ caller \in [ServiceCall -> Partners \cup {NoOne}]
  /\ asker \in [ServiceCall -> 0..MaxSessions]
  /\ provider \in [ServiceCall -> Partners \cup {NoOne}]
  /\ stage \in [ServiceCall -> {"none", "routed", "booked", "wait", "write"}]
  /\ tokenOf \in [ServiceCall -> 0..MaxSessions]
  /\ booked \subseteq ServiceCall
  /\ strayed \subseteq ServiceCall /\ slipped \subseteq ServiceCall /\ unswept \subseteq slipped

(* No call waits on a plugin that is over and swept, be it the one to      *)
(* answer or the one that asked (service_dir.rs:753-754, "两个方向都要     *)
(* 收场，不能等超时"); but one whose asker ended before it was booked is   *)
(* missed by the sweep.                                                    *)
NoneForsaken ==
  \A c \in booked :
    /\ provider[c] \in open \cup sweeping
    /\ c \in unswept \/ (asker[c] = Token(caller[c])) \/ caller[c] \in sweeping

(* An answer goes to the session that asked, never to the one the plugin   *)
(* has by then (service_dir.rs:684, "写回会串会话"), as long as that       *)
(* session did not end within the handler or a write.                      *)
AnswersOwn == strayed \subseteq slipped

===============================================================================
