--------------------------- MODULE ServiceDirectory ---------------------------
(***************************************************************************)
(* The services plugins offer each other: one entry of the directory and   *)
(* the announcements of its changes (plugin_runtime/service_dir.rs), with  *)
(* what instance.rs contributes, the sessions of the plugins and their     *)
(* sweep.  Calls are module ServiceCalls.                                  *)
(*                                                                         *)
(* The directory is changed under its lock; after that, and without it,    *)
(* the same thread takes a snapshot and tells every plugin in turn.  A     *)
(* thread is the shell's, the reader of a plugin's output or the one that  *)
(* sweeps a session that is over.  A session may start while the sweep of  *)
(* the one before is still under way (a failure next to a start, module    *)
(* PluginInstance).  The methods a provider declares are left out.         *)
(***************************************************************************)
EXTENDS Naturals, Sequences, SequencesExt

CONSTANTS
  Plugins,
  Host,       \* the implementation built in: Active::Builtin
  Nobody,     \* no provider
  MaxStarts,  \* bound: sessions of plugins
  MaxEdits    \* bound: changes of the entry by the shell and the plugins

ASSUME ServiceAssumption ==
  /\ MaxStarts \in Nat /\ MaxEdits \in Nat
  /\ Host # Nobody /\ {Host, Nobody} \cap Plugins = {}

ShellThread == <<"shell", Host>>
Listener(p) == <<"reader", p>>
Sweeper(p) == <<"sweeper", p>>
Tellers == {ShellThread} \cup ({"reader", "sweeper"} \X Plugins)

(* A service may have an implementation built in that plugins can replace, *)
(* one that nothing replaces, or none.  The user can switch off the owner  *)
(* of the first; one of the platform is like one that stays switched on.   *)
Kinds == {"optional", "fixed", "external"}

VARIABLES
  kind,        \* which kind the service is
  enabled,     \* builtin_enabled
  candidates,  \* candidates, in order of registration
  chosen,      \* active; Nobody when there is no entry
  edits,       \* changes so far
  starts,      \* sessions so far
  live,        \* plugins whose session is active
  ending,      \* plugins whose services a sweep is about to drop
  teller,      \* teller[th]: [at, said, left]
  overlapped,  \* history: two announcements were told at the same time
  known        \* known[p]: what the session of p was told last

entryVars == <<kind, enabled, candidates, chosen, edits>>
sessionVars == <<starts, live, ending>>
tellVars == <<teller, overlapped, known>>
serviceVars == <<entryVars, sessionVars, tellVars>>

-------------------------------------------------------------------------------
(* The entry. *)

HasBuiltin == kind # "external"
BuiltinAvailable == HasBuiltin /\ enabled
Available == BuiltinAvailable \/ candidates # <<>>

(* route(): who gets a call, or Nobody. *)
Route ==
  CASE ~Available -> Nobody
    [] chosen = Host /\ ~BuiltinAvailable -> Nobody
    [] OTHER -> chosen

(* changed(): what plugins are told. *)
Changed ==
  [available |-> Available,
   provider |-> IF chosen \in Plugins /\ Available THEN chosen ELSE Nobody]

Has(p) == \E i \in DOMAIN candidates : candidates[i] = p
PlaceOf(p) == CHOOSE i \in DOMAIN candidates : candidates[i] = p

Quiet(th) == teller[th].at = "idle"

(* broadcast_service_changed() comes next on this thread, if it does. *)
Announces(th, does) ==
  teller' = IF does THEN [teller EXCEPT ![th].at = "announce"] ELSE teller

(* remove_provider(): the rest of the candidates (a plugin is one at most  *)
(* once) and who is chosen now.                                            *)
RemoveProvider(p) ==
  /\ candidates' = IF Has(p) THEN RemoveAt(candidates, PlaceOf(p)) ELSE candidates
  /\ chosen' = CASE chosen # p -> chosen
                 [] chosen = p /\ BuiltinAvailable -> Host
                 [] chosen = p /\ ~BuiltinAvailable /\ candidates' # <<>> -> Head(candidates')
                 [] OTHER -> IF HasBuiltin THEN Host ELSE Nobody

(* The reader of a session in whose name it may still act. *)
Ready(p) == p \in live /\ Quiet(Listener(p))

Edit == edits < MaxEdits /\ edits' = edits + 1 /\ UNCHANGED kind

(* register() in the session gate of p: only where the implementation      *)
(* built in is absent does a candidate take over at once.                  *)
RegisterService(p) ==
  /\ Ready(p)
  /\ kind # "fixed"
  /\ Edit
  /\ candidates' = IF Has(p) THEN candidates ELSE Append(candidates, p)
  /\ LET takesOver == chosen \notin Plugins /\ ~BuiltinAvailable
     IN /\ chosen' = IF takesOver THEN Head(candidates') ELSE chosen
        /\ Announces(Listener(p), takesOver)
  /\ UNCHANGED <<enabled, sessionVars, overlapped, known>>

UnregisterService(p) ==
  /\ Ready(p)
  /\ Has(p)
  /\ Edit
  /\ RemoveProvider(p)
  /\ Announces(Listener(p), chosen = p)
  /\ UNCHANGED <<enabled, sessionVars, overlapped, known>>

(* set_active(), from the settings page. *)
SetProvider(target) ==
  /\ Quiet(ShellThread)
  /\ IF target = Host THEN BuiltinAvailable ELSE kind # "fixed" /\ Has(target)
  /\ Edit
  /\ chosen' = target
  /\ Announces(ShellThread, TRUE)
  /\ UNCHANGED <<enabled, candidates, sessionVars, overlapped, known>>

(* Mutant of SetOwnerEnabled: no candidate takes over. *)
SetOwnerEnabledOnly ==
  /\ Quiet(ShellThread)
  /\ kind = "optional"
  /\ Edit
  /\ enabled' = ~enabled
  /\ Announces(ShellThread, TRUE)
  /\ UNCHANGED <<candidates, chosen, sessionVars, overlapped, known>>

(* set_owner_enabled(): the first candidate takes over from an             *)
(* implementation that is switched off.                                    *)
SetOwnerEnabled ==
  /\ Quiet(ShellThread)
  /\ kind = "optional"
  /\ Edit
  /\ enabled' = ~enabled
  /\ chosen' = IF enabled /\ chosen = Host /\ candidates # <<>> THEN Head(candidates)
               ELSE chosen
  /\ Announces(ShellThread, TRUE)
  /\ UNCHANGED <<candidates, sessionVars, overlapped, known>>

-------------------------------------------------------------------------------
(* Announcements. *)

TakeSnapshot(th) ==
  /\ teller[th].at = "announce"
  /\ teller' = [teller EXCEPT ![th] = [at |-> "tell", said |-> Changed, left |-> Plugins]]
  /\ overlapped' = \E t \in Tellers : teller[t].at = "tell"
  /\ UNCHANGED <<entryVars, sessionVars, known>>

(* A plugin without a process hears nothing. *)
Tell(th, p) ==
  /\ teller[th].at = "tell"
  /\ p \in teller[th].left
  /\ known' = IF p \in live THEN [known EXCEPT ![p] = teller[th].said] ELSE known
  /\ teller' = IF teller[th].left = {p}
                 THEN [teller EXCEPT ![th] = [at |-> "idle", said |-> Nobody, left |-> {}]]
                 ELSE [teller EXCEPT ![th].left = @ \ {p}]
  /\ UNCHANGED <<entryVars, sessionVars, overlapped>>

-------------------------------------------------------------------------------
(* Sessions. *)

StartSession(p) ==
  /\ p \notin live
  /\ starts < MaxStarts
  /\ starts' = starts + 1
  /\ live' = live \cup {p}
  /\ known' = [known EXCEPT ![p] = Nobody]
  /\ UNCHANGED <<entryVars, ending, teller, overlapped>>

(* The token moves on; release_resources() follows.  Bound: one sweep of a *)
(* plugin at a time.                                                       *)
EndSession(p) ==
  /\ p \in live
  /\ p \notin ending /\ Quiet(Sweeper(p))
  /\ live' = live \ {p}
  /\ ending' = ending \cup {p}
  /\ UNCHANGED <<entryVars, starts, tellVars>>

(* drop_plugin_services(), after the gate of p. *)
DropServices(p) ==
  /\ p \in ending
  /\ Quiet(Listener(p))
  /\ ending' = ending \ {p}
  /\ IF Has(p) THEN RemoveProvider(p) ELSE UNCHANGED <<candidates, chosen>>
  /\ Announces(Sweeper(p), Has(p))
  /\ UNCHANGED <<kind, enabled, edits, starts, live, overlapped, known>>

-------------------------------------------------------------------------------
ServiceInit ==
  /\ kind \in Kinds
  /\ enabled = TRUE
  /\ candidates = <<>>
  /\ chosen = IF HasBuiltin THEN Host ELSE Nobody
  /\ edits = 0
  /\ starts = 0
  /\ live = {}
  /\ ending = {}
  /\ teller = [th \in Tellers |-> [at |-> "idle", said |-> Nobody, left |-> {}]]
  /\ overlapped = FALSE
  /\ known = [p \in Plugins |-> Nobody]

ServiceNext ==
  \/ \E p \in Plugins : \/ RegisterService(p) \/ UnregisterService(p)
                        \/ StartSession(p) \/ EndSession(p)
                        \/ DropServices(p)
  \/ \E target \in Plugins \cup {Host} : SetProvider(target)
  \/ SetOwnerEnabled
  \/ \E th \in Tellers : TakeSnapshot(th) \/ \E p \in Plugins : Tell(th, p)

ServiceSpec == ServiceInit /\ [][ServiceNext]_serviceVars

-------------------------------------------------------------------------------
(* Properties. *)

Views == [available : BOOLEAN, provider : Plugins \cup {Nobody}]

(* Every variable has its type, and candidates are registered once.        *)
ServiceTypeOK ==
  /\ kind \in Kinds /\ enabled \in BOOLEAN
  /\ candidates \in Seq(Plugins)
  /\ \A i, j \in DOMAIN candidates : candidates[i] = candidates[j] => i = j
  /\ chosen \in Plugins \cup {Host, Nobody}
  /\ edits \in 0..MaxEdits
  /\ starts \in 0..MaxStarts
  /\ live \subseteq Plugins /\ ending \subseteq Plugins
  /\ teller \in [Tellers -> [at : {"idle", "announce", "tell"},
                             said : Views \cup {Nobody}, left : SUBSET Plugins]]
  /\ overlapped \in BOOLEAN
  /\ known \in [Plugins -> Views \cup {Nobody}]

(* Once everyone has been told, what a plugin was told last is where a     *)
(* call goes: a service it holds to be there answers, by the provider it   *)
(* heard of, and one it holds to be gone does not (service_dir.rs:791,     *)
(* "活动提供者变化广播给全部运行中插件").  Two announcements told at the   *)
(* same time may reach a plugin in the wrong order.                        *)
KnownIsRouted ==
  (\A th \in Tellers : Quiet(th)) /\ ~overlapped =>
    \A p \in live : known[p] # Nobody =>
      Route = CASE known[p].provider # Nobody -> known[p].provider
                [] known[p].available /\ known[p].provider = Nobody -> Host
                [] OTHER -> Nobody

===============================================================================
