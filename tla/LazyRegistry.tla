---------------------------- MODULE LazyRegistry ----------------------------
(***************************************************************************)
(* LazyRegistry of taskferry/core/registry.py, the registry of publishers   *)
(* (taskferry_events/registry.py) and of schedulers                         *)
(* (taskferry_scheduler/registry.py): providers that are built on their     *)
(* first access, by threads that share two dictionaries and no lock.  Each  *)
(* access of a dictionary is a step of its own.                             *)
(*                                                                         *)
(* Instances are numbered as they are made.                                 *)
(***************************************************************************)
EXTENDS Naturals, Sequences, FiniteSets

CONSTANTS Clients,    \* threads
          Aliases,
          Factories,  \* what registrations may replace a factory with
          Importable, \* the factories whose callable resolve_factory finds
          MaxMade,    \* bound on the instances of one behaviour
          MaxChanges  \* bound on registrations, resets and clears

ASSUME RegistryAssumption ==
    MaxMade \in Nat /\ MaxChanges \in Nat

None == "none"

VARIABLES factories,  \* _factories, None for no entry
          instances,  \* _instances, 0 for no entry
          made,       \* the factory of each instance made so far
          access,     \* each client's __getitem__: the alias, what it took,
                      \* what it made, and whether a change has overlapped it
          held,       \* the instance each client was last given, 0 for none
          settled,    \* clients given one when nobody was building, and since
                      \* then no change
          stale,      \* instances whose making a change has overlapped
          dropping,   \* aliases whose instances a change has still to drop
          changes

registryVars == <<factories, instances, made, access, held, settled, stale, dropping, changes>>

NoAccess == [at |-> "idle", alias |-> None, factory |-> None, made |-> 0, late |-> FALSE]

\* the registry begins with what the application's configuration registers
RegistryInit(registered) ==
    /\ factories = registered
    /\ instances = [a \in Aliases |-> 0]
    /\ made = <<>>
    /\ access = [c \in Clients |-> NoAccess]
    /\ held = [c \in Clients |-> 0]
    /\ settled = {}
    /\ stale = {}
    /\ dropping = {}
    /\ changes = 0

Goto(c, label) == access' = [access EXCEPT ![c].at = label]

Building(a) == {c \in Clients : access[c].alias = a /\ access[c].at \in {"take", "build", "store"}}

-----------------------------------------------------------------------------
\* __getitem__

Begin(c, a) ==
    /\ access[c].at = "idle"
    /\ access' = [access EXCEPT ![c] =
           [NoAccess EXCEPT !.alias = a, !.at = IF instances[a] = 0 THEN "take" ELSE "return"]]
    /\ settled' = settled \ {c}
    /\ UNCHANGED <<factories, instances, made, held, stale, dropping, changes>>

Take(c) ==
    /\ access[c].at = "take"
    /\ access' = IF factories[access[c].alias] = None
                 THEN [access EXCEPT ![c] = [NoAccess EXCEPT !.at = "unknown"]]
                 ELSE [access EXCEPT ![c].at = "build",
                                     ![c].factory = factories[access[c].alias]]
    /\ UNCHANGED <<factories, instances, made, held, settled, stale, dropping, changes>>

\* register_spec's _factory imports the callable now
Build(c) ==
    /\ access[c].at = "build"
    /\ Len(made) < MaxMade
    /\ \/ /\ access[c].factory \in Importable
          /\ made' = Append(made, access[c].factory)
          /\ access' = [access EXCEPT ![c].at = "store", ![c].made = Len(made) + 1]
          /\ stale' = IF access[c].late THEN stale \union {Len(made) + 1} ELSE stale
       \/ /\ access[c].factory \notin Importable
          /\ access' = [access EXCEPT ![c] = [NoAccess EXCEPT !.at = "unknown"]]
          /\ UNCHANGED <<made, stale>>
    /\ UNCHANGED <<factories, instances, held, settled, dropping, changes>>

Store(c) ==
    /\ access[c].at = "store"
    /\ instances' = [instances EXCEPT ![access[c].alias] = access[c].made]
    /\ Goto(c, "return")
    /\ UNCHANGED <<factories, made, held, settled, stale, dropping, changes>>

\* Fault: what this access has made is returned.
ReturnOwn(c) ==
    /\ access[c].at = "return"
    /\ instances[access[c].alias] # 0 \/ access[c].made # 0
    /\ held' = [held EXCEPT ![c] = IF access[c].made # 0 THEN access[c].made
                                   ELSE instances[access[c].alias]]
    /\ settled' = IF Building(access[c].alias) = {} THEN settled \union {c} ELSE settled \ {c}
    /\ access' = [access EXCEPT ![c] = NoAccess]
    /\ UNCHANGED <<factories, instances, made, stale, dropping, changes>>

\* the instance is read once more; it is gone after a change
Return(c) ==
    /\ access[c].at = "return"
    /\ instances[access[c].alias] # 0
    /\ held' = [held EXCEPT ![c] = instances[access[c].alias]]
    /\ settled' = IF Building(access[c].alias) = {} THEN settled \union {c} ELSE settled \ {c}
    /\ access' = [access EXCEPT ![c] = NoAccess]
    /\ UNCHANGED <<factories, instances, made, stale, dropping, changes>>

ReturnRaises(c) ==
    /\ access[c].at = "return"
    /\ instances[access[c].alias] = 0
    /\ Goto(c, "KeyError")
    /\ UNCHANGED <<factories, instances, made, held, settled, stale, dropping, changes>>

\* the client goes on after a ConfigurationError or a KeyError
Recover(c) ==
    /\ access[c].at \in {"unknown", "KeyError"}
    /\ access' = [access EXCEPT ![c] = NoAccess]
    /\ UNCHANGED <<factories, instances, made, held, settled, stale, dropping, changes>>

-----------------------------------------------------------------------------
\* What replaces or drops instances while others use them: _factories first,
\* _instances after it.  The changes are made by one thread.

Overlap(which) ==
    /\ access' = [c \in Clients |->
                     IF access[c].alias \in which THEN [access[c] EXCEPT !.late = TRUE]
                     ELSE access[c]]
    /\ stale' = stale \union {access[c].made : c \in {d \in Clients :
                                  access[d].at = "store" /\ access[d].alias \in which}}
    /\ UNCHANGED <<made, held>>

ChangeBegins(which) ==
    /\ dropping = {}
    /\ dropping' = which
    /\ changes < MaxChanges
    /\ changes' = changes + 1
    /\ Overlap(which)
    /\ UNCHANGED <<instances, settled>>

\* register, and register_spec and configure, which replace
Register(a, f, replace) ==
    /\ factories[a] = None \/ replace
    /\ factories' = [factories EXCEPT ![a] = f]
    /\ ChangeBegins({a})

ClearProviders ==
    /\ factories' = [a \in Aliases |-> None]
    /\ ChangeBegins(Aliases)

ResetInstances ==
    /\ UNCHANGED factories
    /\ ChangeBegins(Aliases)

\* _instances.pop and _instances.clear
Drop ==
    /\ dropping # {}
    /\ instances' = [a \in Aliases |-> IF a \in dropping THEN 0 ELSE instances[a]]
    /\ settled' = settled \ {c \in settled : held[c] \in {instances[a] : a \in dropping}}
    /\ Overlap(dropping)
    /\ dropping' = {}
    /\ UNCHANGED <<factories, changes>>

Getitem(c) ==
    \/ \E a \in Aliases : Begin(c, a)
    \/ Take(c)
    \/ Build(c)
    \/ Store(c)
    \/ Return(c)
    \/ ReturnRaises(c)
    \/ Recover(c)

Change ==
    \/ \E a \in Aliases, f \in Factories, replace \in BOOLEAN : Register(a, f, replace)
    \/ ClearProviders
    \/ ResetInstances
    \/ Drop

-----------------------------------------------------------------------------
RegistryTypeOK ==
    /\ factories \in [Aliases -> Factories \union Importable \union {None}]
    /\ instances \in [Aliases -> 0 .. Len(made)]
    /\ Len(made) <= MaxMade
    /\ \A c \in Clients :
           /\ access[c].at \in {"idle", "take", "build", "store", "return", "unknown", "KeyError"}
           /\ access[c].made \in 0 .. Len(made)
    /\ held \in [Clients -> 0 .. Len(made)]
    /\ settled \subseteq Clients
    /\ stale \subseteq 1 .. Len(made)
    /\ dropping \subseteq Aliases
    /\ changes \in 0 .. MaxChanges

\* "Providers are built lazily on first access and cached", without a lock: two
\* first accesses may each make one.  Still, whoever was given an instance when
\* nobody was building has the one everybody gets from then on, until the
\* registry is changed: a subscriber and a publisher find the same bus.  What
\* is cached was made by the factory that is registered, and an access fails
\* with KeyError only when a change has overlapped it.
RegistryIsTrue ==
    /\ \A c \in settled : \E a \in Aliases : instances[a] = held[c]
    /\ \A a \in Aliases \ dropping :
           instances[a] # 0 /\ instances[a] \notin stale => made[instances[a]] = factories[a]
    /\ \A c \in Clients : access[c].at = "KeyError" => access[c].late
=============================================================================
