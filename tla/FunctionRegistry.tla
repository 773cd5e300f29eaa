-------------------------- MODULE FunctionRegistry --------------------------
(***************************************************************************)
(* taskferry/functions.py: how a callable becomes a name when a task is     *)
(* submitted, and a callable again where it runs.  The runtime's registry   *)
(* makes the name (TaskFacade.submit); the registry of the thread backend or*)
(* of a worker resolves it, which is the runtime's only where an application*)
(* shares it.  The one that resolves is modelled: what the other one keeps is*)
(* read by nothing.                                                         *)
(*                                                                          *)
(* A name is the sequence of its parts and the position of the colon, 0 for *)
(* none.  A callable is a record [id, self, name] of what it is bound to,   *)
(* "nothing", "class" or "state" (an instance of whatever kind, a callable  *)
(* one included), and of its __module__ and __qualname__.                   *)
(***************************************************************************)
EXTENDS Naturals, FiniteSets, Sequences, SequencesExt, Functions

CONSTANTS Callables,
          Program,         \* what an import finds: name -> callable
          Names,           \* names that may be given at a registration
          ImportPolicies,  \* [allow_import, allowed_modules] of a registry
          MaxRegistered    \* bound on what is in a registry when register is called

VARIABLES functions,  \* _functions of the registry that resolves
          policy,     \* its import policy
          shared,     \* it is the runtime's
          task        \* the last that was submitted, a set of at most one

functionVars == <<functions, policy, shared, task>>

FunctionsInit ==
    /\ functions = <<>>
    /\ shared \in BOOLEAN
    /\ policy \in ImportPolicies
    /\ task = {}

-----------------------------------------------------------------------------
Module(n) == SubSeq(n.parts, 1, n.split)

QualName(n) == SubSeq(n.parts, n.split + 1, Len(n.parts))

\* FunctionRef.parse: the last dot stands for a missing colon
Parse(n) ==
    LET ref == IF n.split = 0 THEN [n EXCEPT !.split = Len(n.parts) - 1] ELSE n
    IN  {x \in {ref} : Module(x) # <<>> /\ QualName(x) # <<>>}

\* Fault: methods of instances are not refused.
FromAnyCallable(f) == {f.name}

\* FunctionRef.from_callable
FromCallable(f) ==
    {n \in {f.name} :
        /\ f.self # "state"
        /\ "<locals>" \notin ToSet(QualName(n))
        /\ QualName(n) # <<"<lambda>">>
        /\ Module(n) # <<"__main__">>}

\* What Python's imports find: every callable without state that belongs to a
\* module is found by its name, or another of that name, but for those inside a
\* function or a lambda; a name that nobody has may be an alias.  Decorators that
\* hide a callable behind one of another name are left out.
ASSUME ProgramAssumption ==
    /\ \A n \in Names \union DOMAIN Program \union {f.name : f \in Callables} :
           n \in [parts : Seq(STRING), split : 0 .. Len(n.parts)]
    /\ \A f \in Callables : Parse(f.name) = {f.name}
    /\ \A n \in DOMAIN Program : Program[n] \in Callables /\ Parse(n) = {n}
    /\ \A f \in Callables :
           /\ f.name \in DOMAIN Program => Program[f.name].name = f.name
           /\ /\ f.self # "state" /\ Module(f.name) # <<"__main__">>
              /\ ToSet(QualName(f.name)) \intersect {"<locals>", "<lambda>"} = {}
              => f.name \in DOMAIN Program
    /\ Callables \intersect (Names \union DOMAIN Program) = {}

\* FunctionRef.resolve
Import(ref) == {Program[n] : n \in {ref} \intersect DOMAIN Program}

ModuleAllowed(ref) ==
    \/ policy.allowed_modules = {}
    \/ \E m \in policy.allowed_modules : IsPrefix(m, Module(ref))

Permitted(n) == policy.allow_import /\ \A ref \in Parse(n) : ModuleAllowed(ref)

\* FunctionRegistry.resolve: the callable, or the empty set for an error
Resolve(n) ==
    IF n \in DOMAIN functions THEN {functions[n]}
    ELSE IF Permitted(n) THEN UNION {Import(ref) : ref \in Parse(n)} ELSE {}

-----------------------------------------------------------------------------
Set(n, f) ==
    functions' = [x \in DOMAIN functions \union {n} |-> IF x = n THEN f ELSE functions[x]]

\* register, under the callable's own name or another
RegisterFunction(f, replace) ==
    \E n \in FromCallable(f) \union Names :
        /\ n \in DOMAIN functions => replace \/ functions[n] = f
        /\ Cardinality(DOMAIN functions \union {n}) <= MaxRegistered
        /\ Set(n, f)
        /\ UNCHANGED <<shared, policy, task>>

UnregisterFunction(n) ==
    /\ n \in DOMAIN functions
    /\ functions' = Restrict(functions, DOMAIN functions \ {n})
    /\ UNCHANGED <<shared, policy, task>>

\* TaskFacade.submit of a callable: reference registers it unless its name is taken
SubmitCallable(f) ==
    \E n \in FromCallable(f) :
        /\ IF ~shared \/ n \in DOMAIN functions THEN UNCHANGED functions ELSE Set(n, f)
        /\ task' = {[asked |-> f, name |-> n]}
        /\ UNCHANGED <<shared, policy>>

\* of a name
SubmitName(given) ==
    \E n \in Parse(given) :
        /\ task' = {[asked |-> given, name |-> n]}
        /\ UNCHANGED <<functions, shared, policy>>

Naming ==
    \/ \E f \in Callables :
           \/ SubmitCallable(f)
           \/ \E replace \in BOOLEAN : RegisterFunction(f, replace)
    \/ \E n \in DOMAIN Program \union Names :
           \/ SubmitName(n)
           \/ UnregisterFunction(n)

-----------------------------------------------------------------------------
FunctionsTypeOK ==
    /\ Range(functions) \subseteq Callables
    /\ shared \in BOOLEAN
    /\ policy \in ImportPolicies
    /\ \A t \in task : t.name.split \in 1 .. Len(t.name.parts) - 1

\* A class method that was inherited has the name of the base's, a lambda of a
\* class body has a name nobody can look up, and what a decorator has replaced,
\* or has named after another function, shares its name.
Misnamed(f) ==
    \/ "<lambda>" \in ToSet(QualName(f.name))
    \/ /\ f.name \in DOMAIN Program
       /\ Program[f.name] # f /\ Program[f.name].name = f.name

\* "Failing here is far kinder than failing on a worker": what is accepted at
\* its submission carries no state and is found where its name is resolved, by
\* import or by registration, if imports are permitted there, but for what is
\* misnamed and for names that have been registered for somebody else.  A name
\* that is submitted finds what the program calls so, written with a dot only
\* if no class is in it.
NamesLeadBack ==
    \A t \in task :
        LET got == Resolve(t.name)
            taken == t.name \in DOMAIN functions
        IN  /\ t.asked \in Callables =>
                   LET f == t.asked
                   IN  /\ f.self # "state"
                       /\ Permitted(f.name) /\ ~taken => got = {f} \/ Misnamed(f)
                       /\ taken => f.name \in Names \/ \E g \in got : g.name = f.name
            /\ t.asked \notin Callables /\ Permitted(t.name) /\ ~taken =>
                   \A n \in DOMAIN Program :
                       /\ n.parts = t.asked.parts
                       /\ \/ n.split = t.asked.split
                          \/ t.asked.split = 0 /\ Len(QualName(n)) = 1
                       => got = {Program[n]}
=============================================================================
