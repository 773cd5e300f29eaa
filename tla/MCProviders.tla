---------------------------- MODULE MCProviders ----------------------------
(* Instances of Providers for TLC: one subscription to every event and one to *)
(* a single type; messages of one subject, of the empty subject and of none; *)
(* every publisher of another broker; every kind of trigger, the cron ones   *)
(* in a zone and in UTC, intervals of an odd half minute and of less than one; *)
(* a module with a function and an alias of it, a decorated one, a class whose *)
(* class method is inherited, and a lambda.                                   *)
EXTENDS Providers

CONSTANTS all, one, e1, e3

MCWants == [s \in Subscribers |-> IF s = all THEN Events ELSE {e1}]

\* the predicate of the second raises at an event it would take and at one it would not
MCTrips == [s \in Subscribers |-> IF s = all THEN {} ELSE Events \ {e3}]

MCBrokers == {"sns", "snsfifo", "eventbridge", "pubsub", "orderedpubsub", "eventgrid", "kafka"}

MCImportable == MCBrokers \union {"inmemory"}

Message(id, subject, correlation) ==
    [id |-> id, type |-> "resource.created", source |-> "catalog",
     subject |-> subject, correlation |-> correlation]

MCMessages ==
    {Message(1, {"s"}, {"flow"}), Message(2, {"s"}, {}), Message(3, {""}, {"flow"}),
     Message(4, {}, {})}

Daily(zone) == [kind |-> "cron", expression |-> "daily", zone |-> zone]

Hourly == [kind |-> "cron", expression |-> "hourly", zone |-> "UTC"]

Every(seconds) == [kind |-> "interval", seconds |-> seconds]

Once(zone) == [kind |-> "oneshot", at |-> 9, zone |-> zone]

Report(trigger, target, enabled, options, env) ==
    [name |-> "report", trigger |-> trigger, target |-> target, enabled |-> enabled,
     options |-> options, env |-> env]

MCSchedules ==
    {Report(Daily("Berlin"), "http", TRUE, TRUE, {"A"}),
     Report(Daily(""), "pubsub", FALSE, TRUE, {"B"}),
     Report(Hourly, "http", TRUE, TRUE, {}),
     Report(Hourly, "callable", TRUE, FALSE, {}),
     Report(Every(150), "http", TRUE, TRUE, {}),
     Report(Every(20), "http", FALSE, TRUE, {}),
     Report(Once("UTC"), "http", TRUE, TRUE, {}),
     Report(Once("Berlin"), "http", TRUE, TRUE, {})}

In(m, qualname) == [parts |-> <<m>> \o qualname, split |-> 1]

Callable(id, bound, name) == [id |-> id, self |-> bound, name |-> name]

Plain == Callable("plain", "nothing", In("m", <<"plain">>))
Decorated == Callable("decorated", "nothing", In("m", <<"send">>))
Make == Callable("make", "class", In("m", <<"Base", "make">>))

Alias == In("m", <<"alias">>)

MCProgram == [n \in {f.name : f \in {Plain, Decorated, Make}} \union {Alias} |->
                 IF n = Alias THEN Plain ELSE CHOOSE f \in {Plain, Decorated, Make} : f.name = n]

MCCallables ==
    {Plain, Decorated, Make,
     Callable("original", "nothing", In("m", <<"send">>)),
     Callable("inherited", "class", In("m", <<"Base", "make">>)),
     Callable("bound", "state", In("m", <<"Base", "run">>)),
     Callable("lambda", "nothing", In("m", <<"Base", "<lambda>">>)),
     Callable("closure", "nothing", In("m", <<"outer", "<locals>", "inner">>)),
     Callable("script", "nothing", In("__main__", <<"plain">>))}

MCNames == {In("m", <<"plain">>)} \union
           {[parts |-> p, split |-> 0] : p \in {<<"m", "plain">>, <<"m", "Base", "make">>, <<"bare">>}}

MCPolicies ==
    [allow_import : {TRUE}, allowed_modules : {{}, {<<"m">>}, {<<"n">>}}]
        \union [allow_import : {FALSE}, allowed_modules : {{}}]
==========================================================================
