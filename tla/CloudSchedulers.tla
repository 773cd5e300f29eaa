--------------------------- MODULE CloudSchedulers ---------------------------
(***************************************************************************)
(* The schedulers of somebody else's engine (taskferry_scheduler/adapters:  *)
(* aws, gcp, kubernetes) under BaseScheduler (scheduler.py): users create,  *)
(* update, pause, resume, read and delete schedules of one engine, which is  *)
(* external.  Nothing is remembered in the process.  Every call that leaves  *)
(* it is a step of its own, and its answer may be lost; AWS alone needs two  *)
(* calls to pause, and others may come in between.                          *)
(*                                                                         *)
(* What the engine has of a schedule is a function on the keys of its API.  *)
(* A call that is refused before it leaves changes nothing and is left out. *)
(***************************************************************************)
EXTENDS Integers, FiniteSets, Functions

CONSTANTS Users,     \* threads
          Schedules  \* models.py: [name, trigger, target, enabled, options, env], the
                     \* last two what provider_options has for the adapter

ASSUME SchedulesAssumption ==
    \A s \in Schedules :
        /\ s.trigger.kind \in {"cron", "interval", "oneshot"}
        /\ s.trigger.kind = "interval" => s.trigger.seconds \in Nat \ {0}
        /\ s.enabled \in BOOLEAN

VARIABLES adapter,   \* "aws", "gcp" or "kubernetes"
          engine,    \* the schedules of the engine, by name
          wanted,    \* by name: the schedule last written, and whether it is paused
          torn,      \* names of which an older definition was written back
          request,   \* what each user is doing
          told       \* the handle each user was last given, until the schedule changes

schedulerVars == <<adapter, engine, wanted, torn, request, told>>

NoRequest == [op |-> "idle", name |-> "", schedule |-> <<>>, definition |-> <<>>, late |-> FALSE]

NoHandle == [name |-> "", status |-> "unknown"]

SchedulersInit(adapters) ==
    /\ adapter \in adapters
    /\ engine = <<>>
    /\ wanted = <<>>
    /\ torn = {}
    /\ request = [u \in Users |-> NoRequest]
    /\ told = [u \in Users |-> NoHandle]

-----------------------------------------------------------------------------
\* _validate and what each adapter can express

Cloud == {"cron", "timezone", "pause", "resume", "update", "delete"}

ScheduleCapabilities == IF adapter = "aws" THEN Cloud \union {"interval", "oneshot"} ELSE Cloud

\* a zone that is not given
Utc(zone) == IF zone = "" THEN "UTC" ELSE zone

Validate(s) ==
    /\ s.trigger.kind \in ScheduleCapabilities
    /\ s.trigger.kind = "cron" /\ Utc(s.trigger.zone) # "UTC" => "timezone" \in ScheduleCapabilities

\* AWS fires the ARN and Kubernetes the image of the options, not the target
Expressible(s) == IF adapter = "gcp" THEN s.target # "callable" ELSE s.options

\* round, of a quotient: a half goes to the even neighbour
Rounded(n, d) ==
    LET q == n \div d
        r == 2 * (n % d)
    IN  IF r > d \/ (r = d /\ q % 2 = 1) THEN q + 1 ELSE q

\* what d says, and what else e says
Over(d, e) == [key \in DOMAIN d \union DOMAIN e |-> IF key \in DOMAIN d THEN d[key] ELSE e[key]]

Optional(given, fields) == IF given THEN fields ELSE <<>>

\* build_schedule_expression; at() is the wall clock of the datetime's own zone
BuildScheduleExpression(t) ==
    CASE t.kind = "cron" ->
             Over([ScheduleExpression |-> <<"cron", t.expression>>],
                  Optional(t.zone # "", [ScheduleExpressionTimezone |-> t.zone]))
      [] t.kind = "interval" ->
             LET minutes == Rounded(t.seconds, 60)
             IN  [ScheduleExpression |-> <<"rate", IF minutes < 1 THEN 1 ELSE minutes>>]
      [] t.kind = "oneshot" -> [ScheduleExpression |-> <<"at", t.at>>]

\* EventBridgeScheduler._params
Params(s) ==
    Over([Target |-> "arn", State |-> IF s.enabled THEN "ENABLED" ELSE "DISABLED"],
         BuildScheduleExpression(s.trigger))

\* CloudSchedulerScheduler._build_job: nothing is said of enabled
BuildJob(s) ==
    [schedule |-> s.trigger.expression, time_zone |-> s.trigger.zone, target |-> s.target]

\* KubernetesCronJobScheduler._body
CronJob(s) ==
    Over([schedule |-> s.trigger.expression, suspend |-> ~s.enabled, env |-> s.env],
         Optional(Utc(s.trigger.zone) # "UTC", [timeZone |-> s.trigger.zone]))

-----------------------------------------------------------------------------
\* What the engine does with a request: AWS replaces a schedule, Cloud Scheduler
\* keeps the state of a job, Kubernetes merges a patch into what there is.

Created(s) ==
    CASE adapter = "aws" -> Params(s)
      [] adapter = "gcp" -> Over(BuildJob(s), [state |-> "ENABLED"])
      [] adapter = "kubernetes" -> CronJob(s)

Updated(old, s) ==
    CASE adapter = "aws" -> Params(s)
      [] adapter = "gcp" -> Over(BuildJob(s), old)
      [] adapter = "kubernetes" -> Over([CronJob(s) EXCEPT !.env = @ \union old.env], old)

\* Fault: the time zone is forgotten.
SomeKeys == {"ScheduleExpression", "Target", "State"}

\* _UPDATE_KEYS, what _set_state sends back of the definition it fetched
UpdateKeys == {"ScheduleExpression", "ScheduleExpressionTimezone", "Target", "State"}

\* the body of a pause or a resume
Switched(old, definition, paused) ==
    CASE adapter = "aws" -> Over([State |-> IF paused THEN "DISABLED" ELSE "ENABLED"], definition)
      [] adapter = "gcp" -> Over([state |-> IF paused THEN "PAUSED" ELSE "ENABLED"], old)
      [] adapter = "kubernetes" -> Over([suspend |-> paused], old)

\* the status in a handle
Status(definition) ==
    CASE adapter = "aws" -> IF definition.State = "ENABLED" THEN "enabled" ELSE "paused"
      [] adapter = "gcp" -> IF definition.state = "PAUSED" THEN "paused" ELSE "enabled"
      [] adapter = "kubernetes" -> IF definition.suspend THEN "paused" ELSE "enabled"

-----------------------------------------------------------------------------
\* create and update; update goes by the name in the schedule, its handle unread
Write(u, op, s) ==
    /\ request[u].op = "idle"
    /\ op \in {"create", "update"}
    /\ op = "update" => op \in ScheduleCapabilities
    /\ Validate(s)
    /\ Expressible(s)
    /\ request' = [request EXCEPT ![u] =
                      [NoRequest EXCEPT !.op = op, !.name = s.name, !.schedule = s]]
    /\ UNCHANGED <<adapter, engine, wanted, torn, told>>

\* pause, resume, delete and get
Command(u, op, n) ==
    /\ request[u].op = "idle"
    /\ op \in {"get"} \union ({"pause", "resume", "delete"} \intersect ScheduleCapabilities)
    /\ request' = [request EXCEPT ![u] = [NoRequest EXCEPT !.op = op, !.name = n]]
    /\ UNCHANGED <<adapter, engine, wanted, torn, told>>

Switches(u) == request[u].op \in {"pause", "resume"}

\* AWS: _set_state gets the schedule before it can write it
Fetch(u) ==
    /\ adapter = "aws"
    /\ Switches(u)
    /\ request[u].definition = <<>>
    /\ request[u].name \in DOMAIN engine
    /\ LET d == engine[request[u].name]
       IN  request' = [request EXCEPT ![u].definition = Restrict(d, DOMAIN d \intersect UpdateKeys)]
    /\ UNCHANGED <<adapter, engine, wanted, torn, told>>

\* the call ends; a definition that was fetched is old if this one wrote another
Ends(u, wrote) ==
    request' = [v \in Users |->
                   IF v = u THEN NoRequest
                   ELSE IF wrote /\ request[v].name = request[u].name /\ request[v].definition # <<>>
                   THEN [request[v] EXCEPT !.late = TRUE]
                   ELSE request[v]]

\* the answer arrives, or is lost; other handles of the schedule are out of date
Answered(u, definition) ==
    LET n == request[u].name
        others == [v \in Users |-> IF told[v].name = n THEN NoHandle ELSE told[v]]
    IN  \/ told' = [others EXCEPT ![u] = [name |-> n, status |-> Status(definition)]]
        \/ told' = [others EXCEPT ![u] = NoHandle]

\* an entry of a dictionary
Entry(n, value) == [x \in {n} |-> value]

Put(n, definition) == engine' = Over(Entry(n, definition), engine)

Recorded(n, s, paused) == wanted' = Over(Entry(n, [schedule |-> s, paused |-> paused]), wanted)

CreateSchedule(u) ==
    LET n == request[u].name
        s == request[u].schedule
    IN  /\ request[u].op = "create"
        /\ n \notin DOMAIN engine
        /\ Put(n, Created(s))
        /\ Recorded(n, s, ~s.enabled /\ adapter # "gcp")
        /\ torn' = torn \ {n}
        /\ Ends(u, TRUE)
        /\ Answered(u, Created(s))
        /\ UNCHANGED adapter

UpdateDefinition(u) ==
    LET n == request[u].name
        s == request[u].schedule
    IN  /\ request[u].op = "update"
        /\ n \in DOMAIN engine
        /\ Put(n, Updated(engine[n], s))
        /\ Recorded(n, s, IF adapter = "gcp" THEN wanted[n].paused ELSE ~s.enabled)
        /\ torn' = torn \ {n}
        /\ Ends(u, TRUE)
        /\ Answered(u, Updated(engine[n], s))
        /\ UNCHANGED adapter

\* pause and resume
Switch(u) ==
    LET n == request[u].name
        paused == request[u].op = "pause"
    IN  /\ Switches(u)
        /\ adapter = "aws" => request[u].definition # <<>>
        /\ n \in DOMAIN engine
        /\ Put(n, Switched(engine[n], request[u].definition, paused))
        /\ Recorded(n, wanted[n].schedule, paused)
        /\ torn' = IF request[u].late THEN torn \union {n} ELSE torn
        /\ Ends(u, FALSE)
        /\ Answered(u, Switched(engine[n], request[u].definition, paused))
        /\ UNCHANGED adapter

DeleteSchedule(u) ==
    LET n == request[u].name
    IN  /\ request[u].op = "delete"
        /\ n \in DOMAIN engine
        /\ engine' = Restrict(engine, DOMAIN engine \ {n})
        /\ wanted' = Restrict(wanted, DOMAIN wanted \ {n})
        /\ torn' = torn \ {n}
        /\ Ends(u, TRUE)
        /\ told' = [v \in Users |-> IF told[v].name = n THEN NoHandle ELSE told[v]]
        /\ UNCHANGED adapter

GetSchedule(u) ==
    LET n == request[u].name
    IN  /\ request[u].op = "get"
        /\ n \in DOMAIN engine
        /\ Ends(u, FALSE)
        /\ told' = [told EXCEPT ![u] = [name |-> n, status |-> Status(engine[n])]]
        /\ UNCHANGED <<adapter, engine, wanted, torn>>

\* ProviderError: the call did not get through, or the engine refuses it, for
\* there is such a schedule already, or there is none
Fails(u) ==
    /\ request[u].op # "idle"
    /\ Ends(u, FALSE)
    /\ UNCHANGED <<adapter, engine, wanted, torn, told>>

Scheduling(u) ==
    \/ \E op \in {"create", "update"}, s \in Schedules : Write(u, op, s)
    \/ \E op \in {"pause", "resume", "delete", "get"}, n \in {s.name : s \in Schedules} :
           Command(u, op, n)
    \/ Fetch(u)
    \/ CreateSchedule(u)
    \/ UpdateDefinition(u)
    \/ Switch(u)
    \/ DeleteSchedule(u)
    \/ GetSchedule(u)
    \/ Fails(u)

-----------------------------------------------------------------------------
SchedulersTypeOK ==
    /\ torn \subseteq DOMAIN engine
    /\ \A n \in DOMAIN wanted :
           wanted[n].schedule \in Schedules /\ wanted[n].schedule.name = n
    /\ \A u \in Users :
           /\ request[u].op \in {"idle", "create", "update", "pause", "resume", "delete", "get"}
           /\ told[u].status \in {"enabled", "paused", "unknown"}

\* when the engine fires, whatever its keys are called
Fires(d) ==
    IF adapter = "aws"
    THEN [how |-> d.ScheduleExpression[1], when |-> d.ScheduleExpression[2],
          zone |-> IF "ScheduleExpressionTimezone" \in DOMAIN d
                   THEN d.ScheduleExpressionTimezone ELSE "UTC"]
    ELSE [how |-> "cron", when |-> d.schedule,
          zone |-> IF "timeZone" \in DOMAIN d THEN d.timeZone
                   ELSE IF "time_zone" \in DOMAIN d THEN Utc(d.time_zone) ELSE "UTC"]

\* A cron expression is kept with its zone, but that a CronJob patched back to
\* UTC stays in the zone it had.  An interval is whole minutes, off by half of
\* one at most unless it is shorter than that.  A moment is kept if it is in UTC.
Agrees(f, t) ==
    CASE t.kind = "cron" ->
             /\ f.how = "cron"
             /\ f.when = t.expression
             /\ \/ f.zone = Utc(t.zone)
                \/ adapter = "kubernetes" /\ Utc(t.zone) = "UTC"
      [] t.kind = "interval" ->
             /\ f.how = "rate"
             /\ 60 * f.when >= t.seconds - 30
             /\ 60 * f.when <= t.seconds + 30 \/ f.when = 1
      [] t.kind = "oneshot" -> f.how = "at" /\ (t.zone = "UTC" => f.when = t.at)

\* The engine fires what was last written, when it was to be fired, unless it
\* is paused; and whoever was given a handle was told which, as long as nobody
\* has written since.  This although AWS reads and writes to pause a schedule:
\* only when others write in between is an older definition put back.
\* Pausing never loses a definition, and a definition is written with its own
\* state, but for Cloud Scheduler, where a new job is active, whatever
\* "enabled" says, and an update leaves the state alone.
SchedulesAreAsWritten ==
    /\ DOMAIN engine = DOMAIN wanted
    /\ \A n \in DOMAIN engine :
           LET s == wanted[n].schedule
           IN  /\ Status(engine[n]) = IF wanted[n].paused THEN "paused" ELSE "enabled"
               /\ n \notin torn =>
                      /\ Agrees(Fires(engine[n]), s.trigger)
                      /\ adapter = "gcp" => engine[n].target = s.target
                      /\ adapter = "kubernetes" => s.env \subseteq engine[n].env
    /\ \A u \in Users : told[u] # NoHandle =>
           told[u].name \in DOMAIN engine /\ told[u].status = Status(engine[told[u].name])
=============================================================================
