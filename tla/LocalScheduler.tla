--------------------------- MODULE LocalScheduler ---------------------------
(***************************************************************************)
(* LocalScheduler (taskferry_scheduler/adapters/local.py): schedules that   *)
(* an application creates, pauses, updates and deletes while a background   *)
(* thread, or a caller of run_pending, fires the ones that are due.  The    *)
(* lock covers the dictionary only: run_pending works on a list taken from  *)
(* it and reads and writes the entries without the lock, one field after    *)
(* another, as update does.                                                 *)
(*                                                                         *)
(* Time is a counter from 1 on; 0 stands for next_run = None.  The          *)
(* application is one thread; runners are background threads (in loop), of  *)
(* which stop and start may leave several, and other callers of run_pending.*)
(***************************************************************************)
EXTENDS Naturals, FiniteSets

CONSTANTS Schedules,  \* the ids _create will mint
          Triggers,   \* one-shot and interval triggers
          Runners,    \* threads that start makes or that call run_pending
          MaxTime,    \* the last moment of the clock
          Beginnings  \* when an application may begin, and the runners there may be in it

None == "none"

ASSUME SchedulerAssumption ==
    /\ Triggers \subseteq
           [kind : {"oneshot", "interval"}, time : Nat \ {0}]
    /\ MaxTime \in Nat \ {0}
    /\ Beginnings \subseteq [time : 1 .. MaxTime, runners : SUBSET Runners]
    /\ {None, "idle", "join"} \intersect (Schedules \union Runners) = {}

NoTrigger == [kind |-> None, time |-> 0]

VARIABLES now,        \* datetime.now
          created,    \* ids minted so far
          entries,    \* keys of _entries
          status,     \* entry.status
          trigger,    \* entry.schedule.trigger, NoTrigger at first
          nextRun,    \* entry.next_run
          exhausted,  \* entry.exhausted
          fired,      \* records in entry.fires since the entry was last reset,
                      \* by the runner that added them
          last,       \* the moment of the last of them
          torn,       \* the schedules whose next_run was counted with a trigger
                      \* that update had replaced by then
          position, moment, rest, current,
                      \* each runner: position and locals of run_pending
          seen,       \* each runner: the local `trigger` of _advance
          loop,       \* the runners that execute _loop
          thread,     \* _thread
          stopping,   \* _stop
          user,       \* what the application waits for, or the schedule it updates
          cleared,    \* whether that update has written `exhausted`
          overlapped  \* whether two passes of run_pending have been under way at once

schedulerVars == <<now, created, entries, status, trigger, nextRun, exhausted,
                   fired, last, torn, position, moment, rest, current, seen, loop,
                   thread, stopping, user, cleared, overlapped>>

entry == <<status, trigger, nextRun, exhausted>>

runner == <<position, moment, rest, current, seen, loop>>

log == <<fired, last, torn>>

control == <<thread, stopping, user, cleared, overlapped>>

SchedulerInit ==
    /\ \E b \in Beginnings :
           /\ now = b.time
           /\ position = [r \in Runners |-> IF r \in b.runners THEN "off" ELSE "absent"]
    /\ created = {}
    /\ entries = {}
    /\ status = [s \in Schedules |-> "enabled"]
    /\ trigger = [s \in Schedules |-> NoTrigger]
    /\ nextRun = [s \in Schedules |-> 0]
    /\ exhausted = [s \in Schedules |-> FALSE]
    /\ fired = [s \in Schedules |-> [r \in Runners |-> 0]]
    /\ last = [s \in Schedules |-> 0]
    /\ torn = {}
    /\ moment = [r \in Runners |-> 0]
    /\ rest = [r \in Runners |-> {}]
    /\ current = [r \in Runners |-> None]
    /\ seen = [r \in Runners |-> NoTrigger]
    /\ loop = {}
    /\ thread = None
    /\ stopping = FALSE
    /\ user = "idle"
    /\ cleared = FALSE
    /\ overlapped = FALSE

Tick ==
    /\ now < MaxTime
    /\ now' = now + 1
    /\ UNCHANGED <<created, entries, entry, log, runner, control>>

\* _next_run
NextRun(t, after) == IF t.kind = "oneshot" THEN t.time ELSE after + t.time

-----------------------------------------------------------------------------
\* The application.

Create(s, t, st) ==
    /\ user = "idle"
    /\ s \notin created
    /\ created' = created \union {s}
    /\ entries' = entries \union {s}
    /\ status' = [status EXCEPT ![s] = st]
    /\ trigger' = [trigger EXCEPT ![s] = t]
    /\ nextRun' = [nextRun EXCEPT ![s] = NextRun(t, now)]
    /\ UNCHANGED <<now, exhausted, log, runner, control>>

\* _pause and _resume
SetStatus(s, st) ==
    /\ user = "idle"
    /\ s \in entries
    /\ status[s] # st
    /\ status' = [status EXCEPT ![s] = st]
    /\ UNCHANGED <<now, created, entries, trigger, nextRun, exhausted, log,
                   runner, control>>

\* _update writes the schedule, then `exhausted`, then next_run
UpdateSchedule(s, t) ==
    /\ user = "idle"
    /\ s \in entries
    /\ trigger' = [trigger EXCEPT ![s] = t]
    /\ user' = s
    /\ UNCHANGED <<now, created, entries, status, nextRun, exhausted, log,
                   runner, thread, stopping, cleared, overlapped>>

UpdateExhausted(s) ==
    /\ user = s
    /\ ~ cleared
    /\ exhausted' = [exhausted EXCEPT ![s] = FALSE]
    /\ cleared' = TRUE
    /\ UNCHANGED <<now, created, entries, status, trigger, nextRun, log, runner,
                   thread, stopping, user, overlapped>>

UpdateNextRun(s) ==
    /\ user = s
    /\ cleared
    /\ nextRun' = [nextRun EXCEPT ![s] = NextRun(trigger[s], now)]
    /\ fired' = [fired EXCEPT ![s] = [r \in Runners |-> 0]]
    /\ last' = [last EXCEPT ![s] = 0]
    /\ torn' = torn \ {s}
    /\ user' = "idle"
    /\ cleared' = FALSE
    /\ UNCHANGED <<now, created, entries, status, trigger, exhausted, runner,
                   thread, stopping, overlapped>>

Delete(s) ==
    /\ user = "idle"
    /\ s \in entries
    /\ entries' = entries \ {s}
    /\ UNCHANGED <<now, created, entry, log, runner, control>>

\* nothing happens if there is a thread already
Start(r) ==
    /\ user = "idle"
    /\ thread = None
    /\ position[r] = "off"
    /\ stopping' = FALSE
    /\ thread' = r
    /\ loop' = loop \union {r}
    /\ position' = [position EXCEPT ![r] = "loop"]
    /\ UNCHANGED <<now, created, entries, entry, log, moment, rest, current, seen,
                   user, cleared, overlapped>>

StopBegin ==
    /\ user = "idle"
    /\ stopping' = TRUE
    /\ user' = IF thread = None THEN "idle" ELSE "join"
    /\ UNCHANGED <<now, created, entries, entry, log, runner, thread, cleared, overlapped>>

\* the thread has ended, or join's five seconds are over: either way it is
\* forgotten
StopEnd ==
    /\ user = "join"
    /\ thread' = None
    /\ user' = "idle"
    /\ UNCHANGED <<now, created, entries, entry, log, runner, stopping, cleared,
                   overlapped>>

-----------------------------------------------------------------------------
\* The runners.

InPass(r) == position[r] \notin {"absent", "off", "loop"}

RunPending(r) ==
    /\ moment' = [moment EXCEPT ![r] = now]
    /\ rest' = [rest EXCEPT ![r] = entries]
    /\ position' = [position EXCEPT ![r] = "next"]
    /\ overlapped' = (overlapped \/ \E q \in Runners : InPass(q))
    /\ UNCHANGED <<current, seen, loop>>

\* run_pending returns or raises, or a loop ends: locals go out of scope
LeavePass(r, label) ==
    /\ position' = [position EXCEPT ![r] = label]
    /\ moment' = [moment EXCEPT ![r] = 0]
    /\ rest' = [rest EXCEPT ![r] = {}]
    /\ current' = [current EXCEPT ![r] = None]
    /\ loop' = IF label = "off" THEN loop \ {r} ELSE loop
    /\ UNCHANGED seen

\* one turn of _loop
Poll(r) ==
    /\ position[r] = "loop"
    /\ \/ ~ stopping /\ RunPending(r)
       \/ stopping /\ LeavePass(r, "off") /\ UNCHANGED overlapped
    /\ UNCHANGED <<now, created, entries, entry, log, thread, stopping, user, cleared>>

CallRunPending(r) ==
    /\ position[r] = "off"
    /\ RunPending(r)
    /\ UNCHANGED <<now, created, entries, entry, log, thread, stopping, user, cleared>>

Return(r) ==
    /\ position[r] = "next"
    /\ rest[r] = {}
    /\ LeavePass(r, IF r \in loop THEN "loop" ELSE "off")
    /\ UNCHANGED <<now, created, entries, entry, log, control>>

\* run_pending goes on with the current entry
GoOn(r, label) ==
    /\ position' = [position EXCEPT ![r] = label]
    /\ UNCHANGED <<moment, rest, current, seen, loop>>

\* It is done with the current entry.
Skip(r) ==
    /\ position' = [position EXCEPT ![r] = "next"]
    /\ current' = [current EXCEPT ![r] = None]
    /\ seen' = [seen EXCEPT ![r] = NoTrigger]
    /\ UNCHANGED <<moment, rest, loop>>

\* The next entry of the list (the order of a dictionary's values is left open):
\* its status, its `exhausted` and, twice, its next_run are read one by one.
Look(r) ==
    /\ position[r] = "next"
    /\ \E s \in rest[r] :
           /\ rest' = [rest EXCEPT ![r] = @ \ {s}]
           /\ IF status[s] = "enabled"
              THEN /\ current' = [current EXCEPT ![r] = s]
                   /\ position' = [position EXCEPT ![r] = "status"]
              ELSE UNCHANGED <<current, position>>
    /\ UNCHANGED <<now, created, entries, entry, log, moment, seen, loop, control>>

LookExhausted(r) ==
    /\ position[r] = "status"
    /\ IF exhausted[current[r]] THEN Skip(r) ELSE GoOn(r, "time")
    /\ UNCHANGED <<now, created, entries, entry, log, control>>

LookTime(r) ==
    /\ position[r] = "time"
    /\ IF nextRun[current[r]] = 0 THEN Skip(r) ELSE GoOn(r, "compare")
    /\ UNCHANGED <<now, created, entries, entry, log, control>>

\* Fault: an entry that is due at this very moment is left for a later pass.
CompareStrictly(r) ==
    /\ position[r] = "compare"
    /\ LET due == nextRun[current[r]]
       IN  \/ due = 0 /\ LeavePass(r, "off")
           \/ due # 0 /\ due < moment[r] /\ GoOn(r, "fire")
           \/ due >= moment[r] /\ Skip(r)
    /\ UNCHANGED <<now, created, entries, entry, log, control>>

\* None cannot be compared: if another runner has cleared next_run since the
\* look before, the TypeError passes through run_pending and ends a loop.
Compare(r) ==
    /\ position[r] = "compare"
    /\ LET due == nextRun[current[r]]
       IN  \/ due = 0 /\ LeavePass(r, "off")
           \/ due # 0 /\ due <= moment[r] /\ GoOn(r, "fire")
           \/ due > moment[r] /\ Skip(r)
    /\ UNCHANGED <<now, created, entries, entry, log, control>>

\* The target is called; an exception other than ProviderError is recorded as
\* a result is.
Fire(r) ==
    /\ position[r] = "fire"
    /\ fired' = [fired EXCEPT ![current[r]][r] = @ + 1]
    /\ last' = [last EXCEPT ![current[r]] = moment[r]]
    /\ GoOn(r, "advance")
    /\ UNCHANGED <<now, created, entries, entry, torn, control>>

\* ProviderError passes through run_pending and ends a loop
FireRaises(r) ==
    /\ position[r] = "fire"
    /\ LeavePass(r, "off")
    /\ UNCHANGED <<now, created, entries, entry, log, control>>

\* _advance reads the trigger, and then writes by it whatever update does
Advance(r) ==
    /\ position[r] = "advance"
    /\ LET t == trigger[current[r]]
       IN  /\ seen' = [seen EXCEPT ![r] = t]
           /\ position' = [position EXCEPT ![r] =
                  IF t.kind = "oneshot" THEN "exhaust" ELSE "postpone"]
    /\ UNCHANGED <<now, created, entries, entry, log, moment, rest, current, loop,
                   control>>

Exhaust(r) ==
    /\ position[r] = "exhaust"
    /\ exhausted' = [exhausted EXCEPT ![current[r]] = TRUE]
    /\ GoOn(r, "clear")
    /\ UNCHANGED <<now, created, entries, status, trigger, nextRun, log, control>>

ClearNextRun(r) ==
    /\ position[r] = "clear"
    /\ nextRun' = [nextRun EXCEPT ![current[r]] = 0]
    /\ Skip(r)
    /\ UNCHANGED <<now, created, entries, status, trigger, exhausted, log, control>>

\* Fault: an interval is counted from its due time, not from the moment.
PostponeFromDue(r) ==
    /\ position[r] = "postpone"
    /\ LET s == current[r]
       IN  /\ nextRun' = [nextRun EXCEPT ![s] = @ + seen[r].time]
           /\ torn' = IF seen[r] = trigger[s] THEN torn \ {s} ELSE torn \union {s}
    /\ Skip(r)
    /\ UNCHANGED <<now, created, entries, status, trigger, exhausted, fired, last,
                   control>>

Postpone(r) ==
    /\ position[r] = "postpone"
    /\ LET s == current[r]
       IN  /\ nextRun' = [nextRun EXCEPT ![s] = moment[r] + seen[r].time]
           /\ torn' = IF seen[r] = trigger[s] THEN torn \ {s} ELSE torn \union {s}
    /\ Skip(r)
    /\ UNCHANGED <<now, created, entries, status, trigger, exhausted, fired, last,
                   control>>

FinishUpdate(s) == UpdateExhausted(s) \/ UpdateNextRun(s)

Manage ==
    \/ \E s \in Schedules, t \in Triggers, st \in {"enabled", "paused"} :
           Create(s, t, st)
    \/ \E s \in Schedules, st \in {"enabled", "paused"} : SetStatus(s, st)
    \/ \E s \in Schedules, t \in Triggers : UpdateSchedule(s, t)
    \/ \E s \in Schedules : FinishUpdate(s) \/ Delete(s)
    \/ \E r \in Runners : Start(r)
    \/ StopBegin
    \/ StopEnd

Step(r) ==
    \/ Poll(r)
    \/ Return(r)
    \/ Look(r)
    \/ LookExhausted(r)
    \/ LookTime(r)
    \/ Compare(r)
    \/ Fire(r)
    \/ FireRaises(r)
    \/ Advance(r)
    \/ Exhaust(r)
    \/ ClearNextRun(r)
    \/ Postpone(r)

SchedulerNext ==
    \/ Tick
    \/ Manage
    \/ \E r \in Runners : CallRunPending(r) \/ Step(r)

SchedulerSpec == SchedulerInit /\ [][SchedulerNext]_schedulerVars

\* The threads run, the clock runs, and the application does not give up in the
\* middle of update or of stop.
SchedulerFairness ==
    /\ WF_schedulerVars(Tick)
    /\ WF_schedulerVars(StopEnd)
    /\ \A s \in Schedules : WF_schedulerVars(FinishUpdate(s))
    /\ \A r \in Runners : WF_schedulerVars(Step(r))

FairSpec == SchedulerSpec /\ SchedulerFairness

-----------------------------------------------------------------------------
PassLabels == {"absent", "off", "loop", "next", "status", "time", "compare", "fire",
               "advance", "exhaust", "clear", "postpone"}

SchedulerTypeOK ==
    /\ now \in 1 .. MaxTime
    /\ created \subseteq Schedules
    /\ entries \subseteq created
    /\ status \in [Schedules -> {"enabled", "paused"}]
    /\ trigger \in [Schedules -> Triggers \union {NoTrigger}]
    /\ nextRun \in [Schedules -> Nat]
    /\ exhausted \in [Schedules -> BOOLEAN]
    /\ fired \in [Schedules -> [Runners -> Nat]]
    /\ last \in [Schedules -> 0 .. MaxTime]
    /\ torn \subseteq Schedules
    /\ position \in [Runners -> PassLabels]
    /\ moment \in [Runners -> 0 .. MaxTime]
    /\ rest \in [Runners -> SUBSET created]
    /\ current \in [Runners -> created \union {None}]
    /\ \A r \in Runners : position[r] \notin {"absent", "off", "loop", "next"} => current[r] # None
    /\ seen \in [Runners -> Triggers \union {NoTrigger}]
    /\ loop \subseteq Runners
    /\ thread \in Runners \union {None}
    /\ stopping \in BOOLEAN
    /\ user \in {"idle", "join"} \union entries
    /\ cleared \in BOOLEAN
    /\ overlapped \in BOOLEAN

\* test_local_one_shot_fires_once: a one-shot schedule fires once, however
\* often it is passed by while it is being managed, as long as no two passes
\* overlap.  When they do, whoever fires it exhausts it, so that no runner
\* fires it twice.
OneShotFiresOnce ==
    \A s \in created :
        trigger[s].kind = "oneshot" /\ user # s =>
            LET by == {r \in Runners : fired[s][r] > 0}
            IN  /\ \A r \in by : fired[s][r] = 1
                /\ ~ overlapped => Cardinality(by) <= 1

\* A pass that does not overlap another never finds a schedule due before its
\* time, nor an interval sooner after its last fire than the interval, also when
\* the loop comes late.  Two exceptions, both of an update between the lines of a
\* pass: in the middle of update the old progress still counts, and a next_run
\* that was counted with the trigger of before the update stands until the next
\* fire or update.
NeverEarly ==
    [][\A r \in Runners :
          LET s == current[r]
          IN  position[r] = "compare" /\ position'[r] = "fire" /\ user # s
                  /\ s \notin torn /\ ~ overlapped
                  => moment[r] >= trigger[s].time +
                         (IF trigger[s].kind = "oneshot" THEN 0 ELSE last[s])]_schedulerVars

\* Both, in one
FiresAsAgreed == []OneShotFiresOnce /\ NeverEarly

\* what the four reads of run_pending look for
IsDue(s, m) ==
    /\ status[s] = "enabled"
    /\ ~ exhausted[s]
    /\ nextRun[s] # 0
    /\ nextRun[s] <= m

LoopAlive == thread # None /\ position[thread] # "off"

\* Every enabled schedule that is due is fired, paused, put off or deleted, as
\* long as the background thread is alive and registered.
DueSchedulesFire ==
    \A s \in Schedules :
        (s \in entries /\ IsDue(s, now) /\ LoopAlive)
            ~> (s \notin entries \/ ~ IsDue(s, now) \/ ~ LoopAlive)
=============================================================================
