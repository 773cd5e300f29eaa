------------------------------- MODULE LogTail -------------------------------
(***************************************************************************)
(* stream_logs of the cloud job adapters: one reader follows the output of  *)
(* a job while CloudJobs goes on around it.  The log services are external: *)
(* the active task writes entries, which Cloud Logging and CloudWatch make  *)
(* visible some time later, also after the end of the job, Cloud Logging in *)
(* any order.  A pod's own log is there as it is written, until the pod is  *)
(* deleted.                                                                *)
(***************************************************************************)
EXTENDS CloudJobs

CONSTANTS Stamps,  \* the timestamps the entries get, in the order of writing;
                   \* its length bounds what is written
          Anonymous, \* the entries that Cloud Logging returns without an insert id
          Tailed   \* the deployments whose logs are read

ASSUME LogTailAssumption ==
    /\ Stamps \in Seq(Nat)
    /\ \A i, j \in DOMAIN Stamps : i < j => Stamps[i] <= Stamps[j]
    /\ Anonymous \subseteq DOMAIN Stamps
    /\ Tailed \subseteq Deployments
    /\ \A d \in Tailed :
           d.spec.parallelism = 1 /\ d.adapter \in {"cloudrun", "kubernetes", "batch"}

VARIABLES writer,   \* for each entry written, the run (on Kubernetes the pod) it is of
          visible,  \* the entries the log service returns
          source,   \* the execution read
          phase,    \* where stream_logs is
          follow,   \* its argument
          since,    \* cloudrun: the last timestamp; batch: the forward token;
                    \* kubernetes: the pod; the empty set for None
          page,     \* what is still to be yielded of the answer in hand
          yielded,  \* the entries yielded, in the order in which they first were
                    \* (cloudrun: also the set seen)
          \* the code does not keep the last three
          repeated, \* the entries yielded more than once
          answered,    \* what was visible when the log service last answered
          late      \* what became visible after it had answered with a later entry

logs == <<writer, visible>>

reader == <<source, phase, follow, since, page, yielded>>

marks == <<repeated, answered, late>>

tailVars == <<vars, logs, reader, marks>>

Entries == DOMAIN Stamps

\* a reader is off before and after: "done" when it has read to the end, "left"
\* when it raised, ran out of time, found nothing to read or was killed
Off == {"idle", "done", "left"}

Over == phase \in {"done", "left"}

TailInit ==
    /\ Init
    /\ writer = <<>>
    /\ visible = {}
    /\ source = None
    /\ phase = "idle"
    /\ follow = FALSE
    /\ since = {}
    /\ page = <<>>
    /\ yielded = <<>>
    /\ repeated = {}
    /\ answered = {}
    /\ late = {}

-----------------------------------------------------------------------------
\* The engine and its log service.

Runs(e) == fails[e][1] + IF task[e][1] \in {"active", "ok"} THEN 1 ELSE 0

\* what nobody will read any more is left out
Write(e) ==
    /\ deployment \in Tailed
    /\ ~ Over
    /\ Open(e)
    /\ task[e][1] = "active"
    /\ Len(writer) < Len(Stamps)
    /\ writer' = Append(writer, Runs(e))
    /\ visible' = IF adapter = "kubernetes" THEN visible \union {Len(writer')} ELSE visible
    /\ UNCHANGED <<vars, reader, marks>>

Ingest(k) ==
    /\ ~ Over
    /\ k \in DOMAIN writer \ visible
    /\ adapter = "batch" => \A j \in DOMAIN writer \ visible : k <= j
    /\ visible' = visible \union {k}
    /\ late' = IF \E j \in ToSet(yielded) \union ToSet(page) : Stamps[j] > Stamps[k]
               THEN late \union {k} ELSE late
    /\ UNCHANGED <<vars, writer, reader, repeated, answered>>

-----------------------------------------------------------------------------
\* The reader.

Enter(p) == phase' = p

StreamLogs(e, f) ==
    /\ deployment \in Tailed
    /\ phase = "idle"
    /\ IF adapter = "batch" THEN told[e] # Absent /\ UNCHANGED index
       ELSE ResolveExternalId(e)
    /\ Enter(IF adapter = "cloudrun" THEN "page" ELSE "await")
    /\ source' = e
    /\ follow' = f
    /\ UNCHANGED <<deployment, engine, told, pc, at, logs, marks, since, page, yielded>>

\* batch: every _describe resolves the id, and raises for one that has aged out
\* and for a job that is gone
Describe == ResolveExternalId(source) /\ source \notin gone

Undescribed == source \notin ToSet(order) \/ source \in gone

\* _await_pod asks for the pods only: the job it never looks at.  Every run of
\* the job is a pod, and the first one of the answer is taken.
AwaitPod ==
    /\ adapter = "kubernetes"
    /\ phase = "await"
    /\ source \notin gone
    /\ \E p \in 1 .. Runs(source) : since' = {p}
    /\ Enter("page")
    /\ UNCHANGED <<vars, logs, marks, source, follow, page, yielded>>

\* the stream exists when the job has run; a job that has ended has none
AwaitLogStream ==
    /\ adapter = "batch"
    /\ phase = "await"
    /\ \/ /\ Describe
          /\ \/ Runs(source) > 0 /\ Enter("page")
             \/ Runs(source) = 0 /\ Mapped(source) \in Terminal /\ Enter("left")
             \/ Runs(source) = 0 /\ Mapped(source) \notin Terminal /\ Enter("await")
       \/ Undescribed /\ Enter("left") /\ UNCHANGED index
    /\ UNCHANGED <<deployment, engine, told, pc, at, logs, marks,
                   source, follow, since, page, yielded>>

\* an answer lists its entries by their timestamps (those of one timestamp in an
\* order that is left open)
Listings(entries) ==
    {list \in [1 .. Cardinality(entries) -> entries] :
        /\ IsInjective(list)
        /\ \A i, j \in DOMAIN list : i < j => Stamps[list[i]] <= Stamps[list[j]]}

\* the log service answers with entries, which are yielded one by one, or with
\* none, and the reader goes on to p
Answer(entries, p) ==
    /\ answered' = visible
    /\ IF entries = {} THEN Enter(p) /\ UNCHANGED page
       ELSE Enter("yield") /\ page' \in Listings(entries)
    /\ UNCHANGED <<vars, logs, source, follow, yielded, repeated, late>>

\* Fault: the filter asks for later timestamps only.
NewEntriesExclusive ==
    {k \in visible : (k \in ToSet(yielded) => k \in Anonymous) /\ \A t \in since : Stamps[k] > t}

\* timestamp >= since, and the insert id, if there is one, not in seen
NewEntries ==
    {k \in visible : (k \in ToSet(yielded) => k \in Anonymous) /\ \A t \in since : Stamps[k] >= t}

\* a page without news is the last one, or the occasion to look at the job
AfterEmpty == IF follow THEN "check" ELSE "done"

CloudRunPage ==
    /\ adapter = "cloudrun"
    /\ phase = "page"
    /\ Answer(NewEntries, AfterEmpty)
    /\ UNCHANGED since

\* a forward token that comes back as it was sent: nothing is left
BatchPage ==
    /\ adapter = "batch"
    /\ phase = "page"
    /\ since' = {Cardinality(visible)}
    /\ Answer({k \in visible : \A t \in since : k > t},
              IF since' = since THEN AfterEmpty ELSE "page")

\* what the response of read_namespaced_pod_log has so far
LinesOfPod == {k \in visible : since = {writer[k]}}

\* the one response of the pod: its lines up to its end or, without follow, those
\* there were when it was answered for
PodLines ==
    /\ adapter = "kubernetes"
    /\ phase = "page"
    /\ LET left == LinesOfPod \ ToSet(yielded)
           ended == \A p \in since : p < Runs(source) \/ task[source][1] # "active"
       IN  \/ /\ source \in gone
              /\ Enter("left")
              /\ UNCHANGED <<vars, logs, marks, source, follow, page, yielded>>
           \/ /\ source \notin gone /\ (left # {} \/ ended \/ ~ follow)
              /\ Answer(left, "done")
    /\ UNCHANGED since

\* the next entry of the answer is yielded; cloudrun moves since to its timestamp
Yield ==
    /\ phase = "yield"
    /\ LET k == Head(page)
       IN  /\ page' = Tail(page)
           /\ IF k \in ToSet(yielded) THEN repeated' = repeated \union {k} /\ UNCHANGED yielded
              ELSE yielded' = Append(yielded, k) /\ UNCHANGED repeated
           /\ since' = IF adapter = "cloudrun" THEN {Stamps[k]} ELSE since
    /\ Enter(IF page' # <<>> THEN "yield"
             ELSE IF adapter = "kubernetes" /\ ~ follow THEN "done" ELSE "page")
    /\ UNCHANGED <<vars, logs, source, follow, answered, late>>

\* a page that cannot be read: 404 ends the stream quietly
PageFails ==
    /\ phase = "page"
    /\ Enter("left")
    /\ UNCHANGED <<vars, logs, marks, source, follow, since, page, yielded>>

\* Fault: FAILED counts as running.
IsTerminalSucceeded == Mapped(source) = "succeeded"

\* _is_terminal
IsTerminal == Mapped(source) \in Terminal

\* between two pages: the end of the job is looked at after the empty page; a
\* Cloud Run execution that cannot be read counts as ended
Check ==
    /\ phase = "check"
    /\ IF adapter = "batch"
       THEN \/ /\ Describe
               /\ Enter(IF IsTerminal THEN "done" ELSE "page")
            \/ Undescribed /\ Enter("left") /\ UNCHANGED index
       ELSE /\ Enter(IF source \in gone \/ IsTerminal THEN "done" ELSE "page")
            /\ UNCHANGED index
    /\ UNCHANGED <<deployment, engine, told, pc, at, logs, marks,
                   source, follow, since, page, yielded>>

\* the deadline is compared while the reader has nothing to yield
TimeOut ==
    /\ phase \in {"await", "check"}
    /\ Enter("left")
    /\ UNCHANGED <<vars, logs, marks, source, follow, since, page, yielded>>

CheckFails ==
    /\ phase = "check"
    /\ Enter(IF adapter = "batch" THEN "left" ELSE "done")
    /\ UNCHANGED <<vars, logs, marks, source, follow, since, page, yielded>>

Advance ==
    \/ AwaitPod
    \/ AwaitLogStream
    \/ CloudRunPage
    \/ BatchPage
    \/ PodLines
    \/ Yield
    \/ Check

\* the reader goes with its process
KillTail ==
    /\ Restart
    /\ Enter(IF phase \in Off THEN phase ELSE "left")
    /\ UNCHANGED <<logs, marks, source, follow, since, page, yielded>>

TailNext ==
    \/ (Engine \/ Work) /\ UNCHANGED <<logs, reader, marks>>
    \/ KillTail
    \/ \E e \in Executions : Write(e) \/ \E f \in BOOLEAN : StreamLogs(e, f)
    \/ \E k \in Entries : Ingest(k)
    \/ Advance
    \/ PageFails
    \/ CheckFails
    \/ TimeOut

\* A tail is a thread of its caller, which goes on reading.
TailSpec == TailInit /\ [][TailNext]_tailVars /\ WF_tailVars(Advance)

-----------------------------------------------------------------------------
TailTypeOK ==
    /\ writer \in Seq(Nat)
    /\ visible \subseteq DOMAIN writer
    /\ source \in Executions \union {None}
    /\ phase \in Off \union {"await", "page", "yield", "check"}
    /\ phase = "yield" => page # <<>>
    /\ page # <<>> => phase \in {"yield", "left"}
    /\ follow \in BOOLEAN
    /\ since \subseteq Nat /\ Cardinality(since) <= 1
    /\ page \in Seq(visible) /\ yielded \in Seq(visible)
    /\ repeated \union answered \union late \subseteq visible

OfTheSource == IF adapter = "kubernetes" THEN LinesOfPod ELSE visible

\* stream_logs yields the output (on Kubernetes that of one pod) in the order of
\* its timestamps, and an entry twice only if Cloud Logging gave it no insert id.
\* A reader that has read to the end has yielded exactly what there was to see
\* when the log service answered last, but for what was held back until a later
\* entry had been given: what becomes visible after the last empty page, while
\* the job is looked at, is not read any more, however the job has ended.
Ordered(seq) ==
    \A i, j \in DOMAIN seq : i < j => seq[i] # seq[j] /\ Stamps[seq[i]] <= Stamps[seq[j]]

TailIsFaithful ==
    /\ Ordered(yielded)
    /\ \A k \in ToSet(yielded), j \in ToSet(page) : Stamps[k] <= Stamps[j]
    /\ ToSet(yielded) \union ToSet(page) \subseteq OfTheSource
    /\ repeated \subseteq Anonymous /\ (repeated # {} => adapter = "cloudrun")
    /\ phase = "done" => ToSet(yielded) = (OfTheSource \intersect answered) \ late

\* An entry without an insert id is new on every page as long as no later one has
\* been yielded, so the reader gets no empty page and never looks at the job.
RepeatsForEver ==
    <>[](phase \in {"page", "yield"} /\ adapter = "cloudrun"
         /\ \E k \in Anonymous \intersect visible : Stamps[k] \in since)

\* A follower of a job that has ended stops by itself, without a timeout, unless
\* it repeats such an entry; the wait for the first pod of a Kubernetes job does
\* not (it never looks at the job, which may have ended, or been deleted, before
\* it had a pod).
TailsEnd ==
    \/ RepeatsForEver
    \/ (phase \in {"await", "page", "yield", "check"} /\ (end[source] # None \/ source \in gone))
           ~> (phase \in Off \/ (adapter = "kubernetes" /\ phase = "await"))
=============================================================================
