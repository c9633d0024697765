---------------------------- MODULE CleanupJobs ----------------------------
(***************************************************************************)
(* Cleanup after a change of the token ring.  The sidecar of a node writes  *)
(* the hash of the ring it sees to its member Service; the datacenter       *)
(* controller keeps a Job for every node whose hash is not the one it was   *)
(* last cleaned up for, and takes the hash of a completed Job over into the *)
(* Service.                                                                 *)
(*                                                                          *)
(* The ring is its set of members, and a hash stands for a ring.  A member  *)
(* that joins takes over data of the nodes that are there, which they hold  *)
(* on to until a cleanup; a member that leaves gives its data back.  It     *)
(* never comes back with the same tokens.  The cleanup of some nodes is     *)
(* followed in detail; the others are nodes of the datacenter that come and *)
(* go, and of which the controller waits for readiness and a first hash.    *)
(***************************************************************************)
EXTENDS Naturals, FiniteSets

CONSTANTS
  Residents,   \* number of nodes that are followed; the first one is there at first
  Keyspaces,   \* number of keyspaces that a cleanup goes through
  MaxGuests,   \* bound on other nodes that come and go
  MaxFailures  \* bound on crashes, refused calls, failed cleanups and deleted Jobs

ASSUME CleanupAssumption ==
  /\ Residents \in Nat \ {0} /\ Keyspaces \in Nat \ {0}
  /\ MaxGuests \in Nat /\ MaxFailures \in Nat

Resident == 1..Residents
Keyspace == 1..Keyspaces
Guest == (Residents + 1)..(Residents + MaxGuests)
Member == Resident \cup Guest

\* The annotation that is missing, and the one of a node that was never cleaned up.
Missing == {}
NeverCleanedUp == {0}
Hashes == (SUBSET Member) \cup {NeverCleanedUp}

VARIABLES
  ring,     \* the members of the token ring
  gone,     \* members that have left
  fresh,    \* other nodes that are not ready and have no hash yet
  extra,    \* node -> keyspace -> members whose data it still holds
  service,  \* node -> the two annotations of its Service
  job,      \* node -> its cleanup Job: the hash in its annotation, completed or not
  jobPod,   \* node -> the Pod of that Job: keyspaces to do, and whether one failed
  cached,   \* services and jobs in the controller's cache
  owed,     \* what the cache must show before the next read: the controller's writes
  status,   \* the datacenter is reported available and not progressing
  queue,    \* the datacenter is in the work queue
  step,     \* the stage of the sync
  left,     \* nodes that the stage has not come to, in their order
  listed,   \* what the sync listed
  errs,     \* stages that failed
  failures  \* faults so far

scylla == <<ring, gone, fresh, extra>>
api == <<service, job, jobPod>>
syncState == <<step, left, listed, errs>>
cleanupVars == <<scylla, api, cached, owed, status, queue, syncState, failures>>

MemberServices == [cur : Hashes, last : Hashes]
Jobs == [hash : Hashes, complete : BOOLEAN]
NoJob == [hash |-> Missing, complete |-> FALSE]
NewJob(hash) == [hash |-> hash, complete |-> FALSE]
NoJobPod == [todo |-> {}, failed |-> FALSE]
NewPod == [todo |-> Keyspace, failed |-> FALSE]
Exists(j) == j # NoJob

NoSnap == [svc |-> [n \in Resident |-> [cur |-> Missing, last |-> Missing]],
           job |-> [n \in Resident |-> NoJob], known |-> FALSE, ready |-> FALSE]

CleanupInit ==
  /\ ring = {1} /\ gone = {} /\ fresh = {}
  /\ extra = [n \in Resident |-> [k \in Keyspace |-> {}]]
  /\ service = [n \in Resident |-> [cur |-> Missing, last |-> NeverCleanedUp]]
  /\ job = [n \in Resident |-> NoJob] /\ jobPod = [n \in Resident |-> NoJobPod]
  /\ cached = [svc |-> service, job |-> job]
  /\ owed = {}
  /\ status = FALSE /\ queue = TRUE
  /\ step = "idle" /\ left = {} /\ listed = NoSnap
  /\ errs = {}
  /\ failures = 0

\* The Job of a node and its Pod are replaced.
Store(n, j, p) == job' = [job EXCEPT ![n] = j] /\ jobPod' = [jobPod EXCEPT ![n] = p]

Fault == failures < MaxFailures /\ failures' = failures + 1

-----------------------------------------------------------------------------
(* ScyllaDB and the sidecars. *)

\* A member joins; a node of the datacenter is ready from then on.
Join(m) ==
  /\ m \notin ring \cup gone
  /\ ring' = ring \cup {m}
  /\ extra' = [n \in Resident |-> [k \in Keyspace |->
                 IF n \in ring THEN extra[n][k] \cup {m} ELSE {}]]
  /\ fresh' = fresh \cup ({m} \cap Guest)
  /\ queue' = (queue \/ m \in Resident)
  /\ UNCHANGED <<gone, api, cached, owed, status, syncState, failures>>

\* A member leaves, and the others own again what it had taken over.  Its Service
\* is deleted, which is an event.
Leave(m) ==
  /\ m \in ring
  /\ ring' = ring \ {m} /\ gone' = gone \cup {m} /\ fresh' = fresh \ {m}
  /\ extra' = [n \in Resident |-> [k \in Keyspace |-> extra[n][k] \ {m}]]
  /\ queue' = TRUE
  /\ UNCHANGED <<api, cached, owed, status, syncState, failures>>

\* Another node is ready and has its first hash.
Settle(m) ==
  /\ m \in fresh
  /\ fresh' = fresh \ {m} /\ queue' = TRUE
  /\ UNCHANGED <<ring, gone, extra, api, cached, owed, status, syncState, failures>>

\* The sidecar of a node that is a member writes the hash of the ring to the
\* Service.  That it writes some time after it reads is no more than a hash that is
\* old for longer.
syncAnnotations(n) ==
  /\ n \in ring /\ service[n].cur # ring
  /\ service' = [service EXCEPT ![n].cur = ring]
  /\ UNCHANGED <<scylla, job, jobPod, cached, owed, status, queue, syncState, failures>>

-----------------------------------------------------------------------------
(* The Pod of a Job. *)

Runs(n) == Exists(job[n]) /\ ~job[n].complete

\* runCleanup: one keyspace; a failed one does not end the loop.
Cleanup(n, k) ==
  /\ Runs(n) /\ k \in jobPod[n].todo /\ \A j \in jobPod[n].todo : k <= j
  /\ \/ /\ extra' = [extra EXCEPT ![n][k] = {}]
        /\ jobPod' = [jobPod EXCEPT ![n].todo = @ \ {k}]
        /\ UNCHANGED failures
     \/ /\ Fault
        /\ jobPod' = [jobPod EXCEPT ![n].todo = @ \ {k}, ![n].failed = TRUE]
        /\ UNCHANGED extra
  /\ UNCHANGED <<ring, gone, fresh, service, job, cached, owed, status, queue, syncState>>

\* The exit status of Run: an error of any keyspace is one of the Pod.
ExitsWithError(p) == p.failed

\* The Pod completes the Job, or its container is started anew.
Exit(n) ==
  /\ Runs(n) /\ jobPod[n].todo = {}
  /\ IF ExitsWithError(jobPod[n])
     THEN jobPod' = [jobPod EXCEPT ![n] = NewPod] /\ UNCHANGED job
     ELSE jobPod' = [jobPod EXCEPT ![n] = NoJobPod] /\ job' = [job EXCEPT ![n].complete = TRUE]
  /\ UNCHANGED <<scylla, service, cached, owed, status, queue, syncState, failures>>

\* The Pod is lost and made again.
LosePod(n) ==
  /\ Runs(n) /\ Fault
  /\ jobPod' = [jobPod EXCEPT ![n] = NewPod]
  /\ UNCHANGED <<scylla, service, job, cached, owed, status, queue, syncState>>

\* Somebody deletes the Job.
DeleteJob(n) ==
  /\ Exists(job[n]) /\ Fault
  /\ Store(n, NoJob, NoJobPod)
  /\ UNCHANGED <<scylla, service, cached, owed, status, queue, syncState>>

-----------------------------------------------------------------------------
(* The controller. *)

ObserveService(n) ==
  /\ cached.svc[n] # service[n] \/ <<"svc", n>> \in owed
  /\ cached' = [cached EXCEPT !.svc[n] = service[n]]
  /\ owed' = owed \ {<<"svc", n>>} /\ queue' = TRUE
  /\ UNCHANGED <<scylla, api, status, syncState, failures>>

ObserveJob(n) ==
  /\ cached.job[n] # job[n] \/ <<"job", n>> \in owed
  /\ cached' = [cached EXCEPT !.job[n] = job[n]]
  /\ owed' = owed \ {<<"job", n>>} /\ queue' = TRUE
  /\ UNCHANGED <<scylla, api, status, syncState, failures>>

\* The read-your-writes client holds a list back until it shows its own writes.
ReadsItsWrites == owed = {}

StartSync ==
  /\ step = "idle" /\ queue /\ ReadsItsWrites
  /\ queue' = FALSE
  /\ listed' = [svc |-> cached.svc, job |-> cached.job, known |-> fresh = {}, ready |-> status]
  /\ step' = "services" /\ left' = Resident /\ errs' = {}
  /\ UNCHANGED <<scylla, api, cached, owed, status, failures>>

\* Mutant: the Service keeps what it has.
LastCleanedUpKept(n) == listed.svc[n].last

\* MemberService: the last hash is kept, or taken from a completed Job.
LastCleanedUp(n) == IF listed.job[n].complete THEN listed.job[n].hash ELSE listed.svc[n].last

\* The stage is at this node.
At(stage, n) == step = stage /\ n \in left /\ \A m \in left : n <= m

Done(n) == left' = left \ {n}
Failed(stage, n) == errs' = errs \cup {stage} /\ left' = IF stage = "services" THEN {} ELSE left \ {n}

\* syncServices for one Service; the first error ends it.  The update carries the
\* resource version of the cached Service.
ApplyService(n) ==
  /\ At("services", n)
  /\ \/ /\ cached.svc[n].last = LastCleanedUp(n)
        /\ Done(n) /\ UNCHANGED <<service, owed, errs>>
     \/ /\ cached.svc[n].last # LastCleanedUp(n) /\ service[n] = cached.svc[n]
        /\ service' = [service EXCEPT ![n].last = LastCleanedUp(n)]
        /\ owed' = owed \cup {<<"svc", n>>}
        /\ Done(n) /\ UNCHANGED errs
     \/ /\ cached.svc[n].last # LastCleanedUp(n) /\ service[n] # cached.svc[n]
        /\ Failed("services", n) /\ UNCHANGED <<service, owed>>
  /\ UNCHANGED <<scylla, job, jobPod, cached, status, queue, step, listed, failures>>

\* MakeJobs gives up as long as some node has no hash.
AllHashesKnown == listed.known /\ \A n \in Resident : listed.svc[n].cur # Missing

\* A Job is required for a node whose ring is not the one it was cleaned up for.
Requires(n) == listed.svc[n].cur # listed.svc[n].last

EndServices ==
  /\ step = "services" /\ left = {}
  /\ step' = (IF AllHashesKnown THEN "prune" ELSE "status")
  /\ left' = Resident
  /\ UNCHANGED <<scylla, api, cached, owed, status, queue, listed, errs, failures>>

\* Prune deletes by uid; a Job that is not there any more is an error.
PruneJob(n) ==
  /\ At("prune", n)
  /\ \/ /\ Requires(n) \/ ~Exists(listed.job[n])
        /\ Done(n) /\ UNCHANGED <<job, jobPod, owed, errs>>
     \/ /\ ~Requires(n) /\ Exists(listed.job[n]) /\ Exists(job[n])
        /\ Store(n, NoJob, NoJobPod)
        /\ owed' = owed \cup {<<"job", n>>}
        /\ Done(n) /\ UNCHANGED errs
     \/ /\ ~Requires(n) /\ Exists(listed.job[n]) /\ ~Exists(job[n])
        /\ Failed("jobs", n) /\ UNCHANGED <<job, jobPod, owed>>
  /\ UNCHANGED <<scylla, service, cached, status, queue, step, listed, failures>>

\* Nothing is applied after a failed prune or while the status says that the
\* datacenter is not available or that its StatefulSets are progressing.
EndPrune ==
  /\ step = "prune" /\ left = {}
  /\ step' = (IF "jobs" \notin errs /\ listed.ready THEN "jobs" ELSE "status")
  /\ left' = Resident
  /\ UNCHANGED <<scylla, api, cached, owed, status, queue, listed, errs, failures>>

\* Mutant: the annotation is updated in place.
ReapplyInPlace(n, hash) == Store(n, [job[n] EXCEPT !.hash = hash], jobPod[n])

\* A Job of another hash: its template is immutable, so it is deleted and created
\* anew.
Reapply(n, hash) == Store(n, NewJob(hash), NewPod)

ApplyJob(n) ==
  /\ At("jobs", n)
  /\ \/ /\ ~Requires(n) \/ cached.job[n].hash = listed.svc[n].cur
        /\ Done(n) /\ UNCHANGED <<job, jobPod, owed, errs>>
     \/ /\ Requires(n) /\ ~Exists(cached.job[n]) /\ ~Exists(job[n])
        /\ Store(n, NewJob(listed.svc[n].cur), NewPod)
        /\ owed' = owed \cup {<<"job", n>>}
        /\ Done(n) /\ UNCHANGED errs
     \/ /\ Requires(n) /\ Exists(cached.job[n]) /\ cached.job[n].hash # listed.svc[n].cur
        /\ Exists(job[n])
        /\ Reapply(n, listed.svc[n].cur)
        /\ owed' = owed \cup {<<"job", n>>}
        /\ Done(n) /\ UNCHANGED errs
     \/ /\ Requires(n) /\ cached.job[n].hash # listed.svc[n].cur
        /\ Exists(cached.job[n]) # Exists(job[n])
        /\ Failed("jobs", n) /\ UNCHANGED <<job, jobPod, owed>>
  /\ UNCHANGED <<scylla, service, cached, status, queue, step, listed, failures>>

\* updateStatus; an error or a changed status queues the datacenter again.
EndSync ==
  /\ step = "status" \/ (step = "jobs" /\ left = {})
  /\ step' = "idle" /\ left' = {} /\ listed' = NoSnap /\ errs' = {}
  /\ status' = (Resident \subseteq ring /\ fresh = {})
  /\ queue' = (queue \/ errs # {} \/ status' # status)
  /\ UNCHANGED <<scylla, api, cached, owed, failures>>

\* A call of the stage is refused.
Refuse(n) ==
  /\ \E stage \in {"services", "prune", "jobs"} : At(stage, n)
  /\ Fault
  /\ Failed(IF step = "services" THEN "services" ELSE "jobs", n)
  /\ UNCHANGED <<scylla, api, cached, owed, status, queue, step, listed>>

\* The second call of a recreation is refused: there is no Job.
RefuseCreate(n) ==
  /\ At("jobs", n) /\ Fault
  /\ Requires(n) /\ Exists(cached.job[n]) /\ cached.job[n].hash # listed.svc[n].cur
  /\ Exists(job[n])
  /\ Store(n, NoJob, NoJobPod)
  /\ owed' = owed \cup {<<"job", n>>}
  /\ Failed("jobs", n)
  /\ UNCHANGED <<scylla, service, cached, status, queue, step, listed>>

\* The operator restarts with a fresh cache.
Crash ==
  /\ step # "idle" /\ Fault
  /\ step' = "idle" /\ left' = {} /\ listed' = NoSnap /\ errs' = {}
  /\ cached' = [svc |-> service, job |-> job] /\ owed' = {} /\ queue' = TRUE
  /\ UNCHANGED <<scylla, api, status>>

-----------------------------------------------------------------------------

Sync ==
  \/ StartSync \/ EndServices \/ EndPrune \/ EndSync
  \/ \E n \in Resident : ApplyService(n) \/ PruneJob(n) \/ ApplyJob(n)

JobPod(n) == Exit(n) \/ \E k \in Keyspace : Cleanup(n, k)

CleanupNext ==
  \/ Sync \/ Crash
  \/ \E m \in Member : Join(m)
  \/ \E m \in Guest : Leave(m) \/ Settle(m)
  \/ \E n \in Resident : \/ syncAnnotations(n)
                         \/ JobPod(n) \/ LosePod(n) \/ DeleteJob(n)
                         \/ ObserveService(n) \/ ObserveJob(n)
                         \/ Refuse(n) \/ RefuseCreate(n)

CleanupSpec == CleanupInit /\ [][CleanupNext]_cleanupVars

\* A sidecar syncs on every event and on the resync of its informer.
FairCleanupSpec ==
  /\ CleanupSpec /\ WF_cleanupVars(Sync) /\ \A m \in Guest : WF_cleanupVars(Settle(m))
  /\ \A n \in Resident : /\ WF_cleanupVars(Join(n)) /\ WF_cleanupVars(JobPod(n))
                         /\ WF_cleanupVars(syncAnnotations(n))
                         /\ WF_cleanupVars(ObserveService(n)) /\ WF_cleanupVars(ObserveJob(n))

-----------------------------------------------------------------------------
(* Properties. *)

CleanupTypeOK ==
  /\ ring \subseteq Member /\ gone \subseteq Guest /\ fresh \subseteq Guest
  /\ extra \in [Resident -> [Keyspace -> SUBSET Member]]
  /\ service \in [Resident -> MemberServices] /\ job \in [Resident -> Jobs]
  /\ jobPod \in [Resident -> [todo : SUBSET Keyspace, failed : BOOLEAN]]
  /\ cached \in [svc : [Resident -> MemberServices], job : [Resident -> Jobs]]
  /\ listed \in [svc : [Resident -> MemberServices], job : [Resident -> Jobs],
                known : BOOLEAN, ready : BOOLEAN]
  /\ owed \subseteq {"svc", "job"} \X Resident
  /\ status \in BOOLEAN /\ queue \in BOOLEAN
  /\ step \in {"idle", "services", "prune", "jobs", "status"} /\ left \subseteq Resident
  /\ errs \subseteq {"services", "jobs"} /\ failures \in 0..MaxFailures

\* A node that is marked as cleaned up for the present ring holds no data of other
\* members, in no keyspace, although the ring moves between the sidecar's read,
\* the Job and the mark, and Jobs of one name follow each other.
MarkedIsClean ==
  \A n \in Resident \cap ring : service[n].last = ring => \A k \in Keyspace : extra[n][k] = {}

\* Once the ring stops changing every node is cleaned up and marked, and the Jobs
\* are gone.
EventuallyCleanedUp ==
  <>[](\A n \in Resident : /\ service[n] = [cur |-> ring, last |-> ring]
                           /\ \A k \in Keyspace : extra[n][k] = {}
                           /\ job[n] = NoJob)

=============================================================================
