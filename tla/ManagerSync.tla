---------------------------- MODULE ManagerSync ----------------------------
(* The two controllers that keep ScyllaDB Manager in step with Kubernetes:  *)
(* a ScyllaDBManagerClusterRegistration becomes a cluster of the Manager    *)
(* and a ScyllaDBManagerTask one of its tasks.  The Manager is a server     *)
(* with a state of its own, reached by calls that may fail, may take effect *)
(* and have their answer lost, and it may be changed by others: nothing     *)
(* tells the operator.  What the operator knows of the Manager is the id it *)
(* once wrote to the status of its object.  A finalizer on either object is *)
(* to delete the counterpart before the object goes.                        *)
EXTENDS Integers, Sequences, FiniteSets, TLC

CONSTANTS MaxEdits,   \* changes made by users: create, delete, edit, new token
          MaxFaults   \* failing calls, lost answers, restarts, and changes
                      \* to the Manager that bypass the operator

ASSUME BoundsAssumption == MaxEdits \in Nat /\ MaxFaults \in Nat

VARIABLES obj,       \* the two objects as the API server has them
          seen,      \* the same in the informers' caches
          queue,     \* the keys in the work queues
          work,      \* the sync of either controller, or Idle
          cluster,   \* the Manager's cluster of the registration's name
          tasks,     \* the Manager's tasks of the task's name and type
          nextID,    \* the next id that the Manager gives out
          dc,        \* the datacenter: [available, token]
          namespace, \* whether the Manager's namespace exists
          adopt,     \* whether the task has the annotation forcing adoption
          lost,      \* objects whose counterpart was removed, by others or with its cluster
          uid, edits, faults

manager == <<cluster, tasks, nextID>>
world == <<dc, namespace, adopt>>
counters == <<uid, edits>>
vars == <<obj, seen, queue, work, manager, world, lost, counters, faults>>

Keys == {"reg", "task"}

Absent == [uid |-> 0]
Exists(o) == o.uid # 0
NewObject(u) == [uid |-> u, deleting |-> FALSE, fin |-> FALSE, id |-> 0, cond |-> <<FALSE, "none">>,
                 spec |-> 1, ann |-> <<0, 0>>]

(* Owners of what is in the Manager: a uid, or one of these.                *)
NoOwner == 0
OtherOwner == -1
NoCluster == [id |-> 0]
NoTask == [id |-> 0]

Idle == <<>>

(* What the Manager holds when the operator arrives: nothing, or what the   *)
(* legacy manager-controller or an administrator has registered.            *)
Legacy ==
    LET task == [id |-> 2, owner |-> NoOwner, hash |-> 0]
        Made(owner) == [id |-> 1, owner |-> owner, hash |-> 0]
    IN  {[cluster |-> NoCluster, tasks |-> {}, adopt |-> FALSE],
         [cluster |-> Made(NoOwner), tasks |-> {}, adopt |-> FALSE],
         [cluster |-> Made(OtherOwner), tasks |-> {task}, adopt |-> FALSE],
         [cluster |-> Made(OtherOwner), tasks |-> {task}, adopt |-> TRUE]}

(* The registration has its finalizer already; the task is new, or is yet   *)
(* to be created.                                                           *)
Init ==
    /\ \E task \in {NewObject(2), Absent} :
         obj = [reg |-> [NewObject(1) EXCEPT !.fin = TRUE], task |-> task]
    /\ seen = obj
    /\ queue = {k \in Keys : Exists(obj[k])}
    /\ work = [k \in Keys |-> Idle]
    /\ \E l \in Legacy : cluster = l.cluster /\ tasks = l.tasks /\ adopt = l.adopt
    /\ nextID = 3
    /\ dc = [available |-> FALSE, token |-> 1]
    /\ namespace = TRUE
    /\ lost = {}
    /\ uid = 2
    /\ edits = 0
    /\ faults = 0

Fault == faults < MaxFaults /\ faults' = faults + 1

---------------------------------------------------------------------------
(* What a sync decides: a record of the calls it is to make, the status it  *)
(* will report, and what it found.  The conditions of a finalizer are not   *)
(* those of the sync before it.                                             *)

Plan(v, ops, id, cond, found) ==
    [view |-> v, ops |-> ops, new |-> [id |-> id, cond |-> <<v.deleting, cond>>], found |-> found, retry |-> FALSE]

ClusterByID(v) == cluster.id # 0 /\ cluster.id = v.id  \* mutant: no fallback to the name

(* getScyllaDBManagerCluster: by the id in the status and, when that one is *)
(* gone or unknown, by the name, which is unique in the Manager.            *)
getScyllaDBManagerCluster(v) == cluster.id # 0

(* makeRequiredScyllaDBManagerCluster: the owner's uid and what the hash is *)
(* taken of, the token of the agents.                                       *)
requiredCluster(v) == [owner |-> v.uid, hash |-> dc.token]

(* syncFinalizer of the registration.                                       *)
finalizeRegistration(v) ==
    IF v.fin /\ namespace /\ getScyllaDBManagerCluster(v)
    THEN Plan(v, <<"deleteCluster">>, v.id, "deleted", cluster)
    ELSE Plan(v, IF v.fin THEN <<"removeFinalizer">> ELSE <<>>, v.id, "none", NoTask)

(* syncManager of the registration.                                         *)
syncRegistration(v) ==
    CASE ~dc.available -> Plan(v, <<>>, v.id, "awaiting", NoTask)
      [] dc.available /\ ~getScyllaDBManagerCluster(v) ->
             Plan(v, <<"createCluster">>, v.id, "created", NoTask)
      [] dc.available /\ getScyllaDBManagerCluster(v) ->
             CASE cluster.owner = NoOwner -> Plan(v, <<"deleteCluster">>, v.id, "collided", cluster)
               [] [owner |-> cluster.owner, hash |-> cluster.hash] = requiredCluster(v) ->
                      Plan(v, <<>>, cluster.id, "none", NoTask)
               [] OTHER -> Plan(v, <<"updateCluster">>, cluster.id, "updated", cluster)

TaskByID(v) == {t \in tasks : v.id = t.id}  \* mutant: not looked for while the status has no id

(* getScyllaDBManagerClientTask: the Manager lists the tasks of the type    *)
(* with the id of the status, or all when the status has none; the one of   *)
(* the name is taken.                                                       *)
getScyllaDBManagerClientTask(v) == {t \in tasks : v.id \in {0, t.id}}

(* The status of the task in the Manager, kept as an annotation for the     *)
(* ScyllaCluster to copy.                                                   *)
statusAnnotation(t) == <<t.id, t.hash>>

(* syncFinalizer of the task, for the registration r.                       *)
finalizeTask(v, r) ==
    CASE v.fin /\ Exists(r) /\ r.id = 0 -> Plan(v, <<>>, v.id, "awaiting registration", NoTask)
      [] v.fin /\ Exists(r) /\ r.id # 0 ->
             IF getScyllaDBManagerClientTask(v) = {}
             THEN Plan(v, <<"removeFinalizer">>, v.id, "none", NoTask)
             ELSE LET t == CHOOSE t \in getScyllaDBManagerClientTask(v) : TRUE
                  IN  Plan(v, <<"deleteTask">>, v.id, "deleted", t)
      [] v.fin /\ ~Exists(r) -> Plan(v, <<"removeFinalizer">>, v.id, "none", NoTask)
      [] OTHER -> Plan(v, <<>>, v.id, "none", NoTask)

IgnoreCollision(t) == FALSE  \* mutant: a task without an owner is taken as it is

(* makeScyllaDBManagerClientTask: the owner's uid and what the hash is      *)
(* taken of, the type, schedule and properties made of the spec.            *)
requiredTask(v) == [owner |-> v.uid, hash |-> v.spec]

(* Whether a task is in the way and deleted: it has no owner, and is not to *)
(* be adopted.                                                              *)
Collides(t) == t.owner = NoOwner /\ ~adopt

(* syncManager of the task: created when it is not found, deleted when it   *)
(* has no owner and is not to be adopted, refused when it has another one,  *)
(* updated when its hash differs.                                           *)
syncTask(v, r) ==
    IF ~Exists(r) \/ r.id = 0
    THEN Plan(v, <<>>, v.id, "awaiting registration", NoTask)
    ELSE IF getScyllaDBManagerClientTask(v) = {}
    THEN Plan(v, <<"createTask">>, v.id, "created", [id |-> r.id])
    ELSE LET t == CHOOSE t \in getScyllaDBManagerClientTask(v) : TRUE
             current == v.ann = statusAnnotation(t)
         IN  CASE Collides(t) -> Plan(v, <<"deleteTask">>, v.id, "collided", t)
               [] t.owner \notin {NoOwner, v.uid} -> Plan(v, <<>>, v.id, "cannot adopt", NoTask)
               [] [owner |-> t.owner, hash |-> t.hash] = requiredTask(v) ->
                      IF current THEN Plan(v, <<>>, t.id, "none", NoTask)
                      ELSE Plan(v, <<"annotate">>, t.id, "none", t)
               [] OTHER -> Plan(v, IF current THEN <<"updateTask">> ELSE <<"annotate", "updateTask">>,
                                t.id, "updated", t)

(* The sync of either controller, up to its first call that changes         *)
(* anything.                                                                *)
Decide(k) ==
    LET v == seen[k]
    IN  CASE v.deleting -> IF k = "reg" THEN finalizeRegistration(v) ELSE finalizeTask(v, seen.reg)
          [] ~v.deleting /\ ~v.fin -> Plan(v, <<"addFinalizer">>, v.id, "none", NoTask)
          [] OTHER -> IF k = "reg" THEN syncRegistration(v) ELSE syncTask(v, seen.reg)

(* Whether the sync asks the Manager before it decides.                     *)
Asks(k) ==
    LET v == seen[k]
        reached == seen.reg.uid # 0 /\ seen.reg.id # 0
    IN  /\ v.fin
        /\ IF k = "task" THEN reached
           ELSE IF v.deleting THEN namespace ELSE dc.available

(* The question is refused: the Manager does not answer, or the task's      *)
(* cluster is not in the Manager.                                           *)
Refused(k) == ~namespace \/ (k = "task" /\ cluster.id # seen.reg.id)

---------------------------------------------------------------------------
(* The sync.                                                                *)

End(k) == work' = [work EXCEPT ![k] = Idle]
Leave == UNCHANGED queue
Requeue(k) == queue' = queue \cup {k}

(* Whether an error of the finalizer is returned by the sync: the task's    *)
(* sync overwrites it with the result of updating the status.               *)
FinalizerErrorReturned(k) == k = "reg"

(* A call fails.  The registration's finalizer gives up the whole sync;     *)
(* everything else reports the error in the status first, and the key is    *)
(* queued again unless the error is not retriable or was dropped.           *)
Fails(k, w, what, retriable) ==
    CASE w.view.deleting /\ FinalizerErrorReturned(k) ->
             End(k) /\ Requeue(k)
      [] what = "addFinalizer" -> End(k) /\ Requeue(k)
      [] OTHER ->
             /\ work' = [work EXCEPT ![k] = [w EXCEPT !.ops = <<>>, !.found = NoTask,
                                                      !.new.cond = <<w.view.deleting, what>>,
                                                      !.retry = retriable /\ ~w.view.deleting]]
             /\ Leave

(* sync: the key is taken from the queue, the object from the cache and the *)
(* counterpart from the Manager.                                            *)
StartSync(k) ==
    /\ k \in queue
    /\ work[k] = Idle
    /\ queue' = queue \ {k}
    /\ IF ~Exists(seen[k])
       THEN UNCHANGED work
       ELSE ~(Asks(k) /\ Refused(k)) /\ work' = [work EXCEPT ![k] = Decide(k)]
    /\ UNCHANGED <<obj, seen, manager, world, lost, counters, faults>>

StartSyncFails(k) ==
    /\ k \in queue
    /\ work[k] = Idle
    /\ Exists(seen[k])
    /\ Asks(k)
    /\ IF Refused(k) THEN UNCHANGED faults ELSE Fault
    /\ IF seen[k].deleting /\ FinalizerErrorReturned(k)
       THEN UNCHANGED <<queue, work>>
       ELSE /\ work' = [work EXCEPT ![k] =
                            [Plan(seen[k], <<>>, seen[k].id, "cannot get", NoTask)
                                EXCEPT !.retry = ~seen[k].deleting]]
            /\ queue' = queue \ {k}
    /\ UNCHANGED <<obj, seen, manager, world, lost, counters>>

(* The Manager's side of a call: whether it is accepted, and its effect.    *)
Accepted(k, w) ==
    /\ namespace
    /\ CASE Head(w.ops) = "createCluster" -> cluster = NoCluster
         [] Head(w.ops) \in {"updateCluster", "deleteCluster"} -> cluster.id = w.found.id
         [] Head(w.ops) = "createTask" -> cluster.id = w.found.id /\ tasks = {}
         [] OTHER -> \E t \in tasks : t.id = w.found.id

(* A second task of a name is bad request.                                  *)
BadRequest(w) == Head(w.ops) = "createTask" /\ namespace /\ tasks # {}

Owners(ts) == {t.owner : t \in ts} \ {NoOwner, OtherOwner}

(* The objects that miss the tasks: the owners, and the task object, which  *)
(* may be about to adopt a task, or have its id already.                    *)
Missing(ts) == IF ts = {} THEN {} ELSE Owners(ts) \cup ({obj.task.uid} \ {0})

Numbered(n, r) == [id |-> n, owner |-> r.owner, hash |-> r.hash]

Effect(k, w) ==
    LET op == Head(w.ops)
    IN  /\ cluster' = CASE op = "createCluster" -> Numbered(nextID, requiredCluster(w.view))
                        [] op = "updateCluster" -> Numbered(w.found.id, requiredCluster(w.view))
                        [] op = "deleteCluster" -> NoCluster
                        [] OTHER -> cluster
        /\ tasks' = CASE op = "deleteCluster" -> {}
                      [] op = "createTask" -> {Numbered(nextID, requiredTask(w.view))}
                      [] op = "updateTask" -> {Numbered(w.found.id, requiredTask(w.view))}
                      [] op = "deleteTask" -> {t \in tasks : t.id # w.found.id}
                      [] OTHER -> tasks
        /\ nextID' = IF op \in {"createCluster", "createTask"} THEN nextID + 1 ELSE nextID
        /\ lost' = IF op = "deleteCluster" THEN lost \cup Missing(tasks) ELSE lost

(* The status after a call that succeeded.                                  *)
Succeeds(k, w) ==
    work' = [work EXCEPT ![k] = [w EXCEPT !.ops = Tail(w.ops),
                !.found = IF Tail(w.ops) = <<>> THEN NoTask ELSE @,
                !.new.id = IF Head(w.ops) \in {"createCluster", "createTask"} THEN nextID ELSE w.new.id]]

ManagerOps == {"createCluster", "updateCluster", "deleteCluster", "createTask", "updateTask", "deleteTask"}

AtOp(k, ops) == work[k] # Idle /\ work[k].ops # <<>> /\ Head(work[k].ops) \in ops

(* A call of the Manager that is answered.                                  *)
CallManager(k) ==
    LET w == work[k]
    IN  /\ AtOp(k, ManagerOps)
        /\ IF Accepted(k, w)
           THEN Effect(k, w) /\ Succeeds(k, w) /\ Leave
           ELSE Fails(k, w, Head(w.ops), ~BadRequest(w)) /\ UNCHANGED <<manager, lost>>
        /\ UNCHANGED <<obj, seen, world, counters, faults>>

(* One that is not, whether or not it took effect.                          *)
CallManagerLost(k) ==
    LET w == work[k]
    IN  /\ AtOp(k, ManagerOps)
        /\ Fault
        /\ \/ Accepted(k, w) /\ Effect(k, w)
           \/ UNCHANGED <<manager, lost>>
        /\ Fails(k, w, Head(w.ops), TRUE)
        /\ UNCHANGED <<obj, seen, world, counters>>

(* A patch of the object, refused when the object is not the one the sync   *)
(* has read.  Removing the finalizer lets the API server delete the object; *)
(* the sync that adds it ends there.                                        *)
PatchObject(k) ==
    LET w == work[k]
        op == Head(w.ops)
    IN  /\ AtOp(k, {"addFinalizer", "removeFinalizer", "annotate"})
        /\ IF obj[k] # w.view
           THEN Fails(k, w, op, TRUE) /\ UNCHANGED obj
           ELSE /\ obj' = [obj EXCEPT ![k] =
                       CASE op = "addFinalizer" -> [@ EXCEPT !.fin = TRUE]
                         [] op = "removeFinalizer" -> Absent
                         [] op = "annotate" -> [@ EXCEPT !.ann = statusAnnotation(w.found)]]
                /\ IF op = "addFinalizer" THEN End(k) ELSE Succeeds(k, w)
                /\ Leave
        /\ UNCHANGED <<seen, manager, world, lost, counters, faults>>

PatchObjectFails(k) ==
    /\ AtOp(k, {"addFinalizer", "removeFinalizer", "annotate"})
    /\ Fault
    /\ Fails(k, work[k], Head(work[k].ops), TRUE)
    /\ UNCHANGED <<obj, seen, manager, world, lost, counters>>

(* updateStatus: nothing is written when nothing changed.                   *)
updateStatus(k) ==
    LET w == work[k]
        unchanged == w.new = [id |-> w.view.id, cond |-> w.view.cond]
    IN  /\ w # Idle /\ w.ops = <<>>
        /\ End(k)
        /\ IF ~unchanged /\ obj[k] = w.view
           THEN obj' = [obj EXCEPT ![k].id = w.new.id, ![k].cond = w.new.cond]
           ELSE UNCHANGED obj
        /\ IF w.retry \/ (~unchanged /\ obj[k] # w.view) THEN Requeue(k) ELSE Leave
        /\ UNCHANGED <<seen, manager, world, lost, counters, faults>>

updateStatusFails(k) ==
    LET w == work[k]
    IN  /\ w # Idle /\ w.ops = <<>>
        /\ w.new # [id |-> w.view.id, cond |-> w.view.cond]
        /\ Fault
        /\ End(k)
        /\ Requeue(k)
        /\ UNCHANGED <<obj, seen, manager, world, lost, counters>>

DeliverToOwn(k) ==  \* mutant: the tasks do not watch their registration
    /\ seen[k] # obj[k]
    /\ seen' = [seen EXCEPT ![k] = obj[k]]
    /\ queue' = queue \cup {k}
    /\ UNCHANGED <<obj, work, manager, world, lost, counters, faults>>

(* An event: every event of a registration also queues its tasks.           *)
Deliver(k) ==
    /\ seen[k] # obj[k]
    /\ seen' = [seen EXCEPT ![k] = obj[k]]
    /\ queue' = queue \cup IF k = "reg" THEN Keys ELSE {k}
    /\ UNCHANGED <<obj, work, manager, world, lost, counters, faults>>

(* The operator restarts: its syncs are gone and every object is queued.    *)
Restart ==
    /\ Fault
    /\ work' = [k \in Keys |-> Idle]
    /\ seen' = obj
    /\ queue' = Keys
    /\ UNCHANGED <<obj, manager, world, lost, counters>>

Sync(k) ==
    \/ StartSync(k) \/ StartSyncFails(k)
    \/ CallManager(k) \/ CallManagerLost(k)
    \/ PatchObject(k) \/ PatchObjectFails(k)
    \/ updateStatus(k) \/ updateStatusFails(k)

---------------------------------------------------------------------------
(* Users, and the parts of the operator that own the two objects.           *)

Edit == edits < MaxEdits /\ edits' = edits + 1

CreateObject(k) ==
    /\ Edit
    /\ ~Exists(obj[k])
    /\ uid' = uid + 1
    /\ obj' = [obj EXCEPT ![k] = NewObject(uid + 1)]
    /\ UNCHANGED <<seen, queue, work, manager, world, lost, faults>>

DeleteObject(k) ==
    /\ Edit
    /\ Exists(obj[k])
    /\ ~obj[k].deleting
    /\ obj' = [obj EXCEPT ![k] = IF @.fin THEN [@ EXCEPT !.deleting = TRUE] ELSE Absent]
    /\ UNCHANGED <<seen, queue, work, manager, world, lost, uid, faults>>

EditTask ==
    /\ Edit
    /\ Exists(obj.task)
    /\ ~obj.task.deleting
    /\ obj' = [obj EXCEPT !.task.spec = @ + 1]
    /\ UNCHANGED <<seen, queue, work, manager, world, lost, uid, faults>>

(* The datacenter, its Secret and the namespace are read from caches too;   *)
(* nobody here writes to them, so the moment their event is delivered is    *)
(* taken for the moment they change.                                        *)
DatacenterChanges ==
    /\ \/ Edit /\ dc' = [dc EXCEPT !.token = @ + 1]
       \/ ~dc.available /\ dc' = [dc EXCEPT !.available = TRUE] /\ UNCHANGED edits
    /\ queue' = queue \cup {"reg"}
    /\ UNCHANGED <<obj, seen, work, manager, namespace, adopt, lost, uid, faults>>

---------------------------------------------------------------------------
(* The Manager is changed by others, or goes with its namespace.            *)

OthersDeleteTask ==
    /\ Fault
    /\ tasks # {}
    /\ tasks' = {}
    /\ lost' = lost \cup Missing(tasks)
    /\ UNCHANGED <<obj, seen, queue, work, cluster, nextID, world, uid, edits>>

OthersDeleteCluster ==
    /\ Fault
    /\ cluster # NoCluster
    /\ cluster' = NoCluster
    /\ tasks' = {}
    /\ lost' = lost \cup Missing(tasks) \cup Owners({cluster})
    /\ UNCHANGED <<obj, seen, queue, work, nextID, world, uid, edits>>

ManagerUninstalled ==
    /\ Fault
    /\ namespace
    /\ namespace' = FALSE
    /\ cluster' = NoCluster
    /\ tasks' = {}
    /\ queue' = queue \cup {"reg"}
    /\ UNCHANGED <<obj, seen, work, nextID, dc, adopt, lost, uid, edits>>

Environment ==
    \/ \E k \in Keys : CreateObject(k) \/ DeleteObject(k)
    \/ EditTask
    \/ DatacenterChanges
    \/ OthersDeleteTask
    \/ OthersDeleteCluster
    \/ ManagerUninstalled

Next ==
    \/ \E k \in Keys : Sync(k) \/ Deliver(k)
    \/ Restart
    \/ Environment

Spec == Init /\ [][Next]_vars

Fairness == \A k \in Keys : WF_vars(Sync(k)) /\ WF_vars(Deliver(k))

FairSpec == Spec /\ Fairness

---------------------------------------------------------------------------

Objects ==
    {Absent} \cup [uid : 1..(2 + MaxEdits), deleting : BOOLEAN, fin : BOOLEAN, id : 0..nextID - 1,
                   cond : BOOLEAN \X STRING, spec : 1..(1 + MaxEdits), ann : Nat \X Nat]

(* The objects and the Manager's records are well formed, an object being   *)
(* deleted still has its finalizer, and the Manager never has two tasks of  *)
(* the name nor a task without its cluster.                                 *)
TypeOK ==
    /\ \A k \in Keys : obj[k] \in Objects /\ seen[k] \in Objects
    /\ \A k \in Keys : Exists(obj[k]) /\ obj[k].deleting => obj[k].fin
    /\ queue \subseteq Keys
    /\ \A t \in tasks : t.id < nextID /\ cluster # NoCluster
    /\ Cardinality(tasks) <= 1

(* What the finalizer of the registration is for: the Manager has no        *)
(* cluster of a registration that is gone, whatever calls failed and        *)
(* whatever the status remembered.                                          *)
NoStrayCluster == \A u \in Owners({c \in {cluster} : c # NoCluster}) : obj.reg.uid = u

(* What the finalizer of the task is for: the Manager has no task of a      *)
(* ScyllaDBManagerTask that is gone.                                        *)
NoStrayTask == \A u \in Owners(tasks) : obj.task.uid = u

(* The same for objects whose task was never removed from the Manager other *)
(* than by their finalizer, by others or with its cluster: only a removed   *)
(* task makes the id in the status a wrong one, by which the next task is   *)
(* looked for and not found.                                                *)
NoStrayTaskUnlessRemoved == \A u \in Owners(tasks) : obj.task.uid = u \/ u \in lost

(* Nobody's task is taken over: a task changes its owner only when it had   *)
(* none and the annotation asks for it.                                     *)
AdoptedOnRequest ==
    [][\A t \in tasks, n \in tasks' : t.id = n.id /\ t.owner # n.owner => t.owner = NoOwner /\ adopt]_vars

Registered ==
    /\ cluster # NoCluster
    /\ cluster.id = obj.reg.id
    /\ [owner |-> cluster.owner, hash |-> cluster.hash] = requiredCluster(obj.reg)

Scheduled == \E t \in tasks : t.id = obj.task.id /\ t.owner = obj.task.uid /\ t.hash = obj.task.spec

RegistrationSettled ==
    IF Exists(obj.reg) /\ ~obj.reg.deleting
    THEN dc.available /\ obj.reg.uid \notin lost => Registered
    ELSE ~Exists(obj.reg)

TaskSettled ==
    IF Exists(obj.task) /\ ~obj.task.deleting
    THEN Exists(obj.reg) /\ dc.available /\ lost = {} => Scheduled
    ELSE (Exists(obj.reg) /\ (obj.reg.id = 0 \/ obj.reg.uid \in lost)) \/ ~Exists(obj.task)

(* With the Manager there, registrations and tasks are in the end what      *)
(* their specs say, with the ids in their statuses, and deleted ones are    *)
(* gone: whatever one call, sync or restart went wrong.  A task that waits  *)
(* for the id of a registration whose datacenter is never available, and    *)
(* what others removed from the Manager, are left out.                      *)
EventuallySettled == <>[](namespace => RegistrationSettled /\ TaskSettled)
=============================================================================
