--------------------------- MODULE ManagerSyncProofs ---------------------------
(***************************************************************************)
(* Theorems about ManagerSync, for any number of edits and faults.          *)
(*                                                                          *)
(* The facts of the invariant are stated of values: an object o, its copy s *)
(* in the cache, the sync w of its controller.  What a step does to them is *)
(* then a lemma without primes.                                             *)
(***************************************************************************)
EXTENDS ManagerSync, TLAPS

-----------------------------------------------------------------------------
(* Types. *)

\* What a condition may say.
Texts == {"none", "awaiting", "created", "collided", "updated", "deleted", "awaiting registration",
          "cannot adopt", "cannot get", "addFinalizer", "removeFinalizer", "annotate", "createCluster",
          "updateCluster", "deleteCluster", "createTask", "updateTask", "deleteTask"}
Conds == BOOLEAN \X Texts
Anns == Nat \X Nat

Live == [uid : Nat \ {0}, deleting : BOOLEAN, fin : BOOLEAN, id : Nat,
         cond : Conds, spec : Nat, ann : Anns]
Objs == {Absent} \cup Live

\* What the Manager holds.
Records == [id : Nat \ {0}, owner : Int, hash : Nat]
Founds == Records \cup [id : Nat]

RegOps == {<<>>, <<"addFinalizer">>, <<"removeFinalizer">>,
           <<"createCluster">>, <<"updateCluster">>, <<"deleteCluster">>}
TaskOps == {<<>>, <<"addFinalizer">>, <<"removeFinalizer">>, <<"createTask">>, <<"updateTask">>,
            <<"deleteTask">>, <<"annotate">>, <<"annotate", "updateTask">>}

Plans(ops) == [view : Live, ops : ops, new : [id : Nat, cond : Conds],
               found : Founds, retry : BOOLEAN]

Types ==
  /\ obj \in [Keys -> Objs] /\ seen \in [Keys -> Objs]
  /\ work \in [Keys -> {Idle} \cup Plans(RegOps) \cup Plans(TaskOps)]
  /\ work["reg"] \in {Idle} \cup Plans(RegOps) /\ work["task"] \in {Idle} \cup Plans(TaskOps)
  /\ cluster \in {NoCluster} \cup Records /\ tasks \subseteq Records
  /\ nextID \in Nat \ {0} /\ uid \in Nat
  /\ dc \in [available : BOOLEAN, token : Nat]
  /\ namespace \in BOOLEAN /\ adopt \in BOOLEAN

-----------------------------------------------------------------------------
(* The inductive invariant. *)

\* What a cache and a sync know of an object and of its finalizer.  n is the last
\* uid given.
Life(o, s, w, n) ==
  /\ o.uid <= n /\ s.uid <= n
  /\ Exists(s) /\ s.fin /\ ~s.deleting => o.uid = s.uid /\ o.fin
  /\ Exists(o) /\ o.fin => s.uid = o.uid
  /\ Exists(o) /\ s.uid = o.uid => (s.deleting => o.deleting) /\ (s.fin => o.fin)
  /\ w # Idle =>
       /\ w.view.uid <= n
       /\ w.view.fin /\ ~w.view.deleting => o.uid = w.view.uid /\ o.fin
       /\ w.view.deleting /\ s.uid = w.view.uid => s.deleting
       /\ w.view.uid = o.uid => s.uid = o.uid /\ (w.view.deleting => o.deleting)
       /\ Exists(o) /\ o.fin => w.view.uid = o.uid

\* Which views lead to which calls.
Calls(w) ==
  /\ w.ops = <<"addFinalizer">> => ~w.view.fin
  /\ w.ops = <<"removeFinalizer">> => w.view.deleting
  /\ w.ops \in {<<"createCluster">>, <<"updateCluster">>, <<"createTask">>, <<"updateTask">>,
                <<"annotate">>, <<"annotate", "updateTask">>} => w.view.fin /\ ~w.view.deleting
  /\ w.ops = <<"createTask">> => w.found.id # 0
  /\ w.ops \in {<<"updateCluster">>, <<"annotate">>, <<"annotate", "updateTask">>} => w.found \in Records

Real(owner) == owner \notin {NoOwner, OtherOwner}

\* The Manager's cluster c is there only while its registration is kept by the finalizer.
RegFacts(o, w, c) ==
  /\ c # NoCluster => Exists(o) /\ o.fin /\ (Real(c.owner) => c.owner = o.uid)
  /\ w # Idle /\ w.ops = <<"removeFinalizer">> => c = NoCluster

\* The ids that object, cache and sync hold of the task.
KnownIDs(o, s, w) == {o.id, s.id} \cup IF w = Idle THEN {} ELSE {w.view.id, w.new.id}

\* The finalizer of the task is not at work.
Serving(s, w) == ~s.deleting \/ (w # Idle /\ ~w.view.deleting)

\* A task that the object may have as its own.
Suits(t, o, ad) == t.owner = o.uid \/ (t.owner = NoOwner /\ ad)

TaskFacts(o, s, w, ts, l, ns, ad) ==
  /\ \A t, x \in ts : t = x
  /\ ~ns => ts = {}
  /\ Exists(o) /\ ~o.fin => o.id = 0
  /\ Exists(s) /\ ~s.fin => s.id = 0
  /\ w # Idle /\ ~w.view.fin => w.view.id = 0 /\ w.new.id = 0
  /\ \A t \in ts : Real(t.owner) /\ t.owner \notin l =>
       /\ Exists(o) /\ o.fin /\ t.owner = o.uid
       /\ \A i \in KnownIDs(o, s, w) : i \in {0, t.id}
       /\ ~(w # Idle /\ w.ops = <<"removeFinalizer">>)
  /\ Exists(o) /\ o.fin /\ o.uid \notin l /\ ns /\ Serving(s, w) =>
       \A i \in KnownIDs(o, s, w) : i # 0 => \E t \in ts : t.id = i /\ Suits(t, o, ad)
  /\ w # Idle =>
       /\ w.ops \in {<<"updateTask">>, <<"annotate", "updateTask">>} =>
            \A t \in ts : t.id = w.found.id => t.owner = w.view.uid \/ (t.owner = NoOwner /\ ad)
       /\ w.ops = <<"deleteTask">> /\ ~w.view.deleting =>
            ~ad /\ \A t \in ts : t.id = w.found.id => t.owner = NoOwner

ManagerFacts ==
  /\ ~namespace => cluster = NoCluster
  /\ tasks # {} => cluster # NoCluster
  /\ \A t \in tasks : t.id < nextID

IInv ==
  /\ Types
  /\ \A k \in Keys : Life(obj[k], seen[k], work[k], uid)
  /\ \A k \in Keys : work[k] # Idle => Calls(work[k])
  /\ RegFacts(obj["reg"], work["reg"], cluster)
  /\ TaskFacts(obj["task"], seen["task"], work["task"], tasks, lost, namespace, adopt)
  /\ ManagerFacts

-----------------------------------------------------------------------------
(* Lemmas about values. *)

LEMMA OpsApart ==
  /\ <<"addFinalizer">> # <<>> /\ <<"removeFinalizer">> # <<>> /\ <<"createCluster">> # <<>>
  /\ <<"updateCluster">> # <<>> /\ <<"deleteCluster">> # <<>> /\ <<"createTask">> # <<>>
  /\ <<"updateTask">> # <<>> /\ <<"deleteTask">> # <<>> /\ <<"annotate">> # <<>>
  /\ <<"annotate", "updateTask">> # <<>>
OBVIOUS

\* The first of the calls, and those that are left.
LEMMA HeadTail ==
  ASSUME NEW ops \in RegOps \cup TaskOps, ops # <<>>
  PROVE /\ Head(ops) = "addFinalizer" <=> ops = <<"addFinalizer">>
        /\ Head(ops) = "removeFinalizer" <=> ops = <<"removeFinalizer">>
        /\ Head(ops) = "createCluster" <=> ops = <<"createCluster">>
        /\ Head(ops) = "updateCluster" <=> ops = <<"updateCluster">>
        /\ Head(ops) = "deleteCluster" <=> ops = <<"deleteCluster">>
        /\ Head(ops) = "createTask" <=> ops = <<"createTask">>
        /\ Head(ops) = "updateTask" <=> ops = <<"updateTask">>
        /\ Head(ops) = "deleteTask" <=> ops = <<"deleteTask">>
        /\ Head(ops) = "annotate" <=> ops \in {<<"annotate">>, <<"annotate", "updateTask">>}
        /\ ops = <<"annotate", "updateTask">> => Tail(ops) = <<"updateTask">>
        /\ ops # <<"annotate", "updateTask">> => Tail(ops) = <<>>
<1>1. CASE ops = <<"addFinalizer">>
  BY <1>1
<1>2. CASE ops = <<"removeFinalizer">>
  BY <1>2
<1>3. CASE ops = <<"createCluster">>
  BY <1>3
<1>4. CASE ops = <<"updateCluster">>
  BY <1>4
<1>5. CASE ops = <<"deleteCluster">>
  BY <1>5
<1>6. CASE ops = <<"createTask">>
  BY <1>6
<1>7. CASE ops = <<"updateTask">>
  BY <1>7
<1>8. CASE ops = <<"deleteTask">>
  BY <1>8
<1>9. CASE ops = <<"annotate">>
  BY <1>9
<1>10. CASE ops = <<"annotate", "updateTask">>
  BY <1>10
<1> QED
  BY <1>1, <1>2, <1>3, <1>4, <1>5, <1>6, <1>7, <1>8, <1>9, <1>10 DEF RegOps, TaskOps

LEMMA CondsFacts ==
  ASSUME NEW d \in BOOLEAN, NEW text \in Texts
  PROVE <<d, text>> \in Conds
BY DEF Conds

LEMMA LiveFacts ==
  ASSUME NEW x \in Objs
  PROVE /\ x.uid \in Nat /\ (Exists(x) <=> x \in Live)
        /\ Exists(x) => x.deleting \in BOOLEAN /\ x.fin \in BOOLEAN /\ x.id \in Nat
BY DEF Objs, Live, Exists, Absent

\* The cache is brought up to date.
LEMMA LifeSeen ==
  ASSUME NEW o \in Objs, NEW s \in Objs, NEW w, NEW n \in Nat, Life(o, s, w, n)
  PROVE Life(o, o, w, n)
BY DEF Life

\* The sync ends.
LEMMA LifeEnd ==
  ASSUME NEW o \in Objs, NEW s \in Objs, NEW w, NEW n \in Nat, Life(o, s, w, n)
  PROVE Life(o, s, Idle, n)
BY DEF Life

\* The sync goes on with the same view.
LEMMA LifeWork ==
  ASSUME NEW o \in Objs, NEW s \in Objs, NEW w, NEW p, NEW n \in Nat, Life(o, s, w, n),
         w # Idle, p.view = w.view
  PROVE Life(o, s, p, n)
BY DEF Life

\* A sync begins.
LEMMA LifeStart ==
  ASSUME NEW o \in Objs, NEW s \in Live, NEW w, NEW p, NEW n \in Nat, Life(o, s, w, n), p.view = s
  PROVE Life(o, s, p, n)
BY LiveFacts DEF Life, Live, Objs, Exists

\* The object changes, but not what the life of an object is about.
LEMMA LifeField ==
  ASSUME NEW o \in Live, NEW x \in Live, NEW s \in Objs, NEW w, NEW n \in Nat, Life(o, s, w, n),
         x.uid = o.uid, x.fin = o.fin, o.deleting => x.deleting
  PROVE Life(x, s, w, n)
BY DEF Life, Live, Exists

\* The object gets its finalizer.
LEMMA LifeFinalizer ==
  ASSUME NEW o \in Live, NEW x \in Live, NEW s \in Objs, NEW w, NEW n \in Nat, Life(o, s, w, n),
         w # Idle, w.view = o, x.uid = o.uid, x.deleting = o.deleting, x.fin = TRUE
  PROVE Life(x, s, w, n)
BY DEF Life, Live, Exists

\* The object goes: it had no finalizer, or a sync that saw it being deleted removes it.
LEMMA LifeGone ==
  ASSUME NEW o \in Live, NEW s \in Objs, NEW w, NEW n \in Nat, Life(o, s, w, n),
         w # Idle => w.view \in Live,
         o.fin => w # Idle /\ w.view = o /\ o.deleting
  PROVE Life(Absent, s, w, n)
BY LiveFacts DEF Life, Live, Objs, Exists, Absent

LEMMA NewIs ==
  ASSUME NEW n \in Nat
  PROVE /\ NewObject(n + 1) \in Live /\ NewObject(n + 1).uid = n + 1 /\ NewObject(n + 1).fin = FALSE
        /\ NewObject(n + 1).id = 0
<1> DEFINE c == <<FALSE, "none">>
<1> DEFINE a == <<0, 0>>
<1>1. c \in Conds
  <2>1. "none" \in Texts /\ FALSE \in BOOLEAN
    BY DEF Texts
  <2> QED
    BY <2>1, CondsFacts
<1>2. a \in Anns
  BY DEF Anns
<1>3. NewObject(n + 1) = [uid |-> n + 1, deleting |-> FALSE, fin |-> FALSE, id |-> 0, cond |-> c,
                          spec |-> 1, ann |-> a]
  BY DEF NewObject
<1> HIDE DEF c, a
<1>4. n + 1 \in Nat \ {0}
  OBVIOUS
<1>5. NewObject(n + 1) \in Live
  <2>1. [uid |-> n + 1, deleting |-> FALSE, fin |-> FALSE, id |-> 0, cond |-> c, spec |-> 1, ann |-> a]
          \in Live
    BY <1>1, <1>2, <1>4 DEF Live
  <2> QED
    BY <2>1, <1>3, Zenon
<1>6. NewObject(n + 1).uid = n + 1
  BY <1>3
<1>7. NewObject(n + 1).fin = FALSE
  BY <1>3
<1>8. NewObject(n + 1).id = 0
  BY <1>3
<1> QED
  BY <1>5, <1>6, <1>7, <1>8

\* An object is created.
LEMMA LifeNew ==
  ASSUME NEW s \in Objs, NEW w, NEW n \in Nat, Life(Absent, s, w, n), w # Idle => w.view \in Live
  PROVE Life(NewObject(n + 1), s, w, n + 1)
<1>1. /\ NewObject(n + 1) \in Live /\ NewObject(n + 1).uid = n + 1 /\ NewObject(n + 1).fin = FALSE
      /\ NewObject(n + 1).id = 0
  BY NewIs
<1>2. s.uid \in Nat /\ (w # Idle => w.view.uid \in Nat)
  BY LiveFacts DEF Live
<1>3. Absent.uid = 0
  BY DEF Absent
<1>4. /\ ~(Exists(s) /\ s.fin /\ ~s.deleting)
      /\ w # Idle => ~(w.view.fin /\ ~w.view.deleting)
  BY <1>2, <1>3 DEF Life, Exists, Live
<1>5. s.uid <= n /\ (w # Idle => w.view.uid <= n)
  BY DEF Life
<1>6. s.uid <= n + 1 /\ s.uid # n + 1 /\ (w # Idle => w.view.uid <= n + 1 /\ w.view.uid # n + 1)
  BY <1>2, <1>5
<1>7. w # Idle /\ w.view.deleting /\ s.uid = w.view.uid => s.deleting
  BY DEF Life
<1> QED
  BY <1>1, <1>4, <1>6, <1>7 DEF Life

\* A uid is given out elsewhere.
LEMMA LifeBound ==
  ASSUME NEW o \in Objs, NEW s \in Objs, NEW w, NEW n \in Nat, Life(o, s, w, n),
         w # Idle => w.view \in Live
  PROVE Life(o, s, w, n + 1)
<1>1. o.uid \in Nat /\ s.uid \in Nat /\ (w # Idle => w.view.uid \in Nat)
  BY LiveFacts DEF Live
<1> QED
  BY <1>1 DEF Life

-----------------------------------------------------------------------------
(* What the steps do to what is known of the task. *)

LEMMA TaskSeen ==
  ASSUME NEW o \in Objs, NEW s \in Objs, NEW w, NEW n, NEW ts, NEW l, NEW ns \in BOOLEAN, NEW ad \in BOOLEAN,
         Life(o, s, w, n), TaskFacts(o, s, w, ts, l, ns, ad)
  PROVE TaskFacts(o, o, w, ts, l, ns, ad)
<1>1. Exists(o) /\ o.fin /\ Serving(o, w) => Serving(s, w)
  BY LiveFacts DEF Serving, Life
<1>2. KnownIDs(o, o, w) \subseteq KnownIDs(o, s, w)
  BY DEF KnownIDs
<1> QED
  BY <1>1, <1>2 DEF TaskFacts

LEMMA TaskEnd ==
  ASSUME NEW o, NEW s, NEW w, NEW ts, NEW l, NEW ns, NEW ad, TaskFacts(o, s, w, ts, l, ns, ad)
  PROVE TaskFacts(o, s, Idle, ts, l, ns, ad)
<1>1. Serving(s, Idle) => Serving(s, w)
  BY DEF Serving
<1>2. KnownIDs(o, s, Idle) \subseteq KnownIDs(o, s, w)
  BY DEF KnownIDs
<1> QED
  BY <1>1, <1>2 DEF TaskFacts

\* A sync goes on: with nothing left to call, or from the annotation to the update.
LEMMA TaskWork ==
  ASSUME NEW o, NEW s, NEW w, NEW p, NEW ts, NEW l, NEW ns, NEW ad, TaskFacts(o, s, w, ts, l, ns, ad),
         w # Idle, p.view = w.view, p.new.id = w.new.id,
         \/ p.ops = <<>>
         \/ w.ops = <<"annotate", "updateTask">> /\ p.ops = <<"updateTask">> /\ p.found = w.found
  PROVE TaskFacts(o, s, p, ts, l, ns, ad)
<1>1. Serving(s, p) => Serving(s, w)
  BY DEF Serving
<1>2. KnownIDs(o, s, p) \subseteq KnownIDs(o, s, w)
  BY DEF KnownIDs
<1>3. p.ops # <<"removeFinalizer">> /\ p.ops # <<"deleteTask">>
  <2>1. CASE p.ops = <<>>
    BY <2>1, OpsApart
  <2>2. CASE p.ops = <<"updateTask">>
    BY <2>2
  <2> QED
    BY <2>1, <2>2
<1>4. p.ops \in {<<"updateTask">>, <<"annotate", "updateTask">>} =>
        w.ops = <<"annotate", "updateTask">> /\ p.found = w.found
  OBVIOUS
<1> QED
  BY <1>1, <1>2, <1>3, <1>4 DEF TaskFacts

\* The Manager's tasks are all removed.
LEMMA TaskRemoved ==
  ASSUME NEW o, NEW s, NEW w, NEW ts, NEW l, NEW m, NEW ns \in BOOLEAN, NEW ns2 \in BOOLEAN, NEW ad,
         TaskFacts(o, s, w, ts, l, ns, ad), l \subseteq m,
         ns2 => ns /\ (ts # {} /\ Exists(o) => o.uid \in m)
  PROVE TaskFacts(o, s, w, {}, m, ns2, ad)
BY DEF TaskFacts

\* Nothing of the object changes that matters here.
LEMMA TaskField ==
  ASSUME NEW o, NEW x, NEW s, NEW w, NEW ts, NEW l, NEW ns, NEW ad, TaskFacts(o, s, w, ts, l, ns, ad),
         x.uid = o.uid, x.fin = o.fin, x.id = o.id
  PROVE TaskFacts(x, s, w, ts, l, ns, ad)
<1>1. KnownIDs(x, s, w) = KnownIDs(o, s, w)
  BY DEF KnownIDs
<1> QED
  BY <1>1 DEF TaskFacts, Exists, Suits

\* The status is written.
LEMMA TaskStatus ==
  ASSUME NEW o, NEW x, NEW s, NEW w, NEW ts, NEW l, NEW ns, NEW ad, TaskFacts(o, s, w, ts, l, ns, ad),
         w # Idle, w.view = o, x.uid = o.uid, x.fin = o.fin, x.id = w.new.id
  PROVE TaskFacts(x, s, Idle, ts, l, ns, ad)
<1>1. KnownIDs(x, s, Idle) \subseteq KnownIDs(o, s, w)
  BY DEF KnownIDs
<1>2. Serving(s, Idle) => Serving(s, w)
  BY DEF Serving
<1> QED
  BY <1>1, <1>2 DEF TaskFacts, Exists, Suits

\* The finalizer is added.
LEMMA TaskFinalizer ==
  ASSUME NEW o \in Live, NEW x \in Live, NEW s \in Objs, NEW w, NEW n, NEW ts, NEW l, NEW ns, NEW ad,
         Life(o, s, w, n), TaskFacts(o, s, w, ts, l, ns, ad),
         w # Idle, w.view = o, ~o.fin, x.uid = o.uid, x.id = o.id
  PROVE TaskFacts(x, s, Idle, ts, l, ns, ad)
<1>1. Exists(o) /\ o.id = 0
  BY DEF TaskFacts, Exists, Live
<1>2. Exists(s) /\ s.id = 0
  BY <1>1, LiveFacts DEF Life, TaskFacts, Exists
<1>3. \A i \in KnownIDs(x, s, Idle) : i = 0
  BY <1>1, <1>2 DEF KnownIDs
<1>4. \A t \in ts : ~(Real(t.owner) /\ t.owner \notin l)
  BY DEF TaskFacts
<1> QED
  BY <1>1, <1>2, <1>3, <1>4 DEF TaskFacts

\* The object goes.
LEMMA TaskGone ==
  ASSUME NEW o \in Live, NEW s, NEW w, NEW p, NEW ts, NEW l, NEW ns, NEW ad, TaskFacts(o, s, w, ts, l, ns, ad),
         o.fin => w # Idle /\ w.ops = <<"removeFinalizer">>,
         p = w \/ (w # Idle /\ p.view = w.view /\ p.new.id = w.new.id /\ p.ops = <<>>)
  PROVE TaskFacts(Absent, s, p, ts, l, ns, ad)
<1>1. \A t \in ts : ~(Real(t.owner) /\ t.owner \notin l)
  BY DEF TaskFacts
<1>2. ~Exists(Absent)
  BY DEF Exists, Absent
<1>3. p # w => p.ops \notin {<<"updateTask">>, <<"annotate", "updateTask">>, <<"deleteTask">>}
  BY OpsApart
<1> QED
  BY <1>1, <1>2, <1>3 DEF TaskFacts

\* An object is created.
LEMMA TaskNew ==
  ASSUME NEW n \in Nat, NEW s, NEW w, NEW ts, NEW l, NEW ns, NEW ad, TaskFacts(Absent, s, w, ts, l, ns, ad)
  PROVE TaskFacts(NewObject(n + 1), s, w, ts, l, ns, ad)
<1>1. ~Exists(Absent)
  BY DEF Exists, Absent
<1>2. \A t \in ts : ~(Real(t.owner) /\ t.owner \notin l)
  BY <1>1 DEF TaskFacts
<1>3. NewObject(n + 1).fin = FALSE /\ NewObject(n + 1).id = 0
  BY NewIs
<1> QED
  BY <1>2, <1>3 DEF TaskFacts


\* What is left of a sync after a call: nothing, or the report in the status.
Reports(w, p) == p = Idle \/ (p.view = w.view /\ p.ops = <<>>)

LEMMA ReportsFacts ==
  ASSUME NEW o, NEW s, NEW w, NEW p, w # Idle, Reports(w, p)
  PROVE /\ p.ops \notin {<<"removeFinalizer">>, <<"updateTask">>, <<"annotate", "updateTask">>, <<"deleteTask">>}
           \/ p = Idle
        /\ Serving(s, p) => Serving(s, w)
        /\ KnownIDs(o, s, p) \subseteq KnownIDs(o, s, w) \cup (IF p = Idle THEN {} ELSE {p.new.id})
<1>1. p # Idle => p.view = w.view /\ p.ops = <<>>
  BY DEF Reports
<1>2. Serving(s, p) => Serving(s, w)
  BY <1>1 DEF Serving
<1>3. KnownIDs(o, s, p) \subseteq KnownIDs(o, s, w) \cup (IF p = Idle THEN {} ELSE {p.new.id})
  BY <1>1 DEF KnownIDs
<1>4. p.ops \notin {<<"removeFinalizer">>, <<"updateTask">>, <<"annotate", "updateTask">>, <<"deleteTask">>}
        \/ p = Idle
  BY <1>1, OpsApart
<1> QED
  BY <1>2, <1>3, <1>4

\* The task is created.
LEMMA TaskCreate ==
  ASSUME NEW o \in Objs, NEW s \in Objs, NEW w, NEW p, NEW n, NEW l, NEW ns, NEW ad, NEW t,
         Life(o, s, w, n), TaskFacts(o, s, w, {}, l, ns, ad), ns = TRUE,
         w # Idle, w.view \in Live, w.view.fin, ~w.view.deleting,
         Reports(w, p), p # Idle => p.new.id \in {t.id, w.new.id}, t.owner = w.view.uid
  PROVE TaskFacts(o, s, p, {t}, l, ns, ad)
<1>0. /\ p.ops \notin {<<"removeFinalizer">>, <<"updateTask">>, <<"annotate", "updateTask">>, <<"deleteTask">>}
         \/ p = Idle
      /\ Serving(s, p) => Serving(s, w)
      /\ KnownIDs(o, s, p) \subseteq KnownIDs(o, s, w) \cup (IF p = Idle THEN {} ELSE {p.new.id})
  BY ReportsFacts
<1>1. o.uid = w.view.uid /\ o.fin /\ Exists(o)
  BY DEF Life, Live, Exists
<1>2. Serving(s, w)
  BY DEF Serving
<1>3. o.uid \notin l => \A i \in KnownIDs(o, s, w) : i = 0
  BY <1>1, <1>2 DEF TaskFacts
<1>3a. w.new.id \in KnownIDs(o, s, w)
  BY DEF KnownIDs
<1>4. o.uid \notin l => \A i \in KnownIDs(o, s, p) : i \in {0, t.id}
  BY <1>0, <1>3, <1>3a
<1>5. Suits(t, o, ad)
  BY <1>1 DEF Suits
<1>6. p # Idle => p.view = w.view
  BY DEF Reports
<1> QED
  BY <1>1, <1>4, <1>5, <1>6, <1>0 DEF TaskFacts

\* The task is updated.
LEMMA TaskUpdate ==
  ASSUME NEW o \in Objs, NEW s \in Objs, NEW w, NEW p, NEW n, NEW ts, NEW l, NEW ns, NEW ad, NEW t \in ts, NEW x,
         Life(o, s, w, n), TaskFacts(o, s, w, ts, l, ns, ad),
         w # Idle, w.view \in Live, w.view.fin, ~w.view.deleting,
         Reports(w, p), p # Idle => p.new.id = w.new.id, x.id = t.id, x.owner = w.view.uid
  PROVE TaskFacts(o, s, p, {x}, l, ns, ad)
<1>0. /\ p.ops \notin {<<"removeFinalizer">>, <<"updateTask">>, <<"annotate", "updateTask">>, <<"deleteTask">>}
         \/ p = Idle
      /\ Serving(s, p) => Serving(s, w)
      /\ KnownIDs(o, s, p) \subseteq KnownIDs(o, s, w) \cup (IF p = Idle THEN {} ELSE {p.new.id})
  BY ReportsFacts
<1>1. o.uid = w.view.uid /\ o.fin /\ Exists(o)
  BY DEF Life, Live, Exists
<1>2. Serving(s, w)
  BY DEF Serving
<1>3. \A y \in ts : y = t
  BY DEF TaskFacts
<1>4. KnownIDs(o, s, p) \subseteq KnownIDs(o, s, w)
  BY <1>0 DEF KnownIDs
<1>5. ns
  BY DEF TaskFacts
<1>6. o.uid \notin l => \A i \in KnownIDs(o, s, p) : i \in {0, x.id}
  BY <1>1, <1>2, <1>3, <1>4, <1>5 DEF TaskFacts
<1>7. Suits(x, o, ad)
  BY <1>1 DEF Suits
<1>8. p # Idle => p.view = w.view
  BY DEF Reports
<1> QED
  BY <1>1, <1>5, <1>6, <1>7, <1>8, <1>0 DEF TaskFacts

\* The task is deleted: by the finalizer, or because it is in the way.
LEMMA TaskDelete ==
  ASSUME NEW o \in Objs, NEW s \in Objs, NEW w, NEW p, NEW n, NEW ts, NEW l, NEW ns, NEW ad, NEW t \in ts,
         Life(o, s, w, n), TaskFacts(o, s, w, ts, l, ns, ad),
         w # Idle, w.view \in Live, w.ops = <<"deleteTask">>, t.id = w.found.id,
         Reports(w, p), p # Idle => p.new.id = w.new.id
  PROVE TaskFacts(o, s, p, {y \in ts : y.id # w.found.id}, l, ns, ad)
<1>0. /\ p.ops \notin {<<"removeFinalizer">>, <<"updateTask">>, <<"annotate", "updateTask">>, <<"deleteTask">>}
         \/ p = Idle
      /\ Serving(s, p) => Serving(s, w)
      /\ KnownIDs(o, s, p) \subseteq KnownIDs(o, s, w) \cup (IF p = Idle THEN {} ELSE {p.new.id})
  BY ReportsFacts
<1>1. {y \in ts : y.id # w.found.id} = {}
  BY DEF TaskFacts
<1>2. KnownIDs(o, s, p) \subseteq KnownIDs(o, s, w)
  BY <1>0 DEF KnownIDs
<1>3. p # Idle => p.view = w.view
  BY DEF Reports
<1>4. CASE w.view.deleting
  <2>1. Exists(o) /\ o.fin => s.deleting
    BY <1>4, LiveFacts DEF Life
  <2>2. ~(Exists(o) /\ o.fin /\ Serving(s, p))
    BY <2>1, <1>3, <1>4 DEF Serving
  <2> QED
    BY <1>1, <1>3, <2>2, <1>0 DEF TaskFacts
<1>5. CASE ~w.view.deleting
  <2>1. \A y \in ts : y.owner = NoOwner /\ ~ad
    BY <1>5 DEF TaskFacts
  <2>2. Exists(o) => \A y \in ts : ~Suits(y, o, ad)
    BY <2>1 DEF Suits, Exists, NoOwner
  <2>3. Exists(o) /\ o.fin /\ o.uid \notin l /\ ns /\ Serving(s, p) => \A i \in KnownIDs(o, s, p) : i = 0
    BY <2>2, <1>2, <1>0 DEF TaskFacts
  <2> QED
    BY <1>1, <1>3, <2>3, <1>0 DEF TaskFacts
<1> QED
  BY <1>4, <1>5

\* A sync begins.
LEMMA TaskStart ==
  ASSUME NEW o \in Objs, NEW s \in Live, NEW p, NEW n, NEW ts, NEW l, NEW ns, NEW ad,
         Life(o, s, Idle, n), TaskFacts(o, s, Idle, ts, l, ns, ad), p.view = s,
         \/ p.new.id = s.id
         \/ s.fin /\ ~s.deleting /\ \E t \in ts : p.new.id = t.id /\ (t.owner = s.uid \/ (t.owner = NoOwner /\ ad)),
         p.ops = <<"removeFinalizer">> => \A t \in ts : s.id \notin {0, t.id},
         p.ops \in {<<"updateTask">>, <<"annotate", "updateTask">>} =>
            \A t \in ts : t.id = p.found.id => t.owner = s.uid \/ (t.owner = NoOwner /\ ad),
         p.ops = <<"deleteTask">> /\ ~s.deleting =>
            ~ad /\ \A t \in ts : t.id = p.found.id => t.owner = NoOwner
  PROVE TaskFacts(o, s, p, ts, l, ns, ad)
<1>1. Exists(s)
  BY DEF Live, Exists
<1>2. Serving(s, p) => Serving(s, Idle)
  BY DEF Serving
<1>3. KnownIDs(o, s, p) = KnownIDs(o, s, Idle) \cup (IF p = Idle THEN {} ELSE {s.id, p.new.id})
  BY DEF KnownIDs
<1>4. s.id \in KnownIDs(o, s, Idle)
  BY DEF KnownIDs
<1>5. p.new.id # s.id => \E t \in ts : p.new.id = t.id /\ Suits(t, o, ad)
  BY <1>1 DEF Life, Suits
<1>6. ~s.fin => s.id = 0 /\ p.new.id = 0
  BY <1>1 DEF TaskFacts
<1>7. \A t, x \in ts : t = x
  BY DEF TaskFacts
<1>8. \A t \in ts : Real(t.owner) /\ t.owner \notin l =>
       /\ Exists(o) /\ o.fin /\ t.owner = o.uid
       /\ \A i \in KnownIDs(o, s, Idle) : i \in {0, t.id}
  BY DEF TaskFacts
<1>9. \A t \in ts : Real(t.owner) /\ t.owner \notin l =>
       /\ \A i \in KnownIDs(o, s, p) : i \in {0, t.id}
       /\ ~(p.ops = <<"removeFinalizer">>)
  BY <1>3, <1>4, <1>5, <1>7, <1>8
<1>10. Exists(o) /\ o.fin /\ o.uid \notin l /\ ns /\ Serving(s, Idle) =>
         \A i \in KnownIDs(o, s, Idle) : i # 0 => \E t \in ts : t.id = i /\ Suits(t, o, ad)
  BY DEF TaskFacts
<1>11. Exists(o) /\ o.fin /\ o.uid \notin l /\ ns /\ Serving(s, p) =>
         \A i \in KnownIDs(o, s, p) : i # 0 => \E t \in ts : t.id = i /\ Suits(t, o, ad)
  BY <1>2, <1>3, <1>4, <1>5, <1>10
<1>12. /\ ~ns => ts = {}
       /\ Exists(o) /\ ~o.fin => o.id = 0
       /\ Exists(s) /\ ~s.fin => s.id = 0
  BY DEF TaskFacts
<1> QED
  BY <1>6, <1>7, <1>8, <1>9, <1>11, <1>12 DEF TaskFacts

-----------------------------------------------------------------------------
(* What a sync decides. *)

LEMMA PlanIs ==
  ASSUME NEW v \in Live, NEW S, NEW ops \in S, NEW id \in Nat, NEW text \in Texts, NEW found \in Founds
  PROVE /\ Plan(v, ops, id, text, found) \in Plans(S)
        /\ Plan(v, ops, id, text, found).view = v /\ Plan(v, ops, id, text, found).ops = ops
        /\ Plan(v, ops, id, text, found).new.id = id /\ Plan(v, ops, id, text, found).found = found
<1> DEFINE c == <<v.deleting, text>>
<1>1. v.deleting \in BOOLEAN
  BY DEF Live
<1>2. c \in Conds
  BY <1>1, CondsFacts
<1> DEFINE new == [id |-> id, cond |-> c]
<1>3. Plan(v, ops, id, text, found) = [view |-> v, ops |-> ops, new |-> new, found |-> found, retry |-> FALSE]
  BY DEF Plan
<1> HIDE DEF c
<1>4. new \in [id : Nat, cond : Conds] /\ new.id = id
  BY <1>2
<1> HIDE DEF new
<1>5. [view |-> v, ops |-> ops, new |-> new, found |-> found, retry |-> FALSE] \in Plans(S)
  BY <1>4 DEF Plans
<1>6. Plan(v, ops, id, text, found) \in Plans(S)
  BY <1>3, <1>5, Zenon
<1> QED
  BY <1>3, <1>4, <1>6

LEMMA FoundsFacts ==
  /\ NoTask \in Founds
  /\ \A n \in Nat : [id |-> n] \in Founds
  /\ Records \subseteq Founds
BY DEF NoTask, Founds

\* What the registration's controller decides on view v.
RegDecision(p, v) ==
  /\ p \in Plans(RegOps) /\ p.view = v /\ Calls(p)
  /\ p.ops = <<"removeFinalizer">> => cluster = NoCluster

LEMMA RegPlan ==
  ASSUME NEW v \in Live, NEW ops \in RegOps, NEW id \in Nat, NEW text \in Texts, NEW found \in Founds,
         ops = <<"addFinalizer">> => ~v.fin,
         ops = <<"removeFinalizer">> => v.deleting /\ cluster = NoCluster,
         ops \in {<<"createCluster">>, <<"updateCluster">>} => v.fin /\ ~v.deleting,
         ops = <<"updateCluster">> => found \in Records
  PROVE RegDecision(Plan(v, ops, id, text, found), v)
<1> DEFINE p == Plan(v, ops, id, text, found)
<1>1. p \in Plans(RegOps) /\ p.view = v /\ p.ops = ops /\ p.found = found
  BY PlanIs
<1> HIDE DEF p
<1>2. ops \notin {<<"createTask">>, <<"updateTask">>, <<"annotate">>, <<"annotate", "updateTask">>}
  BY OpsApart DEF RegOps
<1>3. Calls(p)
  BY <1>1, <1>2 DEF Calls
<1> QED
  BY <1>1, <1>3 DEF RegDecision, p

LEMMA TextsFacts ==
  /\ "none" \in Texts /\ "awaiting" \in Texts /\ "created" \in Texts /\ "collided" \in Texts
  /\ "updated" \in Texts /\ "deleted" \in Texts /\ "awaiting registration" \in Texts
  /\ "cannot adopt" \in Texts /\ "cannot get" \in Texts
BY DEF Texts

LEMMA OpsFacts ==
  /\ <<>> \in RegOps /\ <<"addFinalizer">> \in RegOps /\ <<"removeFinalizer">> \in RegOps
  /\ <<"createCluster">> \in RegOps /\ <<"updateCluster">> \in RegOps /\ <<"deleteCluster">> \in RegOps
  /\ <<>> \in TaskOps /\ <<"addFinalizer">> \in TaskOps /\ <<"removeFinalizer">> \in TaskOps
  /\ <<"createTask">> \in TaskOps /\ <<"updateTask">> \in TaskOps /\ <<"deleteTask">> \in TaskOps
  /\ <<"annotate">> \in TaskOps /\ <<"annotate", "updateTask">> \in TaskOps
BY DEF RegOps, TaskOps

LEMMA ClusterFacts ==
  ASSUME Types
  PROVE /\ cluster.id = 0 <=> cluster = NoCluster
        /\ cluster # NoCluster => cluster \in Records /\ cluster.id \in Nat
BY DEF Types, NoCluster, Records

LEMMA FinalizeRegistration ==
  ASSUME Types, ManagerFacts, NEW v \in Live, v.deleting
  PROVE RegDecision(finalizeRegistration(v), v)
<1>1. v.id \in Nat
  BY DEF Live
<1>2. CASE v.fin /\ namespace /\ getScyllaDBManagerCluster(v)
  <2>1. finalizeRegistration(v) = Plan(v, <<"deleteCluster">>, v.id, "deleted", cluster)
    BY <1>2 DEF finalizeRegistration
  <2>2. cluster \in Founds
    BY <1>2, ClusterFacts, FoundsFacts DEF getScyllaDBManagerCluster
  <2>3. RegDecision(Plan(v, <<"deleteCluster">>, v.id, "deleted", cluster), v)
    BY <1>1, <2>2, RegPlan, TextsFacts, OpsFacts
  <2> QED
    BY <2>1, <2>3, Zenon
<1>3. CASE ~(v.fin /\ namespace /\ getScyllaDBManagerCluster(v)) /\ v.fin
  <2>1. finalizeRegistration(v) = Plan(v, <<"removeFinalizer">>, v.id, "none", NoTask)
    BY <1>3 DEF finalizeRegistration
  <2>2. cluster = NoCluster
    BY <1>3, ClusterFacts DEF getScyllaDBManagerCluster, ManagerFacts
  <2>3. RegDecision(Plan(v, <<"removeFinalizer">>, v.id, "none", NoTask), v)
    BY <1>1, <2>2, RegPlan, TextsFacts, OpsFacts, FoundsFacts
  <2> QED
    BY <2>1, <2>3, Zenon
<1>4. CASE ~v.fin
  <2>1. finalizeRegistration(v) = Plan(v, <<>>, v.id, "none", NoTask)
    BY <1>4 DEF finalizeRegistration
  <2>2. RegDecision(Plan(v, <<>>, v.id, "none", NoTask), v)
    BY <1>1, RegPlan, TextsFacts, OpsFacts, FoundsFacts, OpsApart
  <2> QED
    BY <2>1, <2>2, Zenon
<1> QED
  BY <1>2, <1>3, <1>4

LEMMA SyncRegistration ==
  ASSUME Types, ManagerFacts, NEW v \in Live, v.fin, ~v.deleting
  PROVE RegDecision(syncRegistration(v), v)
<1>1. v.id \in Nat /\ dc.available \in BOOLEAN
  BY DEF Live, Types
<1>2. CASE ~dc.available
  <2>1. syncRegistration(v) = Plan(v, <<>>, v.id, "awaiting", NoTask)
    BY <1>1, <1>2 DEF syncRegistration
  <2>2. RegDecision(Plan(v, <<>>, v.id, "awaiting", NoTask), v)
    BY <1>1, RegPlan, TextsFacts, OpsFacts, FoundsFacts, OpsApart
  <2> QED
    BY <2>1, <2>2, Zenon
<1>3. CASE dc.available /\ ~getScyllaDBManagerCluster(v)
  <2>1. syncRegistration(v) = Plan(v, <<"createCluster">>, v.id, "created", NoTask)
    BY <1>3 DEF syncRegistration
  <2>2. RegDecision(Plan(v, <<"createCluster">>, v.id, "created", NoTask), v)
    BY <1>1, RegPlan, TextsFacts, OpsFacts, FoundsFacts
  <2> QED
    BY <2>1, <2>2, Zenon
<1>4. CASE dc.available /\ getScyllaDBManagerCluster(v)
  <2>1. cluster \in Records /\ cluster \in Founds /\ cluster.id \in Nat
    BY <1>4, ClusterFacts, FoundsFacts DEF getScyllaDBManagerCluster
  <2> DEFINE same == [owner |-> cluster.owner, hash |-> cluster.hash] = requiredCluster(v)
  <2>2. syncRegistration(v) =
             CASE cluster.owner = NoOwner -> Plan(v, <<"deleteCluster">>, v.id, "collided", cluster)
               [] same -> Plan(v, <<>>, cluster.id, "none", NoTask)
               [] OTHER -> Plan(v, <<"updateCluster">>, cluster.id, "updated", cluster)
    BY <1>4 DEF syncRegistration
  <2>3. ~(same /\ cluster.owner = NoOwner)
    BY DEF requiredCluster, NoOwner, Live
  <2> HIDE DEF same
  <2>4. CASE cluster.owner = NoOwner
    <3>1. syncRegistration(v) = Plan(v, <<"deleteCluster">>, v.id, "collided", cluster)
      BY <2>2, <2>3, <2>4
    <3>2. RegDecision(Plan(v, <<"deleteCluster">>, v.id, "collided", cluster), v)
      BY <1>1, <2>1, RegPlan, TextsFacts, OpsFacts
    <3> QED
      BY <3>1, <3>2, Zenon
  <2>5. CASE same
    <3>1. syncRegistration(v) = Plan(v, <<>>, cluster.id, "none", NoTask)
      BY <2>2, <2>3, <2>5
    <3>2. RegDecision(Plan(v, <<>>, cluster.id, "none", NoTask), v)
      BY <2>1, RegPlan, TextsFacts, OpsFacts, FoundsFacts, OpsApart
    <3> QED
      BY <3>1, <3>2, Zenon
  <2>6. CASE cluster.owner # NoOwner /\ ~same
    <3>1. syncRegistration(v) = Plan(v, <<"updateCluster">>, cluster.id, "updated", cluster)
      BY <2>2, <2>6
    <3>2. RegDecision(Plan(v, <<"updateCluster">>, cluster.id, "updated", cluster), v)
      BY <2>1, RegPlan, TextsFacts, OpsFacts
    <3> QED
      BY <3>1, <3>2, Zenon
  <2> QED
    BY <2>4, <2>5, <2>6
<1> QED
  BY <1>1, <1>2, <1>3, <1>4

LEMMA DecideRegistration ==
  ASSUME Types, ManagerFacts, seen["reg"] \in Live
  PROVE RegDecision(Decide("reg"), seen["reg"])
<1> DEFINE v == seen["reg"]
<1>1. v \in Live /\ v.fin \in BOOLEAN /\ v.deleting \in BOOLEAN /\ v.id \in Nat
  BY DEF Live
<1>2. Decide("reg") =
        CASE v.deleting -> finalizeRegistration(v)
          [] ~v.deleting /\ ~v.fin -> Plan(v, <<"addFinalizer">>, v.id, "none", NoTask)
          [] OTHER -> syncRegistration(v)
  BY DEF Decide
<1> HIDE DEF v
<1>3. CASE v.deleting
  <2>1. Decide("reg") = finalizeRegistration(v)
    BY <1>2, <1>3
  <2> QED
    BY <2>1, <1>1, <1>3, FinalizeRegistration DEF v
<1>4. CASE ~v.deleting /\ ~v.fin
  <2>1. Decide("reg") = Plan(v, <<"addFinalizer">>, v.id, "none", NoTask)
    BY <1>2, <1>4
  <2>2. RegDecision(Plan(v, <<"addFinalizer">>, v.id, "none", NoTask), v)
    BY <1>1, <1>4, RegPlan, TextsFacts, OpsFacts, FoundsFacts
  <2>3. RegDecision(Decide("reg"), v)
    BY <2>1, <2>2, Zenon
  <2> QED
    BY <2>3 DEF v
<1>5. CASE ~v.deleting /\ v.fin
  <2>1. Decide("reg") = syncRegistration(v)
    BY <1>2, <1>5
  <2> QED
    BY <2>1, <1>1, <1>5, SyncRegistration DEF v
<1> QED
  BY <1>1, <1>3, <1>4, <1>5

\* What the task's controller decides on view v.
TaskDecision(p, v) ==
  /\ p \in Plans(TaskOps) /\ p.view = v /\ Calls(p)
  /\ \/ p.new.id = v.id
     \/ /\ v.fin /\ ~v.deleting
        /\ \E t \in tasks : p.new.id = t.id /\ (t.owner = v.uid \/ (t.owner = NoOwner /\ adopt))
  /\ p.ops = <<"removeFinalizer">> => \A t \in tasks : v.id \notin {0, t.id}
  /\ p.ops \in {<<"updateTask">>, <<"annotate", "updateTask">>} =>
       \A t \in tasks : t.id = p.found.id => t.owner = v.uid \/ (t.owner = NoOwner /\ adopt)
  /\ p.ops = <<"deleteTask">> /\ ~v.deleting =>
       ~adopt /\ \A t \in tasks : t.id = p.found.id => t.owner = NoOwner

LEMMA TaskPlan ==
  ASSUME NEW v \in Live, NEW ops \in TaskOps, NEW id \in Nat, NEW text \in Texts, NEW found \in Founds,
         ops = <<"addFinalizer">> => ~v.fin,
         ops = <<"removeFinalizer">> => v.deleting /\ \A t \in tasks : v.id \notin {0, t.id},
         ops \in {<<"createTask">>, <<"updateTask">>, <<"annotate">>, <<"annotate", "updateTask">>} =>
           v.fin /\ ~v.deleting,
         ops = <<"createTask">> => found.id # 0,
         ops \in {<<"annotate">>, <<"annotate", "updateTask">>} => found \in Records,
         \/ id = v.id
         \/ /\ v.fin /\ ~v.deleting
            /\ \E t \in tasks : id = t.id /\ (t.owner = v.uid \/ (t.owner = NoOwner /\ adopt)),
         ops \in {<<"updateTask">>, <<"annotate", "updateTask">>} =>
           \A t \in tasks : t.id = found.id => t.owner = v.uid \/ (t.owner = NoOwner /\ adopt),
         ops = <<"deleteTask">> /\ ~v.deleting =>
           ~adopt /\ \A t \in tasks : t.id = found.id => t.owner = NoOwner
  PROVE TaskDecision(Plan(v, ops, id, text, found), v)
<1> DEFINE p == Plan(v, ops, id, text, found)
<1>1. p \in Plans(TaskOps) /\ p.view = v /\ p.ops = ops /\ p.found = found /\ p.new.id = id
  BY PlanIs
<1> HIDE DEF p
<1>2. ops \notin {<<"createCluster">>, <<"updateCluster">>}
  BY OpsApart DEF TaskOps
<1>3. Calls(p)
  BY <1>1, <1>2 DEF Calls
<1>4. TaskDecision(p, v)
  BY <1>1, <1>3 DEF TaskDecision
<1> QED
  BY <1>4 DEF p

LEMMA NothingToCall ==
  ASSUME NEW v \in Live, NEW id \in Nat, NEW text \in Texts,
         \/ id = v.id
         \/ /\ v.fin /\ ~v.deleting
            /\ \E t \in tasks : id = t.id /\ (t.owner = v.uid \/ (t.owner = NoOwner /\ adopt))
  PROVE TaskDecision(Plan(v, <<>>, id, text, NoTask), v)
<1> DEFINE e == <<>>
<1>1. /\ e # <<"addFinalizer">> /\ e # <<"removeFinalizer">> /\ e # <<"createTask">> /\ e # <<"deleteTask">>
      /\ e \notin {<<"createTask">>, <<"updateTask">>, <<"annotate">>, <<"annotate", "updateTask">>}
      /\ e \notin {<<"annotate">>, <<"annotate", "updateTask">>}
      /\ e \notin {<<"updateTask">>, <<"annotate", "updateTask">>}
      /\ e \in TaskOps
  BY OpsApart, OpsFacts
<1> HIDE DEF e
<1>2. TaskDecision(Plan(v, e, id, text, NoTask), v)
  BY <1>1, TaskPlan, FoundsFacts
<1> QED
  BY <1>2 DEF e

LEMMA RemovesFinalizer ==
  ASSUME NEW v \in Live, v.deleting, \A t \in tasks : v.id \notin {0, t.id}
  PROVE TaskDecision(Plan(v, <<"removeFinalizer">>, v.id, "none", NoTask), v)
<1> DEFINE e == <<"removeFinalizer">>
<1>1. /\ e # <<"addFinalizer">> /\ e # <<"createTask">> /\ e # <<"deleteTask">>
      /\ e \notin {<<"createTask">>, <<"updateTask">>, <<"annotate">>, <<"annotate", "updateTask">>}
      /\ e \notin {<<"annotate">>, <<"annotate", "updateTask">>}
      /\ e \notin {<<"updateTask">>, <<"annotate", "updateTask">>}
      /\ e \in TaskOps
  BY OpsFacts
<1> HIDE DEF e
<1>2. v.id \in Nat
  BY DEF Live
<1>3. TaskDecision(Plan(v, e, v.id, "none", NoTask), v)
  BY <1>1, <1>2, TaskPlan, FoundsFacts, TextsFacts
<1> QED
  BY <1>3 DEF e

LEMMA DeletesTask ==
  ASSUME NEW v \in Live, NEW text \in Texts, NEW found \in Founds,
         ~v.deleting => ~adopt /\ \A t \in tasks : t.id = found.id => t.owner = NoOwner
  PROVE TaskDecision(Plan(v, <<"deleteTask">>, v.id, text, found), v)
<1> DEFINE e == <<"deleteTask">>
<1>1. /\ e # <<"addFinalizer">> /\ e # <<"createTask">> /\ e # <<"removeFinalizer">>
      /\ e \notin {<<"createTask">>, <<"updateTask">>, <<"annotate">>, <<"annotate", "updateTask">>}
      /\ e \notin {<<"annotate">>, <<"annotate", "updateTask">>}
      /\ e \notin {<<"updateTask">>, <<"annotate", "updateTask">>}
      /\ e \in TaskOps
  BY OpsFacts
<1> HIDE DEF e
<1>2. v.id \in Nat
  BY DEF Live
<1>3. TaskDecision(Plan(v, e, v.id, text, found), v)
  BY <1>1, <1>2, TaskPlan
<1> QED
  BY <1>3 DEF e

LEMMA CreatesTask ==
  ASSUME NEW v \in Live, NEW n \in Nat \ {0}, v.fin, ~v.deleting
  PROVE TaskDecision(Plan(v, <<"createTask">>, v.id, "created", [id |-> n]), v)
<1> DEFINE e == <<"createTask">>
<1> DEFINE f == [id |-> n]
<1>1. /\ e # <<"addFinalizer">> /\ e # <<"deleteTask">> /\ e # <<"removeFinalizer">>
      /\ e \notin {<<"annotate">>, <<"annotate", "updateTask">>}
      /\ e \notin {<<"updateTask">>, <<"annotate", "updateTask">>}
      /\ e \in TaskOps
  BY OpsFacts
<1>2. f \in Founds /\ f.id # 0
  BY FoundsFacts
<1> HIDE DEF e, f
<1>3. v.id \in Nat
  BY DEF Live
<1>4. TaskDecision(Plan(v, e, v.id, "created", f), v)
  BY <1>1, <1>2, <1>3, TaskPlan, TextsFacts
<1> QED
  BY <1>4 DEF e, f

\* A task that suits the object is updated, or shown in the annotation, or both.
LEMMA KeepsTask ==
  ASSUME NEW v \in Live, NEW text \in Texts, NEW t \in tasks, tasks \subseteq Records, \A x \in tasks : x = t,
         v.fin, ~v.deleting, t.owner = v.uid \/ (t.owner = NoOwner /\ adopt),
         NEW ops \in {<<"updateTask">>, <<"annotate">>, <<"annotate", "updateTask">>}
  PROVE TaskDecision(Plan(v, ops, t.id, text, t), v)
<1>1. /\ ops # <<"addFinalizer">> /\ ops # <<"deleteTask">> /\ ops # <<"removeFinalizer">>
      /\ ops # <<"createTask">>
  OBVIOUS
<1>2. ops \in TaskOps
  BY OpsFacts
<1>3. t.id \in Nat /\ t \in Founds /\ t \in Records
  BY FoundsFacts DEF Records
<1> QED
  BY <1>1, <1>2, <1>3, TaskPlan

LEMMA FinalizeTask ==
  ASSUME Types, NEW v \in Live, NEW r \in Objs, v.deleting, ~Exists(r) => tasks = {}
  PROVE TaskDecision(finalizeTask(v, r), v)
<1>1. v.id \in Nat /\ v.fin \in BOOLEAN /\ tasks \subseteq Records
  BY DEF Live, Types
<1>2. CASE v.fin /\ Exists(r) /\ r.id = 0
  <2>1. finalizeTask(v, r) = Plan(v, <<>>, v.id, "awaiting registration", NoTask)
    BY <1>2 DEF finalizeTask
  <2> QED
    BY <2>1, <1>1, NothingToCall, TextsFacts
<1>3. CASE v.fin /\ Exists(r) /\ r.id # 0
  <2> DEFINE found == getScyllaDBManagerClientTask(v)
  <2> DEFINE t == CHOOSE t \in found : TRUE
  <2>1. finalizeTask(v, r) = IF found = {} THEN Plan(v, <<"removeFinalizer">>, v.id, "none", NoTask)
                             ELSE Plan(v, <<"deleteTask">>, v.id, "deleted", t)
    BY <1>3 DEF finalizeTask
  <2>2. found \subseteq tasks
    BY DEF getScyllaDBManagerClientTask
  <2>3. found = {} => \A x \in tasks : v.id \notin {0, x.id}
    BY DEF getScyllaDBManagerClientTask
  <2>4. found # {} => t \in found
    OBVIOUS
  <2> HIDE DEF found, t
  <2>5. CASE found = {}
    BY <2>1, <2>3, <2>5, RemovesFinalizer
  <2>6. CASE found # {}
    <3>1. t \in Founds
      BY <2>2, <2>4, <2>6, <1>1, FoundsFacts
    <3> QED
      BY <3>1, <2>1, <2>6, DeletesTask, TextsFacts
  <2> QED
    BY <2>5, <2>6
<1>4. CASE v.fin /\ ~Exists(r)
  <2>1. finalizeTask(v, r) = Plan(v, <<"removeFinalizer">>, v.id, "none", NoTask)
    BY <1>4 DEF finalizeTask
  <2> QED
    BY <2>1, <1>4, RemovesFinalizer
<1>5. CASE ~v.fin
  <2>1. finalizeTask(v, r) = Plan(v, <<>>, v.id, "none", NoTask)
    BY <1>5 DEF finalizeTask
  <2> QED
    BY <2>1, <1>1, NothingToCall, TextsFacts
<1> QED
  BY <1>1, <1>2, <1>3, <1>4, <1>5

LEMMA SyncTask ==
  ASSUME Types, NEW v \in Live, NEW r \in Objs, v.fin, ~v.deleting, \A x, y \in tasks : x = y
  PROVE TaskDecision(syncTask(v, r), v)
<1>1. v.id \in Nat /\ tasks \subseteq Records /\ adopt \in BOOLEAN
  BY DEF Live, Types
<1>2. CASE ~Exists(r) \/ r.id = 0
  <2>1. syncTask(v, r) = Plan(v, <<>>, v.id, "awaiting registration", NoTask)
    BY <1>2 DEF syncTask
  <2> QED
    BY <2>1, <1>1, NothingToCall, TextsFacts
<1>3. CASE ~(~Exists(r) \/ r.id = 0) /\ getScyllaDBManagerClientTask(v) = {}
  <2>1. syncTask(v, r) = Plan(v, <<"createTask">>, v.id, "created", [id |-> r.id])
    BY <1>3 DEF syncTask
  <2>2. r.id \in Nat \ {0}
    BY <1>3, LiveFacts
  <2> QED
    BY <2>1, <2>2, CreatesTask
<1>4. CASE ~(~Exists(r) \/ r.id = 0) /\ getScyllaDBManagerClientTask(v) # {}
  <2> DEFINE t == CHOOSE t \in getScyllaDBManagerClientTask(v) : TRUE
  <2> DEFINE current == v.ann = statusAnnotation(t)
  <2> DEFINE same == [owner |-> t.owner, hash |-> t.hash] = requiredTask(v)
  <2>1. t \in tasks
    BY <1>4 DEF getScyllaDBManagerClientTask
  <2>2. syncTask(v, r) =
          CASE Collides(t) -> Plan(v, <<"deleteTask">>, v.id, "collided", t)
            [] t.owner \notin {NoOwner, v.uid} -> Plan(v, <<>>, v.id, "cannot adopt", NoTask)
            [] same -> IF current THEN Plan(v, <<>>, t.id, "none", NoTask)
                       ELSE Plan(v, <<"annotate">>, t.id, "none", t)
            [] OTHER -> Plan(v, IF current THEN <<"updateTask">> ELSE <<"annotate", "updateTask">>,
                             t.id, "updated", t)
    BY <1>4 DEF syncTask
  <2>3. same => t.owner = v.uid
    BY DEF requiredTask
  <2>4. v.uid # NoOwner
    BY DEF Live, NoOwner
  <2>5. t.id \in Nat /\ t \in Founds /\ \A x \in tasks : x = t
    BY <2>1, <1>1, FoundsFacts DEF Records
  <2> HIDE DEF t, current, same
  <2>6. CASE Collides(t)
    <3>1. syncTask(v, r) = Plan(v, <<"deleteTask">>, v.id, "collided", t)
      BY <2>2, <2>3, <2>4, <2>6 DEF Collides
    <3> QED
      BY <3>1, <2>5, <2>6, DeletesTask, TextsFacts DEF Collides
  <2>7. CASE t.owner \notin {NoOwner, v.uid}
    <3>1. syncTask(v, r) = Plan(v, <<>>, v.id, "cannot adopt", NoTask)
      BY <2>2, <2>3, <2>7 DEF Collides
    <3> QED
      BY <3>1, <1>1, NothingToCall, TextsFacts
  <2>8. CASE ~Collides(t) /\ t.owner \in {NoOwner, v.uid}
    <3>1. t.owner = v.uid \/ (t.owner = NoOwner /\ adopt)
      BY <1>1, <2>8 DEF Collides
    <3>2. CASE same /\ current
      <4>1. syncTask(v, r) = Plan(v, <<>>, t.id, "none", NoTask)
        BY <2>2, <2>8, <3>2
      <4> QED
        BY <4>1, <2>1, <2>5, <3>1, NothingToCall, TextsFacts
    <3>3. CASE same /\ ~current
      <4>1. syncTask(v, r) = Plan(v, <<"annotate">>, t.id, "none", t)
        BY <2>2, <2>8, <3>3
      <4> QED
        BY <4>1, <1>1, <2>1, <2>5, <3>1, KeepsTask, TextsFacts
    <3>4. CASE ~same /\ current
      <4>1. syncTask(v, r) = Plan(v, <<"updateTask">>, t.id, "updated", t)
        BY <2>2, <2>8, <3>4
      <4> QED
        BY <4>1, <1>1, <2>1, <2>5, <3>1, KeepsTask, TextsFacts
    <3>5. CASE ~same /\ ~current
      <4>1. syncTask(v, r) = Plan(v, <<"annotate", "updateTask">>, t.id, "updated", t)
        BY <2>2, <2>8, <3>5
      <4> QED
        BY <4>1, <1>1, <2>1, <2>5, <3>1, KeepsTask, TextsFacts
    <3> QED
      BY <3>2, <3>3, <3>4, <3>5
  <2> QED
    BY <2>6, <2>7, <2>8
<1> QED
  BY <1>2, <1>3, <1>4

LEMMA DecideTask ==
  ASSUME Types, seen["task"] \in Live, \A x, y \in tasks : x = y, ~Exists(seen["reg"]) => tasks = {}
  PROVE TaskDecision(Decide("task"), seen["task"])
<1> DEFINE v == seen["task"]
<1> DEFINE r == seen["reg"]
<1>1. v \in Live /\ v.fin \in BOOLEAN /\ v.deleting \in BOOLEAN /\ v.id \in Nat /\ r \in Objs
  BY DEF Live, Types, Keys
<1>2. Decide("task") =
        CASE v.deleting -> finalizeTask(v, r)
          [] ~v.deleting /\ ~v.fin -> Plan(v, <<"addFinalizer">>, v.id, "none", NoTask)
          [] OTHER -> syncTask(v, r)
  BY DEF Decide
<1>3. CASE v.deleting
  <2>1. Decide("task") = finalizeTask(v, r)
    BY <1>2, <1>3
  <2> QED
    BY <2>1, <1>1, <1>3, FinalizeTask
<1>4. CASE ~v.deleting /\ ~v.fin
  <2>1. Decide("task") = Plan(v, <<"addFinalizer">>, v.id, "none", NoTask)
    BY <1>2, <1>4
  <2> DEFINE e == <<"addFinalizer">>
  <2>2. /\ e # <<"removeFinalizer">> /\ e # <<"createTask">> /\ e # <<"deleteTask">>
        /\ e \notin {<<"createTask">>, <<"updateTask">>, <<"annotate">>, <<"annotate", "updateTask">>}
        /\ e \notin {<<"annotate">>, <<"annotate", "updateTask">>}
        /\ e \notin {<<"updateTask">>, <<"annotate", "updateTask">>}
        /\ e \in TaskOps
    BY OpsFacts
  <2> HIDE DEF e
  <2>3. TaskDecision(Plan(v, e, v.id, "none", NoTask), v)
    BY <1>1, <1>4, <2>2, TaskPlan, TextsFacts, FoundsFacts
  <2> QED
    BY <2>1, <2>3 DEF e
<1>5. CASE ~v.deleting /\ v.fin
  <2>1. Decide("task") = syncTask(v, r)
    BY <1>2, <1>5
  <2> QED
    BY <2>1, <1>1, <1>5, SyncTask
<1> QED
  BY <1>1, <1>3, <1>4, <1>5

-----------------------------------------------------------------------------
(* The step of one controller. *)

LEMMA TypesOf ==
  ASSUME IInv
  PROVE /\ Types /\ ManagerFacts
        /\ obj["reg"] \in Objs /\ obj["task"] \in Objs /\ seen["reg"] \in Objs /\ seen["task"] \in Objs
        /\ work["reg"] # Idle => work["reg"] \in Plans(RegOps) /\ work["reg"].view \in Live /\ Calls(work["reg"])
        /\ work["task"] # Idle => work["task"] \in Plans(TaskOps) /\ work["task"].view \in Live /\ Calls(work["task"])
        /\ Life(obj["reg"], seen["reg"], work["reg"], uid)
        /\ Life(obj["task"], seen["task"], work["task"], uid)
        /\ RegFacts(obj["reg"], work["reg"], cluster)
        /\ TaskFacts(obj["task"], seen["task"], work["task"], tasks, lost, namespace, adopt)
<1>1. Types
  BY DEF IInv
<1>2. obj["reg"] \in Objs /\ obj["task"] \in Objs /\ seen["reg"] \in Objs /\ seen["task"] \in Objs
  BY <1>1 DEF Types, Keys
<1>3. work["reg"] # Idle => work["reg"] \in Plans(RegOps) /\ work["reg"].view \in Live
  BY <1>1 DEF Types, Plans
<1>4. work["task"] # Idle => work["task"] \in Plans(TaskOps) /\ work["task"].view \in Live
  BY <1>1 DEF Types, Plans
<1>5. "reg" \in Keys /\ "task" \in Keys
  BY DEF Keys
<1> QED
  BY <1>1, <1>2, <1>3, <1>4, <1>5 DEF IInv

\* A function on the two keys, changed at one of them.
LEMMA AtKey ==
  ASSUME NEW S, NEW f \in [Keys -> S], NEW k \in Keys, NEW x \in S
  PROVE /\ [f EXCEPT ![k] = x] \in [Keys -> S]
        /\ [f EXCEPT ![k] = x][k] = x
        /\ \A j \in Keys : j # k => [f EXCEPT ![k] = x][j] = f[j]
        /\ f = [f EXCEPT ![k] = f[k]]
OBVIOUS

LEMMA KeysFacts == "reg" \in Keys /\ "task" \in Keys /\ "reg" # "task" /\ \A k \in Keys : k \in {"reg", "task"}
BY DEF Keys

\* A call with nothing to do is never a wrong one.
LEMMA CallsNone ==
  ASSUME NEW p, p.ops = <<>>
  PROVE Calls(p)
BY OpsApart DEF Calls

LEMMA RegStep ==
  ASSUME IInv, NEW o \in Objs, NEW p \in {Idle} \cup Plans(RegOps),
         obj' = [obj EXCEPT !["reg"] = o], work' = [work EXCEPT !["reg"] = p],
         Life(o, seen["reg"], p, uid), p # Idle => Calls(p),
         UNCHANGED <<seen, uid, dc, namespace, adopt>>,
         cluster' \in {NoCluster} \cup Records, RegFacts(o, p, cluster'), ~namespace => cluster' = NoCluster,
         \/ tasks' = tasks /\ lost' = lost /\ (tasks # {} => cluster' # NoCluster)
         \/ tasks' = {} /\ lost' = lost \cup Missing(tasks),
         nextID' \in Nat \ {0}, nextID <= nextID'
  PROVE IInv'
<1>1. Types /\ ManagerFacts
  BY TypesOf
<1>2. obj' \in [Keys -> Objs] /\ obj'["reg"] = o /\ obj'["task"] = obj["task"]
  BY <1>1, KeysFacts, AtKey DEF Types
<1>3. work' \in [Keys -> {Idle} \cup Plans(RegOps) \cup Plans(TaskOps)] /\ work'["reg"] = p
      /\ work'["task"] = work["task"]
  BY <1>1, KeysFacts, AtKey DEF Types
<1>4. TaskFacts(obj["task"], seen["task"], work["task"], tasks', lost', namespace, adopt)
  <2>1. CASE tasks' = tasks /\ lost' = lost
    BY <2>1, TypesOf
  <2>2. CASE tasks' = {} /\ lost' = lost \cup Missing(tasks)
    <3>1. tasks # {} /\ Exists(obj["task"]) => obj["task"].uid \in lost'
      BY <2>2 DEF Missing, Exists
    <3>2. namespace \in BOOLEAN
      BY <1>1 DEF Types
    <3>3. lost \subseteq lost'
      BY <2>2
    <3> QED
      BY <2>2, <3>1, <3>2, <3>3, TypesOf, TaskRemoved
  <2> QED
    BY <2>1, <2>2
<1>5. Types'
  BY <1>1, <1>2, <1>3 DEF Types
<1>6. \A k \in Keys : Life(obj'[k], seen'[k], work'[k], uid')
  BY <1>2, <1>3, TypesOf, KeysFacts
<1>7. \A k \in Keys : work'[k] # Idle => Calls(work'[k])
  BY <1>3, TypesOf, KeysFacts
<1>8. ManagerFacts'
  <2>1. \A t \in tasks : t.id \in Nat /\ t.id < nextID
    BY <1>1 DEF ManagerFacts, Types, Records
  <2>2. \A t \in tasks' : t.id < nextID'
    BY <2>1, <1>1 DEF Types
  <2> QED
    BY <1>1, <2>2 DEF ManagerFacts
<1> QED
  BY <1>2, <1>3, <1>4, <1>5, <1>6, <1>7, <1>8 DEF IInv

LEMMA TaskStep ==
  ASSUME IInv, NEW o \in Objs, NEW p \in {Idle} \cup Plans(TaskOps),
         obj' = [obj EXCEPT !["task"] = o], work' = [work EXCEPT !["task"] = p],
         Life(o, seen["task"], p, uid), p # Idle => Calls(p),
         UNCHANGED <<seen, uid, dc, namespace, adopt, cluster, lost>>,
         tasks' \subseteq Records, \A t \in tasks' : t.id < nextID', tasks' # {} => cluster # NoCluster,
         TaskFacts(o, seen["task"], p, tasks', lost, namespace, adopt),
         nextID' \in Nat \ {0}
  PROVE IInv'
<1>1. Types /\ ManagerFacts
  BY TypesOf
<1>2. obj' \in [Keys -> Objs] /\ obj'["task"] = o /\ obj'["reg"] = obj["reg"]
  BY <1>1, KeysFacts, AtKey DEF Types
<1>3. work' \in [Keys -> {Idle} \cup Plans(RegOps) \cup Plans(TaskOps)] /\ work'["task"] = p
      /\ work'["reg"] = work["reg"]
  BY <1>1, KeysFacts, AtKey DEF Types
<1>5. Types'
  BY <1>1, <1>2, <1>3 DEF Types
<1>6. \A k \in Keys : Life(obj'[k], seen'[k], work'[k], uid')
  BY <1>2, <1>3, TypesOf, KeysFacts
<1>7. \A k \in Keys : work'[k] # Idle => Calls(work'[k])
  BY <1>3, TypesOf, KeysFacts
<1>8. ManagerFacts'
  BY <1>1 DEF ManagerFacts
<1>9. RegFacts(obj'["reg"], work'["reg"], cluster')
  BY <1>2, <1>3, TypesOf
<1> QED
  BY <1>2, <1>3, <1>5, <1>6, <1>7, <1>8, <1>9 DEF IInv

LEMMA FailsIs ==
  ASSUME Types, NEW k \in Keys, NEW S, work[k] \in Plans(S), <<>> \in S, NEW what \in Texts,
         NEW retriable \in BOOLEAN, Fails(k, work[k], what, retriable)
  PROVE \E p \in {Idle} \cup Plans(S) :
          /\ work' = [work EXCEPT ![k] = p] /\ Reports(work[k], p)
          /\ p # Idle => p.new.id = work[k].new.id /\ Calls(p)
<1> DEFINE w == work[k]
<1>1. CASE work' = [work EXCEPT ![k] = Idle]
  <2>1. Reports(w, Idle)
    BY DEF Reports
  <2> QED
    BY <1>1, <2>1
<1>2. CASE work' = [work EXCEPT ![k] = [w EXCEPT !.ops = <<>>, !.found = NoTask,
                                                 !.new.cond = <<w.view.deleting, what>>,
                                                 !.retry = retriable /\ ~w.view.deleting]]
  <2> DEFINE c == <<w.view.deleting, what>>
  <2> DEFINE r == retriable /\ ~w.view.deleting
  <2> DEFINE p == [w EXCEPT !.ops = <<>>, !.found = NoTask, !.new.cond = c, !.retry = r]
  <2>1. w.view \in Live /\ w.view.deleting \in BOOLEAN /\ w.new \in [id : Nat, cond : Conds]
    BY DEF Plans, Live
  <2>2. c \in Conds
    BY <2>1, CondsFacts
  <2>3. r \in BOOLEAN
    BY <2>1
  <2>4. work' = [work EXCEPT ![k] = p]
    BY <1>2
  <2> HIDE DEF c, r
  <2> DEFINE new == [w.new EXCEPT !.cond = c]
  <2>5. new \in [id : Nat, cond : Conds] /\ new.id = w.new.id
    BY <2>1, <2>2
  <2>6. p = [w EXCEPT !.ops = <<>>, !.found = NoTask, !.new = new, !.retry = r]
    BY DEF Plans
  <2> HIDE DEF new
  <2> DEFINE e == <<>>
  <2> HIDE DEF p, e
  <2>7. p \in Plans(S) /\ p.view = w.view /\ p.ops = <<>> /\ p.new = new
    <3>1. e \in S /\ NoTask \in Founds
      BY FoundsFacts DEF e
    <3>2. p = [w EXCEPT !.ops = e, !.found = NoTask, !.new = new, !.retry = r]
      BY <2>6 DEF e
    <3>3. p.view = w.view /\ p.ops = e /\ p.new = new
      BY <3>2 DEF Plans
    <3>4. p \in Plans(S)
      BY <3>1, <3>2, <2>3, <2>5 DEF Plans
    <3> QED
      BY <3>3, <3>4 DEF e
  <2>8. Calls(p)
    BY <2>7, CallsNone
  <2> QED
    BY <2>4, <2>5, <2>7, <2>8 DEF Reports
<1> QED
  BY <1>1, <1>2 DEF Fails, End

LEMMA SucceedsIs ==
  ASSUME Types, NEW k \in Keys, NEW S, work[k] \in Plans(S), Tail(work[k].ops) \in S, Succeeds(k, work[k])
  PROVE \E p \in Plans(S) :
          /\ work' = [work EXCEPT ![k] = p] /\ p.view = work[k].view /\ p.ops = Tail(work[k].ops)
          /\ p.found = IF Tail(work[k].ops) = <<>> THEN NoTask ELSE work[k].found
          /\ p.new.id = IF Head(work[k].ops) \in {"createCluster", "createTask"} THEN nextID ELSE work[k].new.id
<1> DEFINE w == work[k]
<1> DEFINE f == IF Tail(w.ops) = <<>> THEN NoTask ELSE w.found
<1> DEFINE i == IF Head(w.ops) \in {"createCluster", "createTask"} THEN nextID ELSE w.new.id
<1> DEFINE l == Tail(w.ops)
<1> DEFINE p == [w EXCEPT !.ops = l, !.found = f, !.new.id = i]
<1>1. work' = [work EXCEPT ![k] = p]
  BY DEF Succeeds
<1>2. w.new \in [id : Nat, cond : Conds] /\ w.view \in Live /\ w.found \in Founds /\ w.retry \in BOOLEAN
  BY DEF Plans
<1>3. f \in Founds /\ i \in Nat /\ l \in S
  BY <1>2, FoundsFacts DEF Types
<1> HIDE DEF f, i, l
<1> DEFINE new == [w.new EXCEPT !.id = i]
<1>4. new \in [id : Nat, cond : Conds] /\ new.id = i
  BY <1>2, <1>3
<1>5. p = [w EXCEPT !.ops = l, !.found = f, !.new = new, !.retry = w.retry]
  BY DEF Plans
<1> HIDE DEF new, p
<1>6. p.view = w.view /\ p.ops = l /\ p.found = f /\ p.new = new
  BY <1>5 DEF Plans
<1>7. p \in Plans(S)
  BY <1>2, <1>3, <1>4, <1>5 DEF Plans
<1> QED
  BY <1>1, <1>4, <1>6, <1>7 DEF f, i, l

-----------------------------------------------------------------------------
(* The actions. *)

LEMMA Unmoved ==
  ASSUME IInv, UNCHANGED <<obj, seen, work, manager, world, lost, uid>>
  PROVE IInv'
BY DEF IInv, Types, ManagerFacts, manager, world

\* The registration's controller goes on with the same objects and the same Manager.
LEMMA RegWork ==
  ASSUME IInv, NEW p \in {Idle} \cup Plans(RegOps), work' = [work EXCEPT !["reg"] = p],
         Life(obj["reg"], seen["reg"], p, uid), p # Idle => Calls(p),
         p # Idle /\ p.ops = <<"removeFinalizer">> => cluster = NoCluster,
         UNCHANGED <<obj, seen, manager, world, lost, uid>>
  PROVE IInv'
<1>1. Types /\ ManagerFacts
  BY TypesOf
<1>2. obj' = [obj EXCEPT !["reg"] = obj["reg"]]
  BY <1>1, AtKey, KeysFacts DEF Types
<1>3. RegFacts(obj["reg"], p, cluster')
  BY TypesOf DEF RegFacts, manager
<1>4. /\ UNCHANGED <<seen, uid, dc, namespace, adopt>>
      /\ cluster' \in {NoCluster} \cup Records /\ (~namespace => cluster' = NoCluster)
      /\ tasks' = tasks /\ lost' = lost /\ (tasks # {} => cluster' # NoCluster)
      /\ nextID' \in Nat \ {0} /\ nextID <= nextID'
  BY <1>1 DEF Types, ManagerFacts, manager, world
<1>5. obj["reg"] \in Objs
  BY TypesOf
<1> QED
  BY <1>2, <1>3, <1>4, <1>5, RegStep

\* The same for the task.
LEMMA TaskWorks ==
  ASSUME IInv, NEW p \in {Idle} \cup Plans(TaskOps), work' = [work EXCEPT !["task"] = p],
         Life(obj["task"], seen["task"], p, uid), p # Idle => Calls(p),
         TaskFacts(obj["task"], seen["task"], p, tasks, lost, namespace, adopt),
         UNCHANGED <<obj, seen, manager, world, lost, uid>>
  PROVE IInv'
<1>1. Types /\ ManagerFacts
  BY TypesOf
<1>2. obj' = [obj EXCEPT !["task"] = obj["task"]]
  BY <1>1, AtKey, KeysFacts DEF Types
<1> QED
  BY <1>1, <1>2, TypesOf, TaskStep DEF Types, ManagerFacts, manager, world

LEMMA StartSyncStep ==
  ASSUME IInv, NEW k \in Keys, StartSync(k)
  PROVE IInv'
<1>1. Types /\ ManagerFacts
  BY TypesOf
<1>2. UNCHANGED <<obj, seen, manager, world, lost, uid>> /\ work[k] = Idle
  BY DEF StartSync, counters
<1>3. CASE ~Exists(seen[k])
  <2>1. UNCHANGED work
    BY <1>3 DEF StartSync
  <2> QED
    BY <1>2, <2>1, Unmoved
<1>4. CASE Exists(seen[k]) /\ k = "reg"
  <2>1. work' = [work EXCEPT !["reg"] = Decide("reg")]
    BY <1>4 DEF StartSync
  <2>2. seen["reg"] \in Live
    BY <1>4, TypesOf, LiveFacts
  <2>3. RegDecision(Decide("reg"), seen["reg"])
    BY <1>1, <2>2, DecideRegistration
  <2> DEFINE p == Decide("reg")
  <2> HIDE DEF p
  <2>4. p \in Plans(RegOps) /\ p.view = seen["reg"] /\ Calls(p) /\ (p.ops = <<"removeFinalizer">> => cluster = NoCluster)
    BY <2>3 DEF RegDecision, p
  <2>5. Life(obj["reg"], seen["reg"], p, uid)
    BY <1>1, <2>2, <2>4, TypesOf, LifeStart DEF Types
  <2>6. work' = [work EXCEPT !["reg"] = p]
    BY <2>1 DEF p
  <2> QED
    BY <1>2, <2>4, <2>5, <2>6, RegWork
<1>5. CASE Exists(seen[k]) /\ k = "task"
  <2>1. work' = [work EXCEPT !["task"] = Decide("task")]
    BY <1>5 DEF StartSync
  <2>2. seen["task"] \in Live
    BY <1>5, TypesOf, LiveFacts
  <2>3. \A x, y \in tasks : x = y
    BY TypesOf DEF TaskFacts
  <2>4. ~Exists(seen["reg"]) => tasks = {}
    <3>1. cluster # NoCluster => Exists(obj["reg"]) /\ obj["reg"].fin
      BY TypesOf DEF RegFacts
    <3>2. cluster # NoCluster => seen["reg"].uid = obj["reg"].uid
      BY <3>1, TypesOf DEF Life
    <3> QED
      BY <1>1, <3>1, <3>2 DEF Exists, ManagerFacts
  <2>5. TaskDecision(Decide("task"), seen["task"])
    BY <1>1, <2>2, <2>3, <2>4, DecideTask
  <2> DEFINE p == Decide("task")
  <2> HIDE DEF p
  <2>6. TaskDecision(p, seen["task"])
    BY <2>5 DEF p
  <2>7. p \in Plans(TaskOps) /\ p.view = seen["task"] /\ Calls(p)
    BY <2>6 DEF TaskDecision
  <2>8. Life(obj["task"], seen["task"], p, uid)
    BY <1>1, <2>2, <2>7, TypesOf, LifeStart DEF Types
  <2>9. TaskFacts(obj["task"], seen["task"], p, tasks, lost, namespace, adopt)
    <3>1. /\ Life(obj["task"], seen["task"], Idle, uid)
          /\ TaskFacts(obj["task"], seen["task"], Idle, tasks, lost, namespace, adopt)
      BY <1>2, <1>5, TypesOf
    <3> QED
      BY <2>2, <2>6, <3>1, TypesOf, TaskStart DEF TaskDecision
  <2>10. work' = [work EXCEPT !["task"] = p]
    BY <2>1 DEF p
  <2> QED
    BY <1>2, <2>7, <2>8, <2>9, <2>10, TaskWorks
<1> QED
  BY <1>3, <1>4, <1>5, KeysFacts

LEMMA StartSyncFailsStep ==
  ASSUME IInv, NEW k \in Keys, StartSyncFails(k)
  PROVE IInv'
<1>1. Types /\ ManagerFacts
  BY TypesOf
<1>2. UNCHANGED <<obj, seen, manager, world, lost, uid>> /\ work[k] = Idle /\ Exists(seen[k])
  BY DEF StartSyncFails, counters
<1>3. CASE UNCHANGED work
  BY <1>2, <1>3, Unmoved
<1> DEFINE v == seen[k]
<1> DEFINE e == <<>>
<1> DEFINE r == ~v.deleting
<1> DEFINE q == Plan(v, e, v.id, "cannot get", NoTask)
<1> DEFINE p == [q EXCEPT !.retry = r]
<1>4. CASE work' = [work EXCEPT ![k] = p]
  <2>1. v \in Live
    BY <1>1, <1>2, LiveFacts DEF Types
  <2>2. v.id \in Nat /\ r \in BOOLEAN /\ e \in RegOps /\ e \in TaskOps
    BY <2>1, OpsFacts DEF Live
  <2>3. e = <<>>
    OBVIOUS
  <2> HIDE DEF v, e, r
  <2>4. /\ q \in Plans(RegOps) /\ q \in Plans(TaskOps)
        /\ q.view = v /\ q.ops = e /\ q.new.id = v.id
    <3> DEFINE text == "cannot get"
    <3>0. text \in Texts /\ NoTask \in Founds
      BY TextsFacts, FoundsFacts
    <3> HIDE DEF text
    <3>1. LET x == Plan(v, e, v.id, text, NoTask)
          IN  x \in Plans(RegOps) /\ x.view = v /\ x.ops = e /\ x.new.id = v.id
      BY <2>1, <2>2, <3>0, PlanIs
    <3>2. q \in Plans(TaskOps)
      BY <2>1, <2>2, PlanIs, TextsFacts, FoundsFacts
    <3> QED
      BY <3>1, <3>2 DEF text
  <2> HIDE DEF q
  <2>5. p \in Plans(RegOps)
    BY <2>2, <2>4 DEF Plans
  <2>6. p \in Plans(TaskOps)
    BY <2>2, <2>4 DEF Plans
  <2>7. p.view = v /\ p.ops = <<>> /\ p.new.id = v.id
    BY <2>3, <2>4 DEF Plans
  <2> HIDE DEF p
  <2>8. Calls(p)
    BY <2>7, CallsNone
  <2>9. CASE k = "reg"
    <3>1. Life(obj["reg"], seen["reg"], p, uid)
      BY <1>1, <2>1, <2>7, <2>9, TypesOf, LifeStart DEF Types, v
    <3>2. p.ops # <<"removeFinalizer">>
      BY <2>7, OpsApart
    <3> QED
      BY <1>2, <1>4, <2>5, <2>8, <2>9, <3>1, <3>2, RegWork
  <2>10. CASE k = "task"
    <3>1. Life(obj["task"], seen["task"], p, uid)
      BY <1>1, <2>1, <2>7, <2>10, TypesOf, LifeStart DEF Types, v
    <3>2. /\ Life(obj["task"], seen["task"], Idle, uid)
          /\ TaskFacts(obj["task"], seen["task"], Idle, tasks, lost, namespace, adopt)
      BY <1>2, <2>10, TypesOf
    <3>3. p.ops \notin {<<"removeFinalizer">>, <<"updateTask">>, <<"annotate", "updateTask">>, <<"deleteTask">>}
      BY <2>7, OpsApart
    <3>4. seen["task"] \in Live /\ p.view = seen["task"] /\ p.new.id = seen["task"].id
      BY <2>1, <2>7, <2>10 DEF v
    <3>5. TaskFacts(obj["task"], seen["task"], p, tasks, lost, namespace, adopt)
      BY <3>2, <3>3, <3>4, TypesOf, TaskStart
    <3> QED
      BY <1>2, <1>4, <2>6, <2>8, <2>10, <3>1, <3>5, TaskWorks
  <2> QED
    BY <2>9, <2>10, KeysFacts
<1> QED
  BY <1>3, <1>4 DEF StartSyncFails

\* A sync that only has to report, or nothing at all.
LEMMA ReportStep ==
  ASSUME IInv, NEW k \in Keys, work[k] # Idle, NEW p \in {Idle} \cup Plans(IF k = "reg" THEN RegOps ELSE TaskOps),
         work' = [work EXCEPT ![k] = p], Reports(work[k], p), p # Idle => p.new.id = work[k].new.id,
         UNCHANGED <<obj, seen, manager, world, lost, uid>>
  PROVE IInv'
<1>1. p # Idle => Calls(p)
  BY CallsNone DEF Reports
<1>2. obj[k] \in Objs /\ seen[k] \in Objs /\ uid \in Nat /\ Life(obj[k], seen[k], work[k], uid)
  BY KeysFacts, TypesOf DEF Types
<1>3. Life(obj[k], seen[k], p, uid)
  <2>1. CASE p = Idle
    BY <1>2, <2>1, LifeEnd
  <2>2. CASE p # Idle
    BY <1>2, <2>2, LifeWork DEF Reports
  <2> QED
    BY <2>1, <2>2
<1>4. CASE k = "reg"
  <2>1. p # Idle => p.ops # <<"removeFinalizer">>
    BY OpsApart DEF Reports
  <2> QED
    BY <1>1, <1>3, <1>4, <2>1, RegWork
<1>5. CASE k = "task"
  <2>1. TaskFacts(obj["task"], seen["task"], work["task"], tasks, lost, namespace, adopt)
    BY TypesOf
  <2>2. TaskFacts(obj["task"], seen["task"], p, tasks, lost, namespace, adopt)
    <3>1. CASE p = Idle
      BY <2>1, <3>1, TaskEnd
    <3>2. CASE p # Idle
      BY <1>5, <2>1, <3>2, TaskWork DEF Reports
    <3> QED
      BY <3>1, <3>2
  <2>3. p \in {Idle} \cup Plans(TaskOps)
    BY <1>5
  <2> QED
    BY <1>1, <1>3, <1>5, <2>2, <2>3, TaskWorks
<1> QED
  BY <1>4, <1>5, KeysFacts

OpsOf(k) == IF k = "reg" THEN RegOps ELSE TaskOps

LEMMA AtWork ==
  ASSUME IInv, NEW k \in Keys, work[k] # Idle
  PROVE work[k] \in Plans(OpsOf(k)) /\ work[k].view \in Live /\ Calls(work[k]) /\ <<>> \in OpsOf(k)
        /\ work[k].ops \in RegOps \cup TaskOps
BY TypesOf, KeysFacts, OpsFacts DEF OpsOf, Plans

\* A call that fails without an effect.
LEMMA FailsStep ==
  ASSUME IInv, NEW k \in Keys, work[k] # Idle, NEW what \in Texts, NEW retriable \in BOOLEAN,
         Fails(k, work[k], what, retriable), UNCHANGED <<obj, seen, manager, world, lost, uid>>
  PROVE IInv'
<1>1. PICK p \in {Idle} \cup Plans(OpsOf(k)) :
          /\ work' = [work EXCEPT ![k] = p] /\ Reports(work[k], p)
          /\ p # Idle => p.new.id = work[k].new.id /\ Calls(p)
  BY AtWork, FailsIs, TypesOf
<1> QED
  BY <1>1, ReportStep DEF OpsOf

LEMMA NumberedIs ==
  ASSUME Types, NEW n \in Nat \ {0}, NEW v \in Live
  PROVE /\ Numbered(n, requiredCluster(v)) \in Records
        /\ Numbered(n, requiredCluster(v)).id = n /\ Numbered(n, requiredCluster(v)).owner = v.uid
        /\ Numbered(n, requiredTask(v)) \in Records
        /\ Numbered(n, requiredTask(v)).id = n /\ Numbered(n, requiredTask(v)).owner = v.uid
<1>1. v.uid \in Int /\ v.spec \in Nat /\ dc.token \in Nat
  BY DEF Types, Live
<1> QED
  BY <1>1 DEF Numbered, requiredCluster, requiredTask, Records

\* What a call of either controller does, by the call.
LEMMA EffectIs ==
  ASSUME NEW k, NEW w, w.ops \in RegOps \cup TaskOps, w.ops # <<>>, Accepted(k, w), Effect(k, w)
  PROVE /\ namespace
        /\ w.ops = <<"createCluster">> =>
             /\ cluster = NoCluster /\ cluster' = Numbered(nextID, requiredCluster(w.view))
             /\ tasks' = tasks /\ lost' = lost /\ nextID' = nextID + 1
        /\ w.ops = <<"updateCluster">> =>
             /\ cluster' = Numbered(w.found.id, requiredCluster(w.view))
             /\ tasks' = tasks /\ lost' = lost /\ nextID' = nextID
        /\ w.ops = <<"deleteCluster">> =>
             /\ cluster' = NoCluster /\ tasks' = {} /\ lost' = lost \cup Missing(tasks) /\ nextID' = nextID
        /\ w.ops = <<"createTask">> =>
             /\ cluster.id = w.found.id /\ tasks = {}
             /\ cluster' = cluster /\ tasks' = {Numbered(nextID, requiredTask(w.view))}
             /\ lost' = lost /\ nextID' = nextID + 1
        /\ w.ops = <<"updateTask">> =>
             /\ \E t \in tasks : t.id = w.found.id
             /\ cluster' = cluster /\ tasks' = {Numbered(w.found.id, requiredTask(w.view))}
             /\ lost' = lost /\ nextID' = nextID
        /\ w.ops = <<"deleteTask">> =>
             /\ \E t \in tasks : t.id = w.found.id
             /\ cluster' = cluster /\ tasks' = {t \in tasks : t.id # w.found.id}
             /\ lost' = lost /\ nextID' = nextID
<1>1. namespace
  BY DEF Accepted
<1>2. CASE w.ops = <<"createCluster">>
  BY <1>1, <1>2 DEF Accepted, Effect
<1>3. CASE w.ops = <<"updateCluster">>
  BY <1>1, <1>3 DEF Accepted, Effect
<1>4. CASE w.ops = <<"deleteCluster">>
  BY <1>1, <1>4 DEF Accepted, Effect
<1>5. CASE w.ops = <<"createTask">>
  BY <1>1, <1>5 DEF Accepted, Effect
<1>6. CASE w.ops = <<"updateTask">>
  BY <1>1, <1>6 DEF Accepted, Effect
<1>7. CASE w.ops = <<"deleteTask">>
  BY <1>1, <1>7 DEF Accepted, Effect
<1> QED
  BY <1>1, <1>2, <1>3, <1>4, <1>5, <1>6, <1>7

\* The Manager takes a call of the registration's controller.
LEMMA RegCall ==
  ASSUME IInv, work["reg"] # Idle, work["reg"].ops # <<>>, Head(work["reg"].ops) \in ManagerOps,
         Accepted("reg", work["reg"]), Effect("reg", work["reg"]),
         NEW p \in {Idle} \cup Plans(RegOps), work' = [work EXCEPT !["reg"] = p], Reports(work["reg"], p),
         UNCHANGED <<obj, seen, world, uid>>
  PROVE IInv'
<1> DEFINE w == work["reg"]
<1> DEFINE o == obj["reg"]
<1>1. Types /\ ManagerFacts /\ w \in Plans(RegOps) /\ w.view \in Live /\ Calls(w) /\ w.ops \in RegOps
  BY TypesOf DEF Plans
<1>2. w.ops \in {<<"createCluster">>, <<"updateCluster">>, <<"deleteCluster">>}
  <2>1. w.ops \in RegOps \cup TaskOps
    BY <1>1
  <2>2. w.ops # <<"addFinalizer">> /\ w.ops # <<"removeFinalizer">>
    BY <2>1, HeadTail DEF ManagerOps
  <2> QED
    BY <1>1, <2>2 DEF RegOps
<1>3. p # Idle => Calls(p) /\ p.ops # <<"removeFinalizer">>
  BY CallsNone, OpsApart DEF Reports
<1>4. Life(o, seen["reg"], p, uid) /\ o \in Objs
  <2>1. CASE p = Idle
    BY <1>1, <2>1, TypesOf, LifeEnd DEF Types
  <2>2. CASE p # Idle
    BY <1>1, <2>2, TypesOf, LifeWork DEF Types, Reports
  <2> QED
    BY <2>1, <2>2, TypesOf
<1>5. obj' = [obj EXCEPT !["reg"] = o]
  BY <1>1, AtKey, KeysFacts DEF Types
<1>6. UNCHANGED <<seen, uid, dc, namespace, adopt>>
  BY DEF world
<1>7. w.ops \in RegOps \cup TaskOps /\ w.ops # <<>>
  BY <1>1
<1>8. CASE w.ops \in {<<"createCluster">>, <<"updateCluster">>}
  <2>1. w.view.fin /\ ~w.view.deleting
    BY <1>1, <1>8 DEF Calls
  <2>2. o.uid = w.view.uid /\ o.fin /\ Exists(o)
    BY <1>1, <2>1, TypesOf DEF Life, Live, Exists
  <2>3. PICK n \in Nat \ {0} : cluster' = Numbered(n, requiredCluster(w.view))
    <3>1. CASE w.ops = <<"createCluster">>
      BY <1>1, <1>7, <3>1, EffectIs DEF Types
    <3>2. CASE w.ops = <<"updateCluster">>
      <4>1. w.found \in Records
        BY <1>1, <3>2 DEF Calls
      <4>2. w.found.id \in Nat \ {0}
        BY <4>1 DEF Records
      <4> QED
        BY <1>7, <3>2, <4>2, EffectIs
    <3> QED
      BY <1>8, <3>1, <3>2
  <2>4. cluster' \in Records /\ cluster'.id = n /\ cluster'.owner = w.view.uid
    BY <1>1, <2>3, NumberedIs
  <2>5. cluster' # NoCluster
    BY <2>4 DEF NoCluster
  <2>6. RegFacts(o, p, cluster')
    BY <1>3, <2>2, <2>4 DEF RegFacts
  <2>7. tasks' = tasks /\ lost' = lost /\ namespace
    BY <1>7, <1>8, EffectIs
  <2>8. nextID' \in Nat \ {0} /\ nextID <= nextID'
    <3>1. nextID' \in {nextID, nextID + 1}
      BY <1>7, <1>8, EffectIs
    <3> QED
      BY <1>1, <3>1 DEF Types
  <2> QED
    BY <1>3, <1>4, <1>5, <1>6, <2>4, <2>5, <2>6, <2>7, <2>8, RegStep
<1>9. CASE w.ops = <<"deleteCluster">>
  <2>1. cluster' = NoCluster /\ tasks' = {} /\ lost' = lost \cup Missing(tasks) /\ nextID' = nextID
    BY <1>7, <1>9, EffectIs
  <2>2. RegFacts(o, p, cluster')
    BY <2>1 DEF RegFacts
  <2>3. nextID' \in Nat \ {0} /\ nextID <= nextID'
    BY <1>1, <2>1 DEF Types
  <2> QED
    BY <1>3, <1>4, <1>5, <1>6, <2>1, <2>2, <2>3, RegStep
<1> QED
  BY <1>2, <1>8, <1>9

\* The Manager takes a call of the task's controller.
LEMMA TaskCall ==
  ASSUME IInv, work["task"] # Idle, work["task"].ops # <<>>, Head(work["task"].ops) \in ManagerOps,
         Accepted("task", work["task"]), Effect("task", work["task"]),
         NEW p \in {Idle} \cup Plans(TaskOps), work' = [work EXCEPT !["task"] = p], Reports(work["task"], p),
         p # Idle => p.new.id \in (IF work["task"].ops = <<"createTask">> THEN {nextID, work["task"].new.id}
                                   ELSE {work["task"].new.id}),
         UNCHANGED <<obj, seen, world, uid>>
  PROVE IInv'
<1> DEFINE w == work["task"]
<1> DEFINE o == obj["task"]
<1> DEFINE s == seen["task"]
<1>1. Types /\ ManagerFacts /\ w \in Plans(TaskOps) /\ w.view \in Live /\ Calls(w) /\ w.ops \in TaskOps
  BY TypesOf DEF Plans
<1>2. w.ops \in {<<"createTask">>, <<"updateTask">>, <<"deleteTask">>}
  <2>1. w.ops \in RegOps \cup TaskOps
    BY <1>1
  <2>2. w.ops # <<"addFinalizer">> /\ w.ops # <<"removeFinalizer">> /\ w.ops # <<"annotate">>
        /\ w.ops # <<"annotate", "updateTask">>
    BY <2>1, HeadTail DEF ManagerOps
  <2> QED
    BY <1>1, <2>2 DEF TaskOps
<1>3. p # Idle => Calls(p)
  BY CallsNone DEF Reports
<1>4. /\ Life(o, s, w, uid) /\ o \in Objs /\ s \in Objs
      /\ TaskFacts(o, s, w, tasks, lost, namespace, adopt)
  BY TypesOf
<1>5. Life(o, s, p, uid)
  <2>1. CASE p = Idle
    BY <1>1, <1>4, <2>1, LifeEnd DEF Types
  <2>2. CASE p # Idle
    BY <1>1, <1>4, <2>2, LifeWork DEF Types, Reports
  <2> QED
    BY <2>1, <2>2
<1>6. obj' = [obj EXCEPT !["task"] = o]
  BY <1>1, AtKey, KeysFacts DEF Types
<1>7. UNCHANGED <<seen, uid, dc, namespace, adopt>>
  BY DEF world
<1>8. w.ops \in RegOps \cup TaskOps /\ w.ops # <<>>
  BY <1>1
<1>9. CASE w.ops = <<"createTask">>
  <2>1. /\ namespace /\ cluster.id = w.found.id /\ tasks = {}
        /\ cluster' = cluster /\ tasks' = {Numbered(nextID, requiredTask(w.view))}
        /\ lost' = lost /\ nextID' = nextID + 1
    BY <1>8, <1>9, EffectIs
  <2> DEFINE t == Numbered(nextID, requiredTask(w.view))
  <2>2. t \in Records /\ t.id = nextID /\ t.owner = w.view.uid
    BY <1>1, NumberedIs DEF Types
  <2> HIDE DEF t
  <2>3. tasks' = {t}
    BY <2>1 DEF t
  <2>4. w.view.fin /\ ~w.view.deleting /\ w.found.id # 0
    BY <1>1, <1>9 DEF Calls
  <2>5. cluster # NoCluster
    BY <2>1, <2>4 DEF NoCluster
  <2>6. p # Idle => p.new.id \in {t.id, w.new.id}
    BY <1>9, <2>2
  <2>7. TaskFacts(o, s, p, {t}, lost, namespace, adopt)
    <3>1. TaskFacts(o, s, w, {}, lost, namespace, adopt) /\ namespace = TRUE
      BY <1>4, <1>1, <2>1 DEF Types
    <3> QED
      BY <1>1, <1>4, <2>2, <2>4, <2>6, <3>1, TaskCreate
  <2>8. nextID' \in Nat \ {0} /\ t.id < nextID'
    BY <1>1, <2>1, <2>2 DEF Types
  <2> QED
    BY <1>3, <1>4, <1>5, <1>6, <1>7, <2>1, <2>2, <2>3, <2>5, <2>7, <2>8, TaskStep
<1>10. CASE w.ops = <<"updateTask">>
  <2>1. /\ \E t \in tasks : t.id = w.found.id
        /\ cluster' = cluster /\ tasks' = {Numbered(w.found.id, requiredTask(w.view))}
        /\ lost' = lost /\ nextID' = nextID
    BY <1>8, <1>10, EffectIs
  <2>2. PICK t \in tasks : t.id = w.found.id
    BY <2>1
  <2>3. w.found.id \in Nat \ {0} /\ w.found.id < nextID /\ cluster # NoCluster
    BY <1>1, <2>2 DEF Types, Records, ManagerFacts
  <2> DEFINE x == Numbered(w.found.id, requiredTask(w.view))
  <2>4. x \in Records /\ x.id = w.found.id /\ x.owner = w.view.uid
    BY <1>1, <2>3, NumberedIs
  <2> HIDE DEF x
  <2>5. tasks' = {x}
    BY <2>1 DEF x
  <2>6. w.view.fin /\ ~w.view.deleting
    BY <1>1, <1>10 DEF Calls
  <2>7. p # Idle => p.new.id = w.new.id
    BY <1>10
  <2>8. TaskFacts(o, s, p, {x}, lost, namespace, adopt)
    BY <1>1, <1>4, <2>2, <2>4, <2>6, <2>7, TaskUpdate
  <2>9. nextID' \in Nat \ {0} /\ x.id < nextID'
    BY <1>1, <2>1, <2>3, <2>4 DEF Types
  <2> QED
    BY <1>3, <1>4, <1>5, <1>6, <1>7, <2>1, <2>3, <2>4, <2>5, <2>8, <2>9, TaskStep
<1>11. CASE w.ops = <<"deleteTask">>
  <2>1. /\ \E t \in tasks : t.id = w.found.id
        /\ cluster' = cluster /\ tasks' = {t \in tasks : t.id # w.found.id}
        /\ lost' = lost /\ nextID' = nextID
    BY <1>8, <1>11, EffectIs
  <2>2. PICK t \in tasks : t.id = w.found.id
    BY <2>1
  <2>3. p # Idle => p.new.id = w.new.id
    BY <1>11
  <2>4. TaskFacts(o, s, p, tasks', lost, namespace, adopt)
    BY <1>1, <1>4, <1>11, <2>1, <2>2, <2>3, TaskDelete
  <2>5. /\ tasks' \subseteq Records /\ (tasks' # {} => cluster # NoCluster)
        /\ nextID' \in Nat \ {0} /\ \A y \in tasks' : y.id < nextID'
    BY <1>1, <2>1 DEF Types, ManagerFacts
  <2> QED
    BY <1>3, <1>4, <1>5, <1>6, <1>7, <2>1, <2>4, <2>5, TaskStep
<1> QED
  BY <1>2, <1>9, <1>10, <1>11

LEMMA OpIs ==
  ASSUME IInv, NEW k \in Keys, work[k] # Idle, work[k].ops # <<>>
  PROVE /\ Head(work[k].ops) \in Texts /\ Tail(work[k].ops) \in OpsOf(k)
        /\ Head(work[k].ops) \in ManagerOps => Tail(work[k].ops) = <<>>
        /\ Head(work[k].ops) \in {"createCluster", "createTask"} <=>
             work[k].ops \in {<<"createCluster">>, <<"createTask">>}
<1> DEFINE ops == work[k].ops
<1>1. ops \in RegOps \cup TaskOps /\ ops \in OpsOf(k) /\ <<>> \in OpsOf(k)
  BY AtWork DEF Plans
<1> HIDE DEF ops
<1>2. ops # <<>>
  BY DEF ops
<1>3. ops = <<"annotate", "updateTask">> => Tail(ops) = <<"updateTask">> /\ k = "task" /\ Head(ops) = "annotate"
  <2>1. <<"annotate", "updateTask">> \notin RegOps
    BY OpsApart DEF RegOps
  <2>2. ops = <<"annotate", "updateTask">> => k = "task"
    BY <1>1, <2>1, KeysFacts DEF OpsOf
  <2> QED
    BY <1>1, <1>2, <2>2, HeadTail
<1>4. Tail(ops) \in OpsOf(k)
  BY <1>1, <1>2, <1>3, HeadTail, OpsFacts DEF OpsOf
<1>5. Head(ops) \in Texts
  <2>1. \/ ops = <<"addFinalizer">> \/ ops = <<"removeFinalizer">> \/ ops = <<"createCluster">>
        \/ ops = <<"updateCluster">> \/ ops = <<"deleteCluster">> \/ ops = <<"createTask">>
        \/ ops = <<"updateTask">> \/ ops = <<"deleteTask">>
        \/ ops \in {<<"annotate">>, <<"annotate", "updateTask">>}
    BY <1>1, <1>2 DEF RegOps, TaskOps
  <2>2. Head(ops) \in {"addFinalizer", "removeFinalizer", "createCluster", "updateCluster", "deleteCluster",
                      "createTask", "updateTask", "deleteTask", "annotate"}
    BY <1>1, <1>2, <2>1, HeadTail
  <2> HIDE DEF ops
  <2> QED
    BY <2>2 DEF Texts
<1>6. Head(ops) \in ManagerOps => Tail(ops) = <<>>
  BY <1>1, <1>2, <1>3, HeadTail DEF ManagerOps
<1>7. Head(ops) \in {"createCluster", "createTask"} <=> ops \in {<<"createCluster">>, <<"createTask">>}
  BY <1>1, <1>2, HeadTail
<1> QED
  BY <1>4, <1>5, <1>6, <1>7 DEF ops

\* A call with an effect, whose answer arrives or not.
LEMMA EffectStep ==
  ASSUME IInv, NEW k \in Keys, AtOp(k, ManagerOps), Accepted(k, work[k]), Effect(k, work[k]),
         NEW p \in {Idle} \cup Plans(OpsOf(k)), work' = [work EXCEPT ![k] = p], Reports(work[k], p),
         p # Idle => p.new.id = work[k].new.id \/ (work[k].ops \in {<<"createCluster">>, <<"createTask">>} /\ p.new.id = nextID),
         UNCHANGED <<obj, seen, world, uid>>
  PROVE IInv'
<1>1. work[k] # Idle /\ work[k].ops # <<>> /\ Head(work[k].ops) \in ManagerOps
  BY DEF AtOp
<1>2. CASE k = "reg"
  BY <1>1, <1>2, RegCall DEF OpsOf
<1>3. CASE k = "task"
  <2>1. work["task"].ops # <<"createCluster">>
    BY <1>1, <1>3, TypesOf DEF Plans, TaskOps
  <2> QED
    BY <1>1, <1>3, <2>1, TaskCall DEF OpsOf
<1> QED
  BY <1>2, <1>3, KeysFacts

LEMMA CallManagerStep ==
  ASSUME IInv, NEW k \in Keys, CallManager(k)
  PROVE IInv'
<1> DEFINE w == work[k]
<1>1. w # Idle /\ w.ops # <<>> /\ Head(w.ops) \in ManagerOps /\ AtOp(k, ManagerOps)
  BY DEF CallManager, AtOp
<1>2. UNCHANGED <<obj, seen, world, uid>>
  BY DEF CallManager, counters
<1>3. CASE Accepted(k, w)
  <2>1. Effect(k, w) /\ Succeeds(k, w)
    BY <1>3 DEF CallManager
  <2>2. PICK p \in Plans(OpsOf(k)) :
          /\ work' = [work EXCEPT ![k] = p] /\ p.view = w.view /\ p.ops = Tail(w.ops)
          /\ p.new.id = IF Head(w.ops) \in {"createCluster", "createTask"} THEN nextID ELSE w.new.id
    BY <1>1, <2>1, OpIs, AtWork, SucceedsIs, TypesOf
  <2>3. Reports(w, p)
    BY <1>1, <2>2, OpIs DEF Reports
  <2>4. p.new.id = w.new.id \/ (w.ops \in {<<"createCluster">>, <<"createTask">>} /\ p.new.id = nextID)
    BY <1>1, <2>2, OpIs
  <2> QED
    BY <1>1, <1>2, <1>3, <2>1, <2>2, <2>3, <2>4, EffectStep
<1>4. CASE ~Accepted(k, w)
  <2>1. Fails(k, w, Head(w.ops), ~BadRequest(w)) /\ UNCHANGED <<manager, lost>>
    BY <1>4 DEF CallManager
  <2>2. BadRequest(w) \in BOOLEAN
    BY DEF BadRequest
  <2> QED
    BY <1>1, <1>2, <2>1, <2>2, OpIs, FailsStep
<1> QED
  BY <1>3, <1>4

LEMMA CallManagerLostStep ==
  ASSUME IInv, NEW k \in Keys, CallManagerLost(k)
  PROVE IInv'
<1> DEFINE w == work[k]
<1>1. w # Idle /\ w.ops # <<>> /\ Head(w.ops) \in ManagerOps /\ AtOp(k, ManagerOps)
  BY DEF CallManagerLost, AtOp
<1>2. UNCHANGED <<obj, seen, world, uid>> /\ Fails(k, w, Head(w.ops), TRUE)
  BY DEF CallManagerLost, counters
<1>3. Head(w.ops) \in Texts
  BY <1>1, OpIs
<1>4. CASE UNCHANGED <<manager, lost>>
  BY <1>1, <1>2, <1>3, <1>4, FailsStep
<1>5. CASE Accepted(k, w) /\ Effect(k, w)
  <2>1. PICK p \in {Idle} \cup Plans(OpsOf(k)) :
          /\ work' = [work EXCEPT ![k] = p] /\ Reports(work[k], p)
          /\ p # Idle => p.new.id = work[k].new.id /\ Calls(p)
    BY <1>1, <1>2, <1>3, AtWork, FailsIs, TypesOf
  <2> QED
    BY <1>1, <1>2, <1>5, <2>1, EffectStep
<1> QED
  BY <1>4, <1>5 DEF CallManagerLost

\* A controller writes its object.
LEMMA ObjectStep ==
  ASSUME IInv, NEW k \in Keys, NEW o \in Objs, NEW p \in {Idle} \cup Plans(OpsOf(k)),
         obj' = [obj EXCEPT ![k] = o], work' = [work EXCEPT ![k] = p],
         Life(o, seen[k], p, uid), p # Idle => Calls(p),
         k = "reg" => RegFacts(o, p, cluster),
         k = "task" => TaskFacts(o, seen[k], p, tasks, lost, namespace, adopt),
         UNCHANGED <<seen, manager, world, lost, uid>>
  PROVE IInv'
<1>1. Types /\ ManagerFacts
  BY TypesOf
<1>2. /\ UNCHANGED <<seen, uid, dc, namespace, adopt, cluster, tasks, lost, nextID>>
      /\ cluster' \in {NoCluster} \cup Records /\ (~namespace => cluster' = NoCluster)
      /\ tasks' \subseteq Records /\ (tasks' # {} => cluster' # NoCluster)
      /\ nextID' \in Nat \ {0} /\ nextID <= nextID' /\ \A t \in tasks' : t.id < nextID'
  BY <1>1 DEF Types, ManagerFacts, manager, world
<1>3. CASE k = "reg"
  <2>1. p \in {Idle} \cup Plans(RegOps) /\ RegFacts(o, p, cluster')
    BY <1>2, <1>3 DEF OpsOf
  <2> QED
    BY <1>2, <1>3, <2>1, RegStep
<1>4. CASE k = "task"
  <2>1. p \in {Idle} \cup Plans(TaskOps) /\ TaskFacts(o, seen["task"], p, tasks', lost, namespace, adopt)
    BY <1>2, <1>4 DEF OpsOf
  <2> QED
    BY <1>2, <1>4, <2>1, TaskStep
<1> QED
  BY <1>3, <1>4, KeysFacts

PatchOps == {"addFinalizer", "removeFinalizer", "annotate"}

\* What is known at the moment of a patch that is accepted.
LEMMA AtPatch ==
  ASSUME IInv, NEW k \in Keys, work[k] # Idle, obj[k] = work[k].view
  PROVE /\ obj[k] \in Live /\ obj[k] \in Objs /\ seen[k] \in Objs /\ uid \in Nat
        /\ Life(obj[k], seen[k], work[k], uid)
        /\ k = "reg" => RegFacts(obj[k], work[k], cluster)
        /\ k = "task" => TaskFacts(obj[k], seen[k], work[k], tasks, lost, namespace, adopt)
<1>1. obj[k] \in Objs /\ seen[k] \in Objs /\ uid \in Nat /\ Life(obj[k], seen[k], work[k], uid)
  BY TypesOf, KeysFacts DEF Types
<1>2. obj[k] \in Live
  BY AtWork
<1>3. k = "reg" => RegFacts(obj[k], work[k], cluster)
  BY TypesOf
<1>4. k = "task" => TaskFacts(obj[k], seen[k], work[k], tasks, lost, namespace, adopt)
  BY TypesOf
<1> QED
  BY <1>1, <1>2, <1>3, <1>4

LEMMA AddFinalizerStep ==
  ASSUME IInv, NEW k \in Keys, work[k] # Idle, work[k].ops = <<"addFinalizer">>, obj[k] = work[k].view,
         obj' = [obj EXCEPT ![k] = [obj[k] EXCEPT !.fin = TRUE]], End(k),
         UNCHANGED <<seen, manager, world, lost, uid>>
  PROVE IInv'
<1> DEFINE o == obj[k]
<1> DEFINE x == [o EXCEPT !.fin = TRUE]
<1> DEFINE w == work[k]
<1> DEFINE s == seen[k]
<1>1. /\ o \in Live /\ s \in Objs /\ uid \in Nat /\ Life(o, s, w, uid)
      /\ k = "reg" => RegFacts(o, w, cluster)
      /\ k = "task" => TaskFacts(o, s, w, tasks, lost, namespace, adopt)
  BY AtPatch
<1>2. ~o.fin
  BY AtWork DEF Calls
<1>3. x \in Live
  BY <1>1 DEF Live
<1>4. x.uid = o.uid /\ x.deleting = o.deleting /\ x.id = o.id
  BY <1>1 DEF Live
<1>5. x.fin = TRUE
  BY <1>1 DEF Live
<1>6. obj' = [obj EXCEPT ![k] = x] /\ work' = [work EXCEPT ![k] = Idle] /\ x \in Objs
  BY <1>3 DEF End, Objs
<1> HIDE DEF x
<1>7. Life(x, s, w, uid)
  BY <1>1, <1>3, <1>4, <1>5, LifeFinalizer
<1>8. Life(x, s, Idle, uid)
  BY <1>1, <1>6, <1>7, LifeEnd
<1>9. k = "reg" => RegFacts(x, Idle, cluster)
  BY <1>1, <1>2 DEF RegFacts
<1>10. k = "task" => TaskFacts(x, s, Idle, tasks, lost, namespace, adopt)
  BY <1>1, <1>2, <1>3, <1>4, TaskFinalizer
<1> QED
  BY <1>6, <1>8, <1>9, <1>10, ObjectStep

\* The sync goes on after a patch that succeeded.
LEMMA AfterPatch ==
  ASSUME IInv, NEW k \in Keys, work[k] # Idle, work[k].ops # <<>>, Head(work[k].ops) \in PatchOps,
         Succeeds(k, work[k])
  PROVE \E p \in Plans(OpsOf(k)) :
          /\ work' = [work EXCEPT ![k] = p] /\ p.view = work[k].view /\ p.ops = Tail(work[k].ops)
          /\ Tail(work[k].ops) # <<>> => p.found = work[k].found
          /\ p.new.id = work[k].new.id
<1>1. PICK p \in Plans(OpsOf(k)) :
          /\ work' = [work EXCEPT ![k] = p] /\ p.view = work[k].view /\ p.ops = Tail(work[k].ops)
          /\ p.found = IF Tail(work[k].ops) = <<>> THEN NoTask ELSE work[k].found
          /\ p.new.id = IF Head(work[k].ops) \in {"createCluster", "createTask"} THEN nextID ELSE work[k].new.id
  BY OpIs, AtWork, SucceedsIs, TypesOf
<1>2. Head(work[k].ops) \notin {"createCluster", "createTask"}
  BY DEF PatchOps
<1> QED
  BY <1>1, <1>2

LEMMA RemoveFinalizerStep ==
  ASSUME IInv, NEW k \in Keys, work[k] # Idle, work[k].ops = <<"removeFinalizer">>, obj[k] = work[k].view,
         obj' = [obj EXCEPT ![k] = Absent], Succeeds(k, work[k]),
         UNCHANGED <<seen, manager, world, lost, uid>>
  PROVE IInv'
<1> DEFINE o == obj[k]
<1> DEFINE w == work[k]
<1> DEFINE s == seen[k]
<1>1. /\ o \in Live /\ s \in Objs /\ uid \in Nat /\ Life(o, s, w, uid) /\ w.view \in Live
      /\ k = "reg" => RegFacts(o, w, cluster)
      /\ k = "task" => TaskFacts(o, s, w, tasks, lost, namespace, adopt)
  BY AtPatch
<1>2. o.deleting
  BY AtWork DEF Calls
<1>3. w.ops # <<>> /\ Head(w.ops) = "removeFinalizer" /\ Tail(w.ops) = <<>>
  BY OpsApart
<1>4. PICK p \in Plans(OpsOf(k)) :
          work' = [work EXCEPT ![k] = p] /\ p.view = w.view /\ p.ops = <<>> /\ p.new.id = w.new.id
  BY <1>3, AfterPatch DEF PatchOps
<1>5. Absent \in Objs
  BY DEF Objs
<1>6. Life(Absent, s, w, uid)
  BY <1>1, <1>2, LifeGone
<1>7. Life(Absent, s, p, uid)
  BY <1>1, <1>4, <1>5, <1>6, LifeWork
<1>8. k = "reg" => RegFacts(Absent, p, cluster)
  BY <1>1, <1>4, OpsApart DEF RegFacts
<1>9. k = "task" => TaskFacts(Absent, s, p, tasks, lost, namespace, adopt)
  BY <1>1, <1>4, TaskGone
<1>10. Calls(p)
  BY <1>4, CallsNone
<1> QED
  BY <1>4, <1>5, <1>7, <1>8, <1>9, <1>10, ObjectStep

LEMMA AnnotateStep ==
  ASSUME IInv, NEW k \in Keys, work[k] # Idle, work[k].ops \in {<<"annotate">>, <<"annotate", "updateTask">>},
         obj[k] = work[k].view,
         obj' = [obj EXCEPT ![k] = [obj[k] EXCEPT !.ann = statusAnnotation(work[k].found)]], Succeeds(k, work[k]),
         UNCHANGED <<seen, manager, world, lost, uid>>
  PROVE IInv'
<1> DEFINE o == obj[k]
<1> DEFINE w == work[k]
<1> DEFINE s == seen[k]
<1> DEFINE a == statusAnnotation(w.found)
<1> DEFINE x == [o EXCEPT !.ann = a]
<1>1. /\ o \in Live /\ s \in Objs /\ uid \in Nat /\ Life(o, s, w, uid) /\ w.view \in Live
      /\ k = "task" => TaskFacts(o, s, w, tasks, lost, namespace, adopt)
  BY AtPatch
<1>2. k = "task"
  <2>1. <<"annotate">> \notin RegOps /\ <<"annotate", "updateTask">> \notin RegOps
    BY OpsApart DEF RegOps
  <2>2. w.ops \in OpsOf(k)
    BY AtWork DEF Plans
  <2> QED
    BY <2>1, <2>2, KeysFacts DEF OpsOf
<1>3. w.found \in Records /\ w.view.fin /\ ~w.view.deleting
  BY AtWork DEF Calls
<1>4. a \in Anns
  BY <1>3 DEF statusAnnotation, Anns, Records
<1> HIDE DEF a
<1>5. x \in Live
  BY <1>1, <1>4 DEF Live
<1>6. x.uid = o.uid /\ x.id = o.id
  BY <1>1 DEF Live
<1>7. x.fin = o.fin /\ x.deleting = o.deleting
  BY <1>1 DEF Live
<1>8. obj' = [obj EXCEPT ![k] = x] /\ x \in Objs
  BY <1>5 DEF a, Objs
<1> HIDE DEF x
<1>9. w.ops # <<>> /\ Head(w.ops) = "annotate"
  BY OpsApart
<1>10. PICK p \in Plans(OpsOf(k)) :
          /\ work' = [work EXCEPT ![k] = p] /\ p.view = w.view /\ p.ops = Tail(w.ops)
          /\ Tail(w.ops) # <<>> => p.found = w.found
          /\ p.new.id = w.new.id
  BY <1>9, AfterPatch DEF PatchOps
<1>11. p.ops = <<>> \/ (w.ops = <<"annotate", "updateTask">> /\ p.ops = <<"updateTask">> /\ p.found = w.found)
  <2>1. CASE w.ops = <<"annotate">>
    BY <1>10, <2>1
  <2>2. CASE w.ops = <<"annotate", "updateTask">>
    <3>1. Tail(w.ops) = <<"updateTask">>
      BY <2>2
    <3> QED
      BY <1>10, <2>2, <3>1, OpsApart
  <2> QED
    BY <2>1, <2>2
<1>12. Life(x, s, w, uid)
  BY <1>1, <1>5, <1>6, <1>7, LifeField
<1>13. Life(x, s, p, uid)
  BY <1>1, <1>8, <1>10, <1>12, LifeWork
<1>14. TaskFacts(x, s, w, tasks, lost, namespace, adopt)
  BY <1>1, <1>2, <1>6, <1>7, TaskField
<1>15. TaskFacts(x, s, p, tasks, lost, namespace, adopt)
  BY <1>10, <1>11, <1>14, TaskWork
<1>16. Calls(p)
  <2>1. CASE p.ops = <<>>
    BY <2>1, CallsNone
  <2>2. CASE p.ops = <<"updateTask">>
    BY <1>3, <1>10, <2>2 DEF Calls
  <2> QED
    BY <1>11, <2>1, <2>2
<1> QED
  BY <1>2, <1>8, <1>10, <1>13, <1>15, <1>16, ObjectStep

LEMMA PatchObjectStep ==
  ASSUME IInv, NEW k \in Keys, PatchObject(k)
  PROVE IInv'
<1> DEFINE w == work[k]
<1>1. w # Idle /\ w.ops # <<>> /\ Head(w.ops) \in PatchOps
  BY DEF PatchObject, AtOp, PatchOps
<1>2. UNCHANGED <<seen, manager, world, lost, uid>>
  BY DEF PatchObject, counters
<1>3. CASE obj[k] # w.view
  <2>1. Fails(k, w, Head(w.ops), TRUE) /\ UNCHANGED obj
    BY <1>3 DEF PatchObject
  <2> QED
    BY <1>1, <1>2, <2>1, OpIs, FailsStep
<1>4. CASE obj[k] = w.view
  <2>1. /\ obj' = [obj EXCEPT ![k] =
                     CASE Head(w.ops) = "addFinalizer" -> [obj[k] EXCEPT !.fin = TRUE]
                       [] Head(w.ops) = "removeFinalizer" -> Absent
                       [] Head(w.ops) = "annotate" -> [obj[k] EXCEPT !.ann = statusAnnotation(w.found)]]
        /\ IF Head(w.ops) = "addFinalizer" THEN End(k) ELSE Succeeds(k, w)
    BY <1>4 DEF PatchObject
  <2>2. w.ops \in RegOps \cup TaskOps
    BY <1>1, AtWork
  <2>3. CASE Head(w.ops) = "addFinalizer"
    <3>1. w.ops = <<"addFinalizer">>
      BY <1>1, <2>2, <2>3, HeadTail
    <3>2. obj' = [obj EXCEPT ![k] = [obj[k] EXCEPT !.fin = TRUE]] /\ End(k)
      BY <2>1, <2>3
    <3> QED
      BY <1>1, <1>2, <1>4, <3>1, <3>2, AddFinalizerStep
  <2>4. CASE Head(w.ops) = "removeFinalizer"
    <3>1. w.ops = <<"removeFinalizer">>
      BY <1>1, <2>2, <2>4, HeadTail
    <3>2. obj' = [obj EXCEPT ![k] = Absent] /\ Succeeds(k, w)
      BY <2>1, <2>4
    <3> QED
      BY <1>1, <1>2, <1>4, <3>1, <3>2, RemoveFinalizerStep
  <2>5. CASE Head(w.ops) = "annotate"
    <3>1. w.ops \in {<<"annotate">>, <<"annotate", "updateTask">>}
      BY <1>1, <2>2, <2>5, HeadTail
    <3>2. obj' = [obj EXCEPT ![k] = [obj[k] EXCEPT !.ann = statusAnnotation(w.found)]] /\ Succeeds(k, w)
      BY <2>1, <2>5
    <3> QED
      BY <1>1, <1>2, <1>4, <3>1, <3>2, AnnotateStep
  <2> QED
    BY <1>1, <2>3, <2>4, <2>5 DEF PatchOps
<1> QED
  BY <1>3, <1>4

LEMMA PatchObjectFailsStep ==
  ASSUME IInv, NEW k \in Keys, PatchObjectFails(k)
  PROVE IInv'
<1>1. work[k] # Idle /\ work[k].ops # <<>>
  BY DEF PatchObjectFails, AtOp
<1>2. UNCHANGED <<obj, seen, manager, world, lost, uid>> /\ Fails(k, work[k], Head(work[k].ops), TRUE)
  BY DEF PatchObjectFails, counters
<1> QED
  BY <1>1, <1>2, OpIs, FailsStep

\* The sync ends without a change of the object.
LEMMA EndStep ==
  ASSUME IInv, NEW k \in Keys, work[k] # Idle, End(k), UNCHANGED <<obj, seen, manager, world, lost, uid>>
  PROVE IInv'
<1>1. Reports(work[k], Idle)
  BY DEF Reports
<1>2. work' = [work EXCEPT ![k] = Idle]
  BY DEF End
<1> QED
  BY <1>1, <1>2, ReportStep

LEMMA UpdateStatusStep ==
  ASSUME IInv, NEW k \in Keys, updateStatus(k)
  PROVE IInv'
<1> DEFINE w == work[k]
<1> DEFINE o == obj[k]
<1> DEFINE s == seen[k]
<1>1. w # Idle /\ End(k) /\ UNCHANGED <<seen, manager, world, lost, uid>>
  BY DEF updateStatus, counters
<1>2. CASE UNCHANGED obj
  BY <1>1, <1>2, EndStep
<1>3. CASE ~UNCHANGED obj
  <2>1. o = w.view /\ obj' = [obj EXCEPT ![k].id = w.new.id, ![k].cond = w.new.cond]
    BY <1>3 DEF updateStatus
  <2>2. /\ o \in Live /\ s \in Objs /\ uid \in Nat /\ Life(o, s, w, uid)
        /\ k = "reg" => RegFacts(o, w, cluster)
        /\ k = "task" => TaskFacts(o, s, w, tasks, lost, namespace, adopt)
    BY <1>1, <2>1, AtPatch
  <2> DEFINE i == w.new.id
  <2> DEFINE c == w.new.cond
  <2> DEFINE x == [o EXCEPT !.id = i, !.cond = c]
  <2>3. i \in Nat /\ c \in Conds
    BY <1>1, AtWork DEF Plans
  <2>4. obj' = [obj EXCEPT ![k] = x]
    BY <2>1
  <2> HIDE DEF i, c
  <2>5. x \in Live
    BY <2>2, <2>3 DEF Live
  <2>6. x.uid = o.uid /\ x.id = i
    BY <2>2 DEF Live
  <2>7. x.fin = o.fin /\ x.deleting = o.deleting
    BY <2>2 DEF Live
  <2> HIDE DEF x
  <2>8. Life(x, s, w, uid)
    BY <2>2, <2>5, <2>6, <2>7, LifeField
  <2>9. Life(x, s, Idle, uid) /\ x \in Objs
    BY <2>2, <2>5, <2>8, LifeEnd DEF Objs
  <2>10. k = "reg" => RegFacts(x, Idle, cluster)
    BY <2>2, <2>6, <2>7 DEF RegFacts, Exists
  <2>11. k = "task" => TaskFacts(x, s, Idle, tasks, lost, namespace, adopt)
    BY <1>1, <2>1, <2>2, <2>6, <2>7, TaskStatus DEF i
  <2>12. work' = [work EXCEPT ![k] = Idle]
    BY <1>1 DEF End
  <2> QED
    BY <1>1, <2>4, <2>9, <2>10, <2>11, <2>12, ObjectStep
<1> QED
  BY <1>2, <1>3

LEMMA UpdateStatusFailsStep ==
  ASSUME IInv, NEW k \in Keys, updateStatusFails(k)
  PROVE IInv'
<1>1. work[k] # Idle /\ End(k) /\ UNCHANGED <<obj, seen, manager, world, lost, uid>>
  BY DEF updateStatusFails, counters
<1> QED
  BY <1>1, EndStep

LEMMA AllOf ==
  ASSUME Types, ManagerFacts,
         Life(obj["reg"], seen["reg"], work["reg"], uid), Life(obj["task"], seen["task"], work["task"], uid),
         work["reg"] # Idle => Calls(work["reg"]), work["task"] # Idle => Calls(work["task"]),
         RegFacts(obj["reg"], work["reg"], cluster),
         TaskFacts(obj["task"], seen["task"], work["task"], tasks, lost, namespace, adopt)
  PROVE IInv
BY KeysFacts DEF IInv

LEMMA DeliverStep ==
  ASSUME IInv, NEW k \in Keys, Deliver(k)
  PROVE IInv'
<1>1. Types /\ ManagerFacts
  BY TypesOf
<1>2. seen' = [seen EXCEPT ![k] = obj[k]] /\ UNCHANGED <<obj, work, manager, world, lost, uid>>
  BY DEF Deliver, counters
<1>3. /\ seen' \in [Keys -> Objs]
      /\ \A j \in Keys : seen'[j] = IF j = k THEN obj[j] ELSE seen[j]
  BY <1>1, <1>2 DEF Types
<1>4. Types' /\ ManagerFacts'
  BY <1>1, <1>2, <1>3 DEF Types, ManagerFacts, manager, world
<1>5. \A j \in Keys : Life(obj[j], seen'[j], work[j], uid)
  <2> SUFFICES ASSUME NEW j \in Keys
               PROVE Life(obj[j], seen'[j], work[j], uid)
    OBVIOUS
  <2>1. obj[j] \in Objs /\ seen[j] \in Objs /\ uid \in Nat /\ Life(obj[j], seen[j], work[j], uid)
    BY TypesOf, KeysFacts DEF Types
  <2>2. Life(obj[j], obj[j], work[j], uid)
    BY <2>1, LifeSeen
  <2> QED
    BY <1>3, <2>1, <2>2
<1>6. TaskFacts(obj["task"], seen'["task"], work["task"], tasks, lost, namespace, adopt)
  <2>1. CASE k = "task"
    <3>1. namespace \in BOOLEAN /\ adopt \in BOOLEAN
      BY <1>1 DEF Types
    <3>2. TaskFacts(obj["task"], obj["task"], work["task"], tasks, lost, namespace, adopt)
      BY <3>1, TypesOf, TaskSeen
    <3> QED
      BY <1>3, <2>1, <3>2
  <2>2. CASE k # "task"
    BY <1>3, <2>2, TypesOf, KeysFacts
  <2> QED
    BY <2>1, <2>2
<1> QED
  BY <1>2, <1>4, <1>5, <1>6, TypesOf, KeysFacts DEF IInv, manager, world

LEMMA RestartStep ==
  ASSUME IInv, Restart
  PROVE IInv'
<1>1. Types /\ ManagerFacts
  BY TypesOf
<1>2. work' = [k \in Keys |-> Idle] /\ seen' = obj /\ UNCHANGED <<obj, manager, world, lost, uid>>
  BY DEF Restart, counters
<1>3. \A k \in Keys : work'[k] = Idle
  BY <1>2
<1>4. Types' /\ ManagerFacts'
  BY <1>1, <1>2, <1>3, KeysFacts DEF Types, ManagerFacts, manager, world
<1>5. \A j \in Keys : Life(obj[j], obj[j], Idle, uid)
  <2> SUFFICES ASSUME NEW j \in Keys
               PROVE Life(obj[j], obj[j], Idle, uid)
    OBVIOUS
  <2>1. obj[j] \in Objs /\ seen[j] \in Objs /\ uid \in Nat /\ Life(obj[j], seen[j], work[j], uid)
    BY TypesOf, KeysFacts DEF Types
  <2>2. Life(obj[j], obj[j], work[j], uid)
    BY <2>1, LifeSeen
  <2> QED
    BY <2>1, <2>2, LifeEnd
<1>6. TaskFacts(obj["task"], obj["task"], Idle, tasks, lost, namespace, adopt)
  <2>1. namespace \in BOOLEAN /\ adopt \in BOOLEAN
    BY <1>1 DEF Types
  <2>2. TaskFacts(obj["task"], obj["task"], work["task"], tasks, lost, namespace, adopt)
    BY <2>1, TypesOf, TaskSeen
  <2> QED
    BY <2>2, TaskEnd
<1>7. RegFacts(obj["reg"], Idle, cluster)
  BY TypesOf DEF RegFacts
<1> QED
  BY <1>2, <1>3, <1>4, <1>5, <1>6, <1>7, KeysFacts DEF IInv, manager, world

\* An object changes while its controller does what it did.
LEMMA ObjectOnly ==
  ASSUME IInv, NEW k \in Keys, NEW o \in Objs, obj' = [obj EXCEPT ![k] = o],
         Life(o, seen[k], work[k], uid),
         k = "reg" => RegFacts(o, work[k], cluster),
         k = "task" => TaskFacts(o, seen[k], work[k], tasks, lost, namespace, adopt),
         UNCHANGED <<seen, work, manager, world, lost, uid>>
  PROVE IInv'
<1>1. work[k] \in {Idle} \cup Plans(OpsOf(k)) /\ (work[k] # Idle => Calls(work[k]))
  BY AtWork
<1>2. work' = [work EXCEPT ![k] = work[k]]
  BY TypesOf DEF Types
<1> QED
  BY <1>1, <1>2, ObjectStep

LEMMA AtObject ==
  ASSUME IInv, NEW k \in Keys
  PROVE /\ obj[k] \in Objs /\ seen[k] \in Objs /\ uid \in Nat /\ Life(obj[k], seen[k], work[k], uid)
        /\ work[k] # Idle => work[k].view \in Live
        /\ k = "reg" => RegFacts(obj[k], work[k], cluster)
        /\ k = "task" => TaskFacts(obj[k], seen[k], work[k], tasks, lost, namespace, adopt)
<1>1. obj[k] \in Objs /\ seen[k] \in Objs /\ uid \in Nat /\ Life(obj[k], seen[k], work[k], uid)
  BY TypesOf, KeysFacts DEF Types
<1>2. work[k] # Idle => work[k].view \in Live
  BY AtWork
<1> QED
  BY <1>1, <1>2, TypesOf

LEMMA CreateObjectStep ==
  ASSUME IInv, NEW k \in Keys, CreateObject(k)
  PROVE IInv'
<1> DEFINE x == NewObject(uid + 1)
<1>1. /\ ~Exists(obj[k]) /\ uid' = uid + 1 /\ obj' = [obj EXCEPT ![k] = x]
      /\ UNCHANGED <<seen, work, manager, world, lost>>
  BY DEF CreateObject
<1>2. Types /\ ManagerFacts /\ uid \in Nat
  BY TypesOf DEF Types
<1>3. obj[k] = Absent
  BY <1>1, AtObject, LiveFacts DEF Objs
<1>4. x \in Objs
  BY <1>2, NewIs DEF Objs
<1> HIDE DEF x
<1>5. obj' \in [Keys -> Objs] /\ obj'[k] = x /\ \A j \in Keys : j # k => obj'[j] = obj[j]
  BY <1>1, <1>2, <1>4, AtKey DEF Types
<1>6. Types' /\ ManagerFacts'
  BY <1>1, <1>2, <1>5 DEF Types, ManagerFacts, manager, world
<1>7. \A j \in Keys : Life(obj'[j], seen[j], work[j], uid + 1)
  <2> SUFFICES ASSUME NEW j \in Keys
               PROVE Life(obj'[j], seen[j], work[j], uid + 1)
    OBVIOUS
  <2>1. CASE j = k
    <3>1. Life(x, seen[k], work[k], uid + 1)
      BY <1>2, <1>3, AtObject, LifeNew DEF x
    <3> QED
      BY <1>5, <2>1, <3>1
  <2>2. CASE j # k
    <3>1. Life(obj[j], seen[j], work[j], uid + 1)
      BY AtObject, LifeBound
    <3> QED
      BY <1>5, <2>2, <3>1
  <2> QED
    BY <2>1, <2>2
<1>8. RegFacts(obj'["reg"], work["reg"], cluster)
  <2>1. CASE k = "reg"
    <3>1. cluster = NoCluster
      BY <1>1, <2>1, TypesOf DEF RegFacts
    <3> QED
      BY <3>1 DEF RegFacts
  <2>2. CASE k # "reg"
    BY <1>5, <2>2, TypesOf, KeysFacts
  <2> QED
    BY <2>1, <2>2
<1>9. TaskFacts(obj'["task"], seen["task"], work["task"], tasks, lost, namespace, adopt)
  <2>1. CASE k = "task"
    <3>1. TaskFacts(Absent, seen["task"], work["task"], tasks, lost, namespace, adopt)
      BY <1>3, <2>1, TypesOf
    <3>2. TaskFacts(x, seen["task"], work["task"], tasks, lost, namespace, adopt)
      BY <1>2, <3>1, TaskNew DEF x
    <3> QED
      BY <1>5, <2>1, <3>2
  <2>2. CASE k # "task"
    BY <1>5, <2>2, TypesOf, KeysFacts
  <2> QED
    BY <2>1, <2>2
<1> QED
  BY <1>1, <1>6, <1>7, <1>8, <1>9, TypesOf, KeysFacts DEF IInv, manager, world

LEMMA DeleteObjectStep ==
  ASSUME IInv, NEW k \in Keys, DeleteObject(k)
  PROVE IInv'
<1> DEFINE o == obj[k]
<1>1. /\ Exists(o) /\ UNCHANGED <<seen, work, manager, world, lost, uid>>
      /\ obj' = [obj EXCEPT ![k] = IF o.fin THEN [o EXCEPT !.deleting = TRUE] ELSE Absent]
  BY DEF DeleteObject
<1>2. o \in Live
  BY <1>1, AtObject, LiveFacts
<1>3. CASE o.fin
  <2> DEFINE x == [o EXCEPT !.deleting = TRUE]
  <2>1. x \in Live
    BY <1>2 DEF Live
  <2>2. x.uid = o.uid /\ x.id = o.id
    BY <1>2 DEF Live
  <2>3. x.fin = o.fin
    BY <1>2 DEF Live
  <2>4. x.deleting
    BY <1>2 DEF Live
  <2>5. obj' = [obj EXCEPT ![k] = x] /\ x \in Objs
    BY <1>1, <1>3, <2>1 DEF Objs
  <2> HIDE DEF x
  <2>6. Life(x, seen[k], work[k], uid)
    BY <1>2, <2>1, <2>2, <2>3, <2>4, AtObject, LifeField
  <2>7. k = "reg" => RegFacts(x, work[k], cluster)
    BY <2>2, <2>3, AtObject DEF RegFacts, Exists
  <2>8. k = "task" => TaskFacts(x, seen[k], work[k], tasks, lost, namespace, adopt)
    BY <2>2, <2>3, AtObject, TaskField
  <2> QED
    BY <1>1, <2>5, <2>6, <2>7, <2>8, ObjectOnly
<1>4. CASE ~o.fin
  <2>1. obj' = [obj EXCEPT ![k] = Absent] /\ Absent \in Objs
    BY <1>1, <1>4 DEF Objs
  <2>2. Life(Absent, seen[k], work[k], uid)
    BY <1>2, <1>4, AtObject, LifeGone
  <2>3. k = "reg" => RegFacts(Absent, work[k], cluster)
    BY <1>4, AtObject DEF RegFacts
  <2>4. k = "task" => TaskFacts(Absent, seen[k], work[k], tasks, lost, namespace, adopt)
    BY <1>2, <1>4, AtObject, TaskGone
  <2> QED
    BY <1>1, <2>1, <2>2, <2>3, <2>4, ObjectOnly
<1> QED
  BY <1>3, <1>4

LEMMA EditTaskStep ==
  ASSUME IInv, EditTask
  PROVE IInv'
<1> DEFINE k == "task"
<1> DEFINE o == obj[k]
<1> DEFINE i == o.spec + 1
<1> DEFINE x == [o EXCEPT !.spec = i]
<1>1. Exists(o) /\ UNCHANGED <<seen, work, manager, world, lost, uid>> /\ obj' = [obj EXCEPT ![k] = x]
  BY DEF EditTask
<1>2. k \in Keys
  BY KeysFacts
<1>3. o \in Live
  BY <1>1, <1>2, AtObject, LiveFacts
<1>4. i \in Nat
  BY <1>3 DEF Live
<1> HIDE DEF i
<1>5. x \in Live
  BY <1>3, <1>4 DEF Live
<1>6. x.uid = o.uid /\ x.id = o.id
  BY <1>3 DEF Live
<1>7. x.fin = o.fin /\ x.deleting = o.deleting
  BY <1>3 DEF Live
<1> HIDE DEF x
<1>8. Life(x, seen[k], work[k], uid) /\ x \in Objs
  BY <1>2, <1>3, <1>5, <1>6, <1>7, AtObject, LifeField DEF Objs
<1>9. TaskFacts(x, seen[k], work[k], tasks, lost, namespace, adopt)
  BY <1>2, <1>6, <1>7, AtObject, TaskField
<1> QED
  BY <1>1, <1>2, <1>8, <1>9, ObjectOnly

LEMMA DatacenterChangesStep ==
  ASSUME IInv, DatacenterChanges
  PROVE IInv'
<1>1. Types /\ ManagerFacts
  BY TypesOf
<1>2. UNCHANGED <<obj, seen, work, manager, namespace, adopt, lost, uid>>
  BY DEF DatacenterChanges
<1>3. dc' \in [available : BOOLEAN, token : Nat]
  <2>1. dc \in [available : BOOLEAN, token : Nat]
    BY <1>1 DEF Types
  <2>2. CASE dc' = [dc EXCEPT !.token = @ + 1]
    BY <2>1, <2>2
  <2>3. CASE dc' = [dc EXCEPT !.available = TRUE]
    BY <2>1, <2>3
  <2> QED
    BY <2>2, <2>3 DEF DatacenterChanges
<1>4. Types' /\ ManagerFacts'
  BY <1>1, <1>2, <1>3 DEF Types, ManagerFacts, manager
<1> QED
  BY <1>2, <1>4, TypesOf, KeysFacts DEF IInv, manager

\* The Manager loses its tasks, or all it has.
LEMMA RemovedStep ==
  ASSUME IInv, tasks' = {}, cluster' \in {cluster, NoCluster}, namespace' \in BOOLEAN,
         namespace' => namespace, ~namespace' => cluster' = NoCluster,
         lost \subseteq lost', namespace' => Missing(tasks) \subseteq lost',
         UNCHANGED <<obj, seen, work, nextID, dc, adopt, uid>>
  PROVE IInv'
<1>1. Types /\ ManagerFacts
  BY TypesOf
<1>2. Types' /\ ManagerFacts'
  BY <1>1 DEF Types, ManagerFacts
<1>3. RegFacts(obj["reg"], work["reg"], cluster')
  BY TypesOf DEF RegFacts
<1>4. TaskFacts(obj["task"], seen["task"], work["task"], {}, lost', namespace', adopt)
  <2>1. namespace' => (tasks # {} /\ Exists(obj["task"]) => obj["task"].uid \in lost')
    BY DEF Missing, Exists
  <2>2. namespace \in BOOLEAN
    BY <1>1 DEF Types
  <2> QED
    BY <2>1, <2>2, TypesOf, TaskRemoved
<1> QED
  BY <1>2, <1>3, <1>4, TypesOf, KeysFacts DEF IInv

LEMMA OthersStep ==
  ASSUME IInv, OthersDeleteTask \/ OthersDeleteCluster \/ ManagerUninstalled
  PROVE IInv'
<1>1. Types /\ ManagerFacts
  BY TypesOf
<1>2. CASE OthersDeleteTask
  <2>1. /\ tasks' = {} /\ cluster' = cluster /\ namespace' = namespace /\ lost' = lost \cup Missing(tasks)
        /\ UNCHANGED <<obj, seen, work, nextID, dc, adopt, uid>>
    BY <1>2 DEF OthersDeleteTask, world
  <2>2. namespace' \in BOOLEAN /\ (~namespace' => cluster' = NoCluster)
    BY <1>1, <2>1 DEF Types, ManagerFacts
  <2> QED
    BY <2>1, <2>2, RemovedStep
<1>3. CASE OthersDeleteCluster
  <2>1. /\ tasks' = {} /\ cluster' = NoCluster /\ namespace' = namespace
        /\ lost \subseteq lost' /\ Missing(tasks) \subseteq lost'
        /\ UNCHANGED <<obj, seen, work, nextID, dc, adopt, uid>>
    BY <1>3 DEF OthersDeleteCluster, world
  <2>2. namespace' \in BOOLEAN
    BY <1>1, <2>1 DEF Types
  <2> QED
    BY <2>1, <2>2, RemovedStep
<1>4. CASE ManagerUninstalled
  <2>1. /\ tasks' = {} /\ cluster' = NoCluster /\ namespace' = FALSE /\ lost' = lost
        /\ UNCHANGED <<obj, seen, work, nextID, dc, adopt, uid>>
    BY <1>4 DEF ManagerUninstalled
  <2> QED
    BY <2>1, RemovedStep
<1> QED
  BY <1>2, <1>3, <1>4

-----------------------------------------------------------------------------
(* The invariant holds. *)

LEMMA InitObjects ==
  ASSUME Init
  PROVE /\ obj["reg"] \in Live /\ obj["reg"].uid = 1 /\ obj["reg"].fin
        /\ obj["task"] \in Objs /\ obj["task"].uid <= 2
        /\ Exists(obj["task"]) => obj["task"].fin = FALSE /\ obj["task"].id = 0
        /\ obj \in [Keys -> Objs]
<1>1. PICK task \in {NewObject(2), Absent} : obj = [reg |-> [NewObject(1) EXCEPT !.fin = TRUE], task |-> task]
  BY DEF Init
<1>2. /\ NewObject(1) \in Live /\ NewObject(1).uid = 1
      /\ NewObject(2) \in Live /\ NewObject(2).uid = 2 /\ NewObject(2).fin = FALSE /\ NewObject(2).id = 0
  <2>1. NewObject(0 + 1) \in Live /\ NewObject(0 + 1).uid = 0 + 1
    BY NewIs
  <2>2. /\ NewObject(1 + 1) \in Live /\ NewObject(1 + 1).uid = 1 + 1 /\ NewObject(1 + 1).fin = FALSE
        /\ NewObject(1 + 1).id = 0
    BY NewIs
  <2>3. 0 + 1 = 1 /\ 1 + 1 = 2
    OBVIOUS
  <2> QED
    BY <2>1, <2>2, <2>3
<1> DEFINE n == NewObject(1)
<1> HIDE DEF n
<1> DEFINE r == [n EXCEPT !.fin = TRUE]
<1>3. n \in Live /\ n.uid = 1
  BY <1>2 DEF n
<1>4. r \in Live
  BY <1>3 DEF Live
<1>5. r.uid = 1
  BY <1>3 DEF Live
<1>6. r.fin
  BY <1>3 DEF Live
<1>7. obj = [reg |-> r, task |-> task]
  BY <1>1 DEF n
<1> HIDE DEF r
<1>8. obj["reg"] = r /\ obj["task"] = task
  BY <1>7
<1>9. Absent \in Objs /\ Absent.uid = 0 /\ ~Exists(Absent) /\ Live \subseteq Objs
  BY DEF Absent, Objs, Exists
<1>10. /\ task \in Objs /\ task.uid <= 2
       /\ Exists(task) => task.fin = FALSE /\ task.id = 0
  <2>1. CASE task = NewObject(2)
    BY <1>2, <1>9, <2>1
  <2>2. CASE task = Absent
    BY <1>9, <2>2
  <2> QED
    BY <2>1, <2>2
<1>11. obj \in [Keys -> Objs]
  BY <1>4, <1>7, <1>9, <1>10 DEF Keys
<1> QED
  BY <1>4, <1>5, <1>6, <1>8, <1>10, <1>11

LEMMA InitManager ==
  ASSUME Init
  PROVE /\ cluster \in {NoCluster} \cup Records /\ (cluster # NoCluster => ~Real(cluster.owner))
        /\ tasks \subseteq Records /\ (\A t, x \in tasks : t = x) /\ (tasks # {} => cluster # NoCluster)
        /\ \A t \in tasks : ~Real(t.owner) /\ t.id < 3
        /\ adopt \in BOOLEAN
<1> DEFINE t == [id |-> 2, owner |-> NoOwner, hash |-> 0]
<1> DEFINE C(o) == [id |-> 1, owner |-> o, hash |-> 0]
<1>1. t \in Records /\ t.id = 2 /\ ~Real(t.owner)
  BY DEF Records, NoOwner, OtherOwner, Real
<1>2. C(NoOwner) \in Records /\ C(OtherOwner) \in Records /\ C(NoOwner) # NoCluster /\ C(OtherOwner) # NoCluster
  BY DEF Records, NoOwner, OtherOwner, NoCluster
<1>3. ~Real(C(NoOwner).owner) /\ ~Real(C(OtherOwner).owner)
  BY DEF Real
<1>4. /\ cluster \in {NoCluster, C(NoOwner), C(OtherOwner)}
      /\ tasks = {} \/ (tasks = {t} /\ cluster = C(OtherOwner))
      /\ adopt \in BOOLEAN
  <2>1. PICK l \in Legacy : cluster = l.cluster /\ tasks = l.tasks /\ adopt = l.adopt
    BY DEF Init
  <2>2. l \in {[cluster |-> NoCluster, tasks |-> {}, adopt |-> FALSE],
              [cluster |-> C(NoOwner), tasks |-> {}, adopt |-> FALSE],
              [cluster |-> C(OtherOwner), tasks |-> {t}, adopt |-> FALSE],
              [cluster |-> C(OtherOwner), tasks |-> {t}, adopt |-> TRUE]}
    BY <2>1, Zenon DEF Legacy
  <2> HIDE DEF t, C
  <2>3. CASE l = [cluster |-> NoCluster, tasks |-> {}, adopt |-> FALSE]
    <3>1. l.cluster = NoCluster /\ l.tasks = {} /\ l.adopt = FALSE
      BY <2>3
    <3> QED
      BY <2>1, <3>1
  <2>4. CASE l = [cluster |-> C(NoOwner), tasks |-> {}, adopt |-> FALSE]
    <3>1. l.cluster = C(NoOwner) /\ l.tasks = {} /\ l.adopt = FALSE
      BY <2>4
    <3> QED
      BY <2>1, <3>1
  <2>5. CASE l = [cluster |-> C(OtherOwner), tasks |-> {t}, adopt |-> FALSE]
    <3>1. l.cluster = C(OtherOwner) /\ l.tasks = {t} /\ l.adopt = FALSE
      BY <2>5
    <3> QED
      BY <2>1, <3>1
  <2>6. CASE l = [cluster |-> C(OtherOwner), tasks |-> {t}, adopt |-> TRUE]
    <3>1. l.cluster = C(OtherOwner) /\ l.tasks = {t} /\ l.adopt = TRUE
      BY <2>6
    <3> QED
      BY <2>1, <3>1
  <2> QED
    BY <2>2, <2>3, <2>4, <2>5, <2>6
<1> HIDE DEF t, C
<1> QED
  BY <1>1, <1>2, <1>3, <1>4

LEMMA InitIInv ==
  ASSUME Init
  PROVE IInv
<1>1. /\ seen = obj /\ work = [k \in Keys |-> Idle] /\ nextID = 3 /\ uid = 2 /\ namespace = TRUE
      /\ dc = [available |-> FALSE, token |-> 1] /\ lost = {}
  BY DEF Init
<1>2. work["reg"] = Idle /\ work["task"] = Idle
  BY <1>1, KeysFacts
<1>3. Types
  BY <1>1, <1>2, InitObjects, InitManager DEF Types
<1>4. ManagerFacts
  BY <1>1, InitManager DEF ManagerFacts
<1>5. Life(obj["reg"], seen["reg"], work["reg"], uid)
  BY <1>1, <1>2, InitObjects DEF Life
<1>6. Life(obj["task"], seen["task"], work["task"], uid)
  BY <1>1, <1>2, InitObjects DEF Life
<1>7. RegFacts(obj["reg"], work["reg"], cluster)
  BY <1>2, InitObjects, InitManager DEF RegFacts, Exists
<1>8. TaskFacts(obj["task"], seen["task"], work["task"], tasks, lost, namespace, adopt)
  <2>1. Exists(obj["task"]) => ~obj["task"].fin
    BY InitObjects
  <2>2. Exists(obj["task"]) => obj["task"].id = 0
    BY InitObjects
  <2> QED
    BY <1>1, <1>2, <2>1, <2>2, InitManager DEF TaskFacts
<1> QED
  BY <1>2, <1>3, <1>4, <1>5, <1>6, <1>7, <1>8, AllOf

LEMMA NextIInv ==
  ASSUME IInv, [Next]_vars
  PROVE IInv'
<1>1. CASE UNCHANGED vars
  BY <1>1, Unmoved DEF vars, counters
<1>2. ASSUME NEW k \in Keys, Sync(k)
      PROVE IInv'
  BY <1>2, StartSyncStep, StartSyncFailsStep, CallManagerStep, CallManagerLostStep, PatchObjectStep,
     PatchObjectFailsStep, UpdateStatusStep, UpdateStatusFailsStep DEF Sync
<1>3. ASSUME NEW k \in Keys, Deliver(k)
      PROVE IInv'
  BY <1>3, DeliverStep
<1>4. CASE Restart
  BY <1>4, RestartStep
<1>5. CASE Environment
  BY <1>5, CreateObjectStep, DeleteObjectStep, EditTaskStep, DatacenterChangesStep, OthersStep DEF Environment
<1> QED
  BY <1>1, <1>2, <1>3, <1>4, <1>5 DEF Next

-----------------------------------------------------------------------------
(* Theorems. *)

\* The invariant that relates the objects, the caches, the syncs under way and what the
\* Manager holds: which ids and finalizers syncFinalizer, syncManager and updateStatus of
\* either controller can have read, and what they may still call for.
THEOREM Invariance == Spec => []IInv
<1>1. Init => IInv
  BY InitIInv
<1>2. IInv /\ [Next]_vars => IInv'
  BY NextIInv
<1> QED
  BY <1>1, <1>2, PTL DEF Spec

\* The finalizer of a registration leaves no cluster behind in the Manager
\* (syncFinalizer and getScyllaDBManagerCluster of the registration's controller),
\* whatever calls fail or lose their answers and whatever the status remembers.
THEOREM RegistrationsAreCleanedUp == Spec => []NoStrayCluster
<1>1. IInv => NoStrayCluster
  <2> SUFFICES ASSUME IInv, NEW u \in Owners({c \in {cluster} : c # NoCluster})
               PROVE obj.reg.uid = u
    BY DEF NoStrayCluster
  <2>1. cluster # NoCluster /\ u = cluster.owner /\ Real(u)
    BY DEF Owners, Real
  <2> QED
    BY <2>1, TypesOf DEF RegFacts
<1> QED
  BY <1>1, Invariance, PTL

\* The finalizer of a task leaves no task behind in the Manager (syncFinalizer and
\* getScyllaDBManagerClientTask of the task's controller), if nobody has removed the
\* task of that object from the Manager before.
THEOREM TasksAreCleanedUp == Spec => []NoStrayTaskUnlessRemoved
<1>1. IInv => NoStrayTaskUnlessRemoved
  <2> SUFFICES ASSUME IInv, NEW u \in Owners(tasks)
               PROVE obj.task.uid = u \/ u \in lost
    BY DEF NoStrayTaskUnlessRemoved
  <2>1. PICK t \in tasks : u = t.owner /\ Real(u)
    BY DEF Owners, Real
  <2> QED
    BY <2>1, TypesOf DEF TaskFacts
<1> QED
  BY <1>1, Invariance, PTL

\* A task in the Manager changes hands only if it had no owner and the annotation that
\* forces adoption asks for it (syncManager of the task's controller), however long ago
\* the controller has looked.
THEOREM AdoptionIsAskedFor == Spec => AdoptedOnRequest
<1> DEFINE A == \A t \in tasks, n \in tasks' : t.id = n.id /\ t.owner # n.owner => t.owner = NoOwner /\ adopt
<1>1. IInv /\ [Next]_vars => [A]_vars
  <2> SUFFICES ASSUME IInv, Next, NEW t \in tasks, NEW n \in tasks', t.id = n.id, t.owner # n.owner
               PROVE t.owner = NoOwner /\ adopt
    OBVIOUS
  <2>1. \A x, y \in tasks : x = y
    BY TypesOf DEF TaskFacts
  <2>2. n \notin tasks
    BY <2>1
  <2>3. PICK k \in Keys : AtOp(k, ManagerOps) /\ Accepted(k, work[k]) /\ Effect(k, work[k])
    <3>1. ~(tasks' \subseteq tasks)
      BY <2>2
    <3>2. PICK k \in Keys : CallManager(k) \/ CallManagerLost(k)
      BY <3>1 DEF Next, Sync, Environment, StartSync, StartSyncFails, PatchObject, PatchObjectFails, updateStatus,
                  updateStatusFails, Deliver, Restart, CreateObject, DeleteObject, EditTask, DatacenterChanges,
                  OthersDeleteTask, OthersDeleteCluster, ManagerUninstalled, manager
    <3>3. tasks' # tasks
      BY <3>1
    <3> QED
      BY <3>2, <3>3 DEF CallManager, CallManagerLost, manager
  <2> DEFINE w == work[k]
  <2>4. w # Idle /\ w.ops # <<>> /\ Head(w.ops) \in ManagerOps
    BY <2>3 DEF AtOp
  <2>5. w.ops \in RegOps \cup TaskOps /\ w.view \in Live /\ w.ops \in OpsOf(k)
    BY <2>4, AtWork DEF Plans
  <2>6. w.ops = <<"updateTask">>
    <3>1. w.ops \in {<<"createCluster">>, <<"updateCluster">>, <<"deleteCluster">>, <<"createTask">>,
                     <<"updateTask">>, <<"deleteTask">>}
      <4>1. w.ops # <<"addFinalizer">> /\ w.ops # <<"removeFinalizer">> /\ w.ops # <<"annotate">>
            /\ w.ops # <<"annotate", "updateTask">>
        BY <2>4, <2>5, HeadTail DEF ManagerOps
      <4> QED
        BY <2>4, <2>5, <4>1 DEF RegOps, TaskOps
    <3>2. w.ops \in {<<"createCluster">>, <<"updateCluster">>} => tasks' = tasks
      BY <2>3, <2>4, <2>5, EffectIs
    <3>3. w.ops = <<"deleteCluster">> => tasks' = {}
      BY <2>3, <2>4, <2>5, EffectIs
    <3>4. w.ops = <<"createTask">> => tasks = {}
      BY <2>3, <2>4, <2>5, EffectIs
    <3>5. w.ops = <<"deleteTask">> => tasks' \subseteq tasks
      BY <2>3, <2>4, <2>5, EffectIs
    <3> QED
      BY <2>2, <3>1, <3>2, <3>3, <3>4, <3>5
  <2>7. tasks' = {Numbered(w.found.id, requiredTask(w.view))}
    BY <2>3, <2>4, <2>5, <2>6, EffectIs
  <2>8. n.id = w.found.id /\ n.owner = w.view.uid
    BY <2>7 DEF Numbered, requiredTask
  <2>9. k = "task"
    <3>1. <<"updateTask">> \notin RegOps
      BY OpsApart DEF RegOps
    <3> QED
      BY <2>5, <2>6, <3>1, KeysFacts DEF OpsOf
  <2> QED
    BY <2>4, <2>6, <2>8, <2>9, TypesOf DEF TaskFacts
<1> QED
  BY <1>1, Invariance, PTL DEF Spec, AdoptedOnRequest
=============================================================================
