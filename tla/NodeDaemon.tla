----------------------------- MODULE NodeDaemon -----------------------------
(* A controller of the node setup daemon and the NodeConfig it serves.  The *)
(* daemon of every node selected by a NodeConfig runs two of them, one for  *)
(* the storage of its node (NodeStorage) and one for its tuning             *)
(* (NodeTuning), and all of them write the status of that one object:       *)
(* a write from an older copy is refused.  This module has one controller;  *)
(* the others are writes that change nothing it looks at.                   *)
EXTENDS Naturals

VARIABLES nc,      \* the NodeConfig: its spec, and [report, tuned] of its status
          seen,    \* its spec in the daemon's informer: [want, enabled, sysctl]
          old,     \* which copies are older than nc: "cache", "sync"
          stage,   \* where its sync is
          edits,   \* how many edits of the NodeConfig are to come at most,
          faults,  \* how many faults,
          others   \* and how many status writes of the other controllers

daemon == <<nc, seen, old, stage>>
budget == <<edits, faults, others>>

Untuned == [node |-> FALSE, ids |-> {}]
Progressing == [prog |-> TRUE, deg |-> FALSE]
Clean == [prog |-> FALSE, deg |-> FALSE]

DaemonInit ==
    /\ \E enabled \in BOOLEAN :
          nc = [spec   |-> [want |-> "a", enabled |-> enabled, sysctl |-> 1],
                report |-> Progressing, tuned |-> Untuned]
    /\ seen = nc.spec /\ old = {}
    /\ stage = "idle"

(* What a write makes older, the sync being where it then is.               *)
Older(after) == {"cache"} \cup (IF after = "idle" THEN {} ELSE {"sync"})

EditNodeConfig(spec) ==
    /\ edits > 0
    /\ edits' = edits - 1
    /\ nc' = [nc EXCEPT !.spec = spec]
    /\ old' = Older(stage)
    /\ UNCHANGED <<seen, stage, faults, others>>

OthersWriteStatus ==
    /\ others > 0
    /\ others' = others - 1
    /\ old' = Older(stage)
    /\ UNCHANGED <<nc, seen, stage, edits, faults>>

ObserveNodeConfig ==
    /\ "cache" \in old
    /\ seen' = nc.spec
    /\ old' = old \ {"cache"}
    /\ UNCHANGED <<nc, stage, budget>>

(* A sync begins.  The event handlers, the rate limited retry after an      *)
(* error and, every 12 hours, the resync of the informers queue the key: a  *)
(* sync may follow at any time, and one always does.  What it reads from    *)
(* the informer may be older.                                               *)
Begin(first) ==
    /\ stage = "idle"
    /\ old' = old \cup (IF "cache" \in old THEN {"sync"} ELSE {})
    /\ stage' = first
    /\ UNCHANGED <<nc, seen, budget>>

Step(from, to) ==
    /\ stage = from
    /\ stage' = to
    /\ UNCHANGED <<nc, seen, old, budget>>

Unconditional(new) ==  \* mutant: the update carries no resource version
    /\ stage = "status" /\ stage' = "idle"
    /\ nc' = new
    /\ old' = Older("idle")
    /\ UNCHANGED <<seen, budget>>

(* UpdateStatus ends a sync; a write that changes nothing makes no new      *)
(* version.  After a conflict and after errors another sync is to follow.   *)
UpdateStatus(new) ==
    /\ stage = "status" /\ stage' = "idle"
    /\ IF "sync" \in old
       THEN nc' = nc /\ old' = old \ {"sync"}
       ELSE nc' = new /\ old' = IF new = nc THEN old ELSE Older("idle")
    /\ UNCHANGED <<seen, budget>>

Fault == faults > 0 /\ faults' = faults - 1 /\ UNCHANGED <<edits, others>>

(* The status is not written.                                               *)
StatusCallFails ==
    /\ Fault
    /\ stage = "status" /\ stage' = "idle"
    /\ old' = old \ {"sync"}
    /\ UNCHANGED <<nc, seen>>

(* The daemon starts: its informers list, and the controller begins.        *)
StartDaemon ==
    /\ Fault
    /\ seen' = nc.spec
    /\ old' = {}
    /\ stage' = "idle"
    /\ UNCHANGED nc
=============================================================================
