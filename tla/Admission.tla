------------------------------ MODULE Admission ------------------------------
(* What the validating webhook admits of a ScyllaCluster (v1) and of the    *)
(* ScyllaDBDatacenter (v1alpha1) that it is translated into.  Both are      *)
(* records [gen, spec, ann, status] here.  A spec has                       *)
(*   ver    the version of all that may be changed freely,                  *)
(*   rack   the node count of one of its racks, or Absent,                  *)
(*   cpu    the CPU limit of ScyllaDB,                                      *)
(*   fixed  names, storage, and the types of Services and addresses,        *)
(*   form   how well formed the other fields are,                           *)
(* and a status [gen, rack] has the observed generation and the rack's own. *)
EXTENDS Integers

Absent == -1

NoRackStatus == [entry |-> FALSE, nodes |-> 0, leaving |-> FALSE, stale |-> TRUE]

(* "admitted" is well formed for v1 and not for v1alpha1, which also looks  *)
(* at storage capacities, the names of referenced objects, labels and       *)
(* images.                                                                  *)
Forms == {"fine", "admitted", "malformed"}

ValidateScyllaClusterSpec(spec) == spec.form # "malformed"

ValidateScyllaDBDatacenterSpec(spec) == spec.form = "fine"

validateScyllaDBCPULimitDecrease(new, old) ==
    new.spec.cpu < old.spec.cpu => new.ann = "force"

ValidateImmutableField(new, old) == new.spec.fixed = old.spec.fixed

RemovesRack(new, old) == old.spec.rack # Absent /\ new.spec.rack = Absent

StatusUpToDateIgnoringGeneration(old) == ~old.status.rack.stale  \* mutant

(* The status that tells of the rack is about the present generation.       *)
isRackStatusUpToDate(old) == old.status.gen >= old.gen /\ ~old.status.rack.stale

ReportedEmpty(old) == old.status.rack.nodes = 0 /\ ~old.status.rack.leaving

(* A rack that v1 finds no status of is not up to date ...                  *)
ValidateScyllaClusterSpecUpdate(new, old) ==
    /\ RemovesRack(new, old) =>
          old.spec.rack = 0 /\ ReportedEmpty(old) /\ isRackStatusUpToDate(old)
    /\ validateScyllaDBCPULimitDecrease(new, old)
    /\ ValidateImmutableField(new, old)

(* ... and one that v1alpha1 finds no status of may go.                     *)
ValidateScyllaDBDatacenterSpecUpdate(new, old) ==
    /\ RemovesRack(new, old) =>
          /\ old.spec.rack = 0
          /\ old.status.rack.entry => ReportedEmpty(old) /\ isRackStatusUpToDate(old)
    /\ validateScyllaDBCPULimitDecrease(new, old)
    /\ ValidateImmutableField(new, old)

ValidateScyllaClusterUpdate(new, old) ==
    ValidateScyllaClusterSpec(new.spec) /\ ValidateScyllaClusterSpecUpdate(new, old)

ValidateScyllaDBDatacenterUpdate(new, old) ==
    ValidateScyllaDBDatacenterSpec(new.spec) /\ ValidateScyllaDBDatacenterSpecUpdate(new, old)
=============================================================================
