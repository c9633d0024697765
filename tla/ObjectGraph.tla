---------------------------- MODULE ObjectGraph ----------------------------
(* The vocabulary in which the controllers are described.  A controller     *)
(* reconciles one custom resource, the item "spec".  A sync runs the stages *)
(* of the controller in order; a stage prunes and applies some objects.     *)
(* What a make function renders is determined by the items it reads, so an  *)
(* object is described by those items, and two renderings are equal exactly *)
(* when they read the same states of the same items.                        *)
EXTENDS Naturals, Sequences, FiniteSets, SequencesExt, TLC

(* One object: the items that its make functions read; the option of the    *)
(* spec that asks for it ("always" when none does); the items that have to  *)
(* exist for it to be required; and whether Apply may have to delete and    *)
(* create it anew, because a field that depends on the spec is immutable.   *)
Object(reads, option, while, recreated) ==
    [reads |-> reads, option |-> option, while |-> while, recreated |-> recreated]

Plain(reads) == Object(reads, "always", {}, FALSE)

(* What a rollout means to a stage: "none" (it has no workload), "wait" (it *)
(* returns before Apply while the listed workload is not rolled out),       *)
(* "report" (it is Progressing while the applied workload is not), and      *)
(* "listed" (its Progressing condition is overwritten from the workload as  *)
(* it was listed before the stage ran).                                     *)
Workload(object, mode) == [object |-> object, mode |-> mode]

NoWorkload == Workload("none", "none")

(* A stage: the items it waits for (it reports Progressing and returns),    *)
(* the stages that have to be settled in the same sync, its workload, the   *)
(* objects it applies, in order, and whether its prune filters the objects  *)
(* that are not required out of the list it compares with.                  *)
Stage(waits, after, workload, objects, filtersNil) ==
    [waits |-> waits, after |-> after, workload |-> workload,
     objects |-> objects, filtersNil |-> filtersNil]

Apply1(object) == Stage({}, {}, NoWorkload, <<object>>, TRUE)
=============================================================================
