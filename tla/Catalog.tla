------------------------------ MODULE Catalog -------------------------------
(***************************************************************************)
(* server/internal/catalog/catalog.go: the manifest of the workflows, read *)
(* and checked once when the daemon boots.                                 *)
(*                                                                         *)
(* A manifest has modules (a set of codes), schemas (a function from names *)
(* to sequences of column headers) and workflows (a sequence); a workflow  *)
(* has a sequence of inputs.  Fields that only clients use are left out.   *)
(***************************************************************************)
EXTENDS Integers, Sequences

Indices(s) == 1..Len(s)

(* The name of a schema is looked up whatever it is, but never an empty one. *)
InputIsSound(manifest, in) ==
  /\ in.name # ""
  /\ in.kind \in {"csv", "int"}
  /\ in.kind = "csv" => /\ in.schema # "" /\ in.schema \in DOMAIN manifest.schemas
                        /\ in.filename # ""
  /\ in.env # ""

InputsDiffer(inputs) ==
  \A i, j \in Indices(inputs) :
    i # j => inputs[i].name # inputs[j].name /\ inputs[i].env # inputs[j].env

Mut_TimeoutsAreSound(wf) == wf.default > 0

TimeoutsAreSound(wf) == wf.default > 0 /\ wf.max >= wf.default

WorkflowIsSound(manifest, specs, wf) ==
  /\ wf.id # ""
  /\ wf.module \in manifest.modules
  /\ wf.spec # "" /\ wf.spec \in specs
  /\ TimeoutsAreSound(wf)
  /\ \A i \in Indices(wf.inputs) : InputIsSound(manifest, wf.inputs[i])
  /\ InputsDiffer(wf.inputs)

(* index finds no problem; "specs" are the files the automation dir has.   *)
Loads(manifest, specs) ==
  LET wfs == manifest.workflows
  IN /\ \A i \in Indices(wfs) : WorkflowIsSound(manifest, specs, wfs[i])
     /\ \A i, j \in Indices(wfs) : i # j => wfs[i].id # wfs[j].id

Knows(manifest, id) == \E i \in Indices(manifest.workflows) : manifest.workflows[i].id = id

Workflow(manifest, id) ==
  manifest.workflows[CHOOSE i \in Indices(manifest.workflows) :
                       manifest.workflows[i].id = id]

HasInput(wf, name) == \E i \in Indices(wf.inputs) : wf.inputs[i].name = name
=============================================================================
