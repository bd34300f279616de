------------------------------- MODULE TaskPages -------------------------------
(***************************************************************************)
(* A task's way through both web front ends: a parent creates and assigns  *)
(* it on the builder, a child carries it out on the task page, over the    *)
(* same rows and the same failing network.                                 *)
(***************************************************************************)
EXTENDS TaskBuilder, ChildTask

pagesVars == <<builderVars, childVars, apiVars>>

PagesInit == ApiInit /\ BuilderInit /\ ChildInit

PagesNext ==
  \/ BuilderNext /\ UNCHANGED childVars
  \/ ChildNext /\ UNCHANGED builderVars

PagesSpec == PagesInit /\ [][PagesNext]_pagesVars

FairPages == PagesSpec /\ BuilderFairness /\ ChildFairness

-----------------------------------------------------------------------------
(* Properties. *)

PagesTypeOK == BuilderTypeOK /\ ChildTypeOK

Shown == INSTANCE Mirror WITH
  current <- IF page.id = None THEN 0 ELSE assignment[page.id].version,
  shown <- IF page.view = None THEN 0 ELSE page.view.version

(* The child's page is a mirror of its assignment: it never shows a state    *)
(* the task has not been in and never falls back to an older one, though     *)
(* answers are lost, the parent decides in between and calls overlap.        *)
PageMirrorsRow == Shown!MirrorSpec

(* No call leaves a page waiting: the builder stops saving, the child's page *)
(* stops being busy or loading.                                              *)
EveryTapIsAnswered ==
  /\ (builder.stage = "SAVING") ~> (builder.stage # "SAVING")
  /\ (page.busy \/ page.loading) ~> (~page.busy /\ ~page.loading)

(* A parent who goes on tapping gets the task assigned in spite of failures: *)
(* a retry resumes from the template the page knows.                         *)
EveryDraftArrives ==
  (builder.stage = "SAVING") ~> (\E a \in Assignments : assignment[a].status # "ABSENT")

(* An assigned task gets done: the pages offer the child a way on after each *)
(* lost call, each rejection and each load that failed.                      *)
AssignedTaskGetsDone ==
  \A a \in Cards : (assignment[a].status = "ASSIGNED") ~> (assignment[a].status = "COMPLETED")

=============================================================================
