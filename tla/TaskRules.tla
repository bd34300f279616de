-------------------------------- MODULE TaskRules --------------------------------
(***************************************************************************)
(* The rules of packages/task-engine (rules.ts): a schedule, gates on the  *)
(* assignment and a composite of tasks, and what validateRule reports      *)
(* before a rule is activated.  An optional value is a set with at most    *)
(* one member.  A rule's ids, version, limit and target date carry nothing *)
(* that validateRule looks at.                                             *)
(***************************************************************************)
EXTENDS Integers, Sequences, FiniteSets

CONSTANT TaskTemplates  \* ids of task templates

Optional(S) == {{}} \cup {{x} : x \in S}

SCHEDULE_FREQUENCIES == {"DAILY", "WEEKLY", "WEEKDAYS", "CUSTOM"}

Years == 0 .. 18

Hours == 0 .. 23

Schedules ==
  [kind : {"once", "recurring"}, frequency : SCHEDULE_FREQUENCIES,
   days : SUBSET (1 .. 7), startDate : Optional(Int), endDate : Optional(Int)]

(* Every condition has the fields of its kind; the others mean nothing.      *)
Conditions ==
  [kind : {"AGE", "PRIOR_COMPLETION", "STREAK", "TIME_WINDOW", "PREREQUISITE"},
   minYears : Optional(Years), maxYears : Optional(Years),
   startHour : Hours, endHour : Hours]

Composites ==
  [predicate : {"ALL", "ANY", "COUNT", "SCORE", "PARENT_DECISION", "SEQUENCE"},
   n : Nat \ {0},
   children : {tasks \in Seq(TaskTemplates) : Len(tasks) >= 2}]

Rules ==
  [schedule : Optional(Schedules), conditions : Seq(Conditions),
   composite : Optional(Composites)]

-----------------------------------------------------------------------------
(* validateRule, a set of codes per part of a rule. *)

ScheduleErrors(s) ==
  {code \in {"SCHEDULE_END_BEFORE_START", "SCHEDULE_CUSTOM_MISSING_DAYS"} :
     /\ s.kind = "recurring"
     /\ \/ /\ code = "SCHEDULE_END_BEFORE_START"
           /\ \E start \in s.startDate, end \in s.endDate : end < start
        \/ /\ code = "SCHEDULE_CUSTOM_MISSING_DAYS"
           /\ s.frequency \in {"CUSTOM", "WEEKLY"} /\ s.days = {}}

ConditionErrors(c) ==
  {code \in {"AGE_CONDITION_INVERTED", "AGE_CONDITION_EMPTY", "TIME_WINDOW_INVERTED"} :
     \/ /\ code = "AGE_CONDITION_INVERTED" /\ c.kind = "AGE"
        /\ \E min \in c.minYears, max \in c.maxYears : min > max
     \/ /\ code = "AGE_CONDITION_EMPTY" /\ c.kind = "AGE"
        /\ c.minYears = {} /\ c.maxYears = {}
     \/ /\ code = "TIME_WINDOW_INVERTED" /\ c.kind = "TIME_WINDOW"
        /\ c.startHour >= c.endHour}

(* CONDITION_DUPLICATE_KIND                                                  *)
DuplicateKinds(conditions) ==
  {i \in 1 .. Len(conditions) :
     \E j \in 1 .. Len(conditions) : j < i /\ conditions[j].kind = conditions[i].kind}

Distinct(children) == {children[i] : i \in 1 .. Len(children)}

CompositeErrors(c) ==
  {code \in {"COUNT_EXCEEDS_CHILDREN", "COMPOSITE_DUPLICATE_CHILD"} :
     \/ /\ code = "COUNT_EXCEEDS_CHILDREN"
        /\ c.predicate = "COUNT" /\ c.n > Len(c.children)
     \/ /\ code = "COMPOSITE_DUPLICATE_CHILD"
        /\ Cardinality(Distinct(c.children)) # Len(c.children)}

IsValidRule(rule) ==
  /\ \A s \in rule.schedule : ScheduleErrors(s) = {}
  /\ DuplicateKinds(rule.conditions) = {}
  /\ \A i \in 1 .. Len(rule.conditions) : ConditionErrors(rule.conditions[i]) = {}
  /\ \A c \in rule.composite : CompositeErrors(c) = {}

-----------------------------------------------------------------------------
(* What the gates mean, as the comments on their schemas say it: a child of  *)
(* that age may be given the task at that hour.                              *)
Admits(c, age, hour) ==
  /\ c.kind = "AGE" =>
       (\A min \in c.minYears : min <= age) /\ (\A max \in c.maxYears : age <= max)
  /\ c.kind = "TIME_WINDOW" => c.startHour <= hour /\ hour < c.endHour

(* A rule that passes validation can be met: one child and one hour satisfy  *)
(* all of its age and time gates together, some day lies between its start   *)
(* and its end (not always a day of the week it names: validateRule does not *)
(* look), and there are as many different tasks as a COUNT asks for.         *)
Satisfiable(rule) ==
  /\ \E age \in Years, hour \in Hours :
       \A i \in 1 .. Len(rule.conditions) : Admits(rule.conditions[i], age, hour)
  /\ \A s \in rule.schedule : s.kind = "recurring" =>
       \E day \in Int :
         /\ \A start \in s.startDate : start <= day
         /\ \A end \in s.endDate : day <= end
  /\ \A c \in rule.composite :
       c.predicate = "COUNT" => c.n <= Cardinality(Distinct(c.children))

=============================================================================
