------------------------ MODULE MCScheduledPublishing ------------------------
(* Instances of ScheduledPublishing for TLC. *)
EXTENDS ScheduledPublishing, TLC

CONSTANTS a, b, t1

\* What authors write when a task is scheduled.
Few == {[text |-> a, refers |-> TRUE], [text |-> b, refers |-> FALSE]}

\* Authors alone, with a history of two revisions.
Authoring == [kept |-> 2, contents |-> Contents, maxRevision |-> 5, maxLives |-> 2]

\* A task, on a document that is deleted and made anew.
Recreated == [kept |-> 1, contents |-> Few, maxRevision |-> 3, maxLives |-> 2]

\* A task, on a document that is published and not changed again.
Published == [Recreated EXCEPT !.maxLives = 1]

BothConfigs == {Authoring, Recreated}
OneConfig == {Published}

TasksOf == [c \in BothConfigs \cup OneConfig |-> IF c = Authoring THEN {} ELSE {t1}]
=============================================================================
