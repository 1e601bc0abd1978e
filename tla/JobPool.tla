------------------------------- MODULE JobPool -------------------------------
(***************************************************************************)
(* What the thread pool of libresman promises, with no threads in sight:   *)
(* jobs start in the order in which they were submitted, at most           *)
(* MaxRunning at a time; each one is started at most once; a call that     *)
(* waits for the pool to become idle returns only when nothing is queued   *)
(* and nothing runs.  Module TPool is shown to implement this.             *)
(***************************************************************************)
EXTENDS Naturals, Sequences, FiniteSets

CONSTANTS Jobs,        \* the jobs that can be submitted, each at most once
          Clients,     \* the threads that call the pool
          MaxRunning   \* how many jobs may run at the same time

VARIABLES queue,     \* submitted and not started, oldest first
          running,   \* started and not finished
          finished,  \* finished
          dropped,   \* submitted, then discarded before they were started
          idlers     \* the clients that wait for the pool to become idle

poolVars == <<queue, running, finished, dropped, idlers>>

Queued == {queue[i] : i \in 1..Len(queue)}

Init ==
  /\ queue = <<>>
  /\ running = {}
  /\ finished = {}
  /\ dropped = {}
  /\ idlers = {}

Submit(j) ==
  /\ j \notin Queued \cup running \cup finished \cup dropped
  /\ queue' = Append(queue, j)
  /\ UNCHANGED <<running, finished, dropped, idlers>>

Begin ==
  /\ queue # <<>>
  /\ Cardinality(running) < MaxRunning
  /\ queue' = Tail(queue)
  /\ running' = running \cup {Head(queue)}
  /\ UNCHANGED <<finished, dropped, idlers>>

Finish(j) ==
  /\ j \in running
  /\ running' = running \ {j}
  /\ finished' = finished \cup {j}
  /\ UNCHANGED <<queue, dropped, idlers>>

Discard ==
  /\ queue' = <<>>
  /\ dropped' = dropped \cup Queued
  /\ UNCHANGED <<running, finished, idlers>>

Wait(c) ==
  /\ c \notin idlers
  /\ idlers' = idlers \cup {c}
  /\ UNCHANGED <<queue, running, finished, dropped>>

Return(c) ==
  /\ c \in idlers
  /\ queue = <<>> /\ running = {}
  /\ idlers' = idlers \ {c}
  /\ UNCHANGED <<queue, running, finished, dropped>>

Next ==
  \/ \E j \in Jobs : Submit(j) \/ Finish(j)
  \/ Begin
  \/ Discard
  \/ \E c \in Clients : Wait(c) \/ Return(c)

Spec == Init /\ [][Next]_poolVars

=============================================================================
