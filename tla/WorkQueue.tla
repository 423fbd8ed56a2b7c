------------------------------ MODULE WorkQueue ------------------------------
(***************************************************************************)
(* What the back end promises of a table it uses as a work queue           *)
(* (webhook_deliveries, integration_jobs): an item is put once, taken by   *)
(* one worker at a time, given back after a failed attempt, buried when    *)
(* its attempts are used up, and never worked on again once finished.      *)
(* Nothing is promised of an item whose worker is lost: it stays taken.    *)
(***************************************************************************)
EXTENDS Naturals

CONSTANTS
  Items,        \* identities of the rows, fixed by their unique keys
  MaxTries      \* max_attempts

VARIABLE item   \* what is known of each row

Blank == [st |-> "absent", tries |-> 0]

Put(S) ==
  /\ S # {}
  /\ \A i \in S : item[i].st = "absent"
  /\ item' = [i \in Items |-> IF i \in S THEN [st |-> "waiting", tries |-> 0] ELSE item[i]]

Step(i, from, st, tries) ==
  /\ item[i].st \in from
  /\ item' = [item EXCEPT ![i] = [st |-> st, tries |-> tries]]

Take(i) == Step(i, {"waiting"}, "taken", item[i].tries)

Finish(i) == Step(i, {"taken"}, "finished", item[i].tries + 1)

GiveBack(i) ==
  /\ item[i].tries + 1 < MaxTries
  /\ Step(i, {"taken"}, "waiting", item[i].tries + 1)

Bury(i) ==
  /\ item[i].tries + 1 = MaxTries
  /\ Step(i, {"taken"}, "dead", item[i].tries + 1)

\* An operator asks for a fresh set of attempts.
Revive(i) == Step(i, {"waiting", "dead"}, "waiting", 0)

QueueNext ==
  \/ \E i \in Items : Take(i) \/ Finish(i) \/ GiveBack(i) \/ Bury(i) \/ Revive(i)
  \/ \E S \in SUBSET Items : Put(S)

\* A table is watched from some state on, whatever it holds by then.
QueueInit == item \in [Items -> [st : {"absent", "waiting", "taken", "finished", "dead"}, tries : 0..MaxTries]]

QueueSpec == QueueInit /\ [][QueueNext]_item
=============================================================================
