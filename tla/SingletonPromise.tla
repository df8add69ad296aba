-------------------------- MODULE SingletonPromise --------------------------
(***************************************************************************)
(* What bg_utils.Singleton promises the code that submits background work, *)
(* with no word about how: every submission of a task is coalesced with    *)
(* the one already admitted under the same lock key, an admitted task      *)
(* executes at most once, and no two tasks of one key ever execute at the  *)
(* same time.  SingletonTask is the protocol that keeps this promise with  *)
(* a redis key, a message queue and a pool of worker slots.                *)
(***************************************************************************)
CONSTANTS
  Call,     \* submissions; each one carries a task id of its own
  KeyOf,    \* the lock key of a submission: task name and arguments
  Nil

VARIABLES
  admitted,   \* the tasks that stand for their key
  executing,  \* the tasks whose body is running
  finished,   \* the tasks whose outcome is recorded
  answer      \* the task id each submission got back, or Nil

vars == <<admitted, executing, finished, answer>>

Init ==
  /\ admitted = {}
  /\ executing = {}
  /\ finished = {}
  /\ answer = [c \in Call |-> Nil]

(* A submission takes its key if no admitted task stands for it. *)
Admit(c) ==
  /\ c \notin finished
  /\ \A d \in admitted : KeyOf[d] # KeyOf[c]
  /\ admitted' = admitted \union {c}
  /\ UNCHANGED <<executing, finished, answer>>

(* The task gives its key back, and never while it executes. *)
Retire(c) ==
  /\ c \in admitted \ executing
  /\ admitted' = admitted \ {c}
  /\ UNCHANGED <<executing, finished, answer>>

(* A submission is told which task stands for it. *)
Answer(c, t) ==
  /\ answer[c] = Nil
  /\ t \in admitted
  /\ KeyOf[t] = KeyOf[c]
  /\ answer' = [answer EXCEPT ![c] = t]
  /\ UNCHANGED <<admitted, executing, finished>>

Begin(t) ==
  /\ t \in admitted
  /\ t \notin executing \union finished
  /\ executing' = executing \union {t}
  /\ UNCHANGED <<admitted, finished, answer>>

End(t) ==
  /\ t \in executing
  /\ executing' = executing \ {t}
  /\ finished' = finished \union {t}
  /\ UNCHANGED <<admitted, answer>>

Next ==
  \E c \in Call :
    \/ Admit(c)
    \/ Retire(c)
    \/ \E t \in Call : Answer(c, t)
    \/ Begin(c)
    \/ End(c)

Spec == Init /\ [][Next]_vars
=============================================================================
