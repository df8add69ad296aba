---------------------------- MODULE SingletonTask ----------------------------
(***************************************************************************)
(* The de-duplication of background tasks: stormpiper.bg_utils (a redis    *)
(* key per task name and arguments), the callers that go through           *)
(* Singleton.apply_async, the Celery worker of bg_worker.py that runs the  *)
(* tasks in a pool of slots, and clear_locks, which deletes every key.     *)
(*                                                                         *)
(* A submission c \in Call is one execution of apply_async; its task id is *)
(* the uuid that the call draws, so the model uses c for both.  One redis  *)
(* command is one step.  What the surroundings may do besides the normal   *)
(* protocol is the constant Env.                                           *)
(***************************************************************************)
EXTENDS Integers, FiniteSets

CONSTANTS
  Call,             \* submissions, and the task ids they draw
  Key,              \* lock keys: md5 of task name and arguments
  KeyOf,            \* the key a submission computes (generate_lock)
  Slot,             \* the slots of the worker pool (celery worker -c)
  Nil,
  RaiseOnDuplicate, \* Config.raise_on_duplicate; unset, so FALSE, here
  Env,              \* the events of Events that may happen in this instance
  MaxRestarts       \* bound on the number of worker restarts

(***************************************************************************)
(* publish_fails    the broker refuses the message                         *)
(* publish_unsure   the broker takes it, yet the client sees an error      *)
(* caller_lost      the process inside apply_async dies                    *)
(* child_lost       the process of a slot is killed; the worker marks the  *)
(*                  task failed without calling on_failure                 *)
(* expire           singleton_lock_expiry passes                           *)
(* clear            beat's clear_singleton_locks                           *)
(* restart          the worker restarts: unacknowledged messages are       *)
(*                  delivered again (acks_late) and the boot signals clear *)
(*                  the locks                                              *)
(* send_task        an administrator runs the task by name, unlocked       *)
(***************************************************************************)
Events == {"publish_fails", "publish_unsure", "caller_lost", "child_lost",
           "expire", "clear", "restart", "send_task"}

ASSUME CallAssumption ==
  /\ KeyOf \in [Call -> Key]
  /\ Nil \notin Call
ASSUME EnvAssumption ==
  /\ Env \subseteq Events
  /\ MaxRestarts \in Nat
  /\ RaiseOnDuplicate \in BOOLEAN

VARIABLES
  redis,    \* the task id stored under each key, or Nil
  pc,       \* where each submission is in apply_async
  answer,   \* the task id of the AsyncResult it returned, or Nil
  queue,    \* messages the broker has not delivered
  slot,     \* the task in each slot, or Nil
  stage,    \* "idle", "run": the body, "release": outcome stored, key not
  ended,    \* tasks with an outcome in the result backend
  scan,     \* keys that a running clear_locks found and has not yet deleted
  boot,     \* clear_locks calls the booting worker has still to make
  restarts

vars == <<redis, pc, answer, queue, slot, stage, ended, scan, boot, restarts>>
caller == <<pc, answer>>
worker == <<slot, stage, ended>>
clearing == <<scan, boot, restarts>>

PC == {"idle", "lock", "get", "publish", "unlock", "returned", "raised", "lost"}
InCall == {"lock", "get", "publish", "unlock"}
Clearer == {"boot", "beat"}

TypeOK ==
  /\ redis \in [Key -> Call \union {Nil}]
  /\ pc \in [Call -> PC]
  /\ answer \in [Call -> Call \union {Nil}]
  /\ queue \subseteq Call
  /\ slot \in [Slot -> Call \union {Nil}]
  /\ stage \in [Slot -> {"idle", "run", "release"}]
  /\ ended \subseteq Call
  /\ scan \in [Clearer -> SUBSET Key]
  /\ boot \in 0..2
  /\ restarts \in 0..MaxRestarts

Init ==
  /\ redis = [k \in Key |-> Nil]
  /\ pc = [c \in Call |-> "idle"]
  /\ answer = [c \in Call |-> Nil]
  /\ queue = {}
  /\ slot = [w \in Slot |-> Nil]
  /\ stage = [w \in Slot |-> "idle"]
  /\ ended = {}
  /\ scan = [x \in Clearer |-> {}]
  /\ boot = 0
  /\ restarts = 0

-----------------------------------------------------------------------------
(* Redis commands. *)

Set(k, v) == redis' = [redis EXCEPT ![k] = v]

(* DELETE by name: whoever's task id is stored there. *)
Unlock(k) == Set(k, Nil)

Goto(c, from, to) ==
  /\ pc[c] = from
  /\ pc' = [pc EXCEPT ![c] = to]

-----------------------------------------------------------------------------
(* apply_async in the process of a caller: the API, beat, or a task. *)

Submit(c) ==
  /\ Goto(c, "idle", "lock")
  /\ UNCHANGED <<redis, answer, queue, worker, clearing>>

(* Mutant: SET without NX. *)
AcquireLockAlways(c) ==
  /\ Set(KeyOf[c], c)
  /\ Goto(c, "lock", "publish")
  /\ UNCHANGED <<answer, queue, worker, clearing>>

(* SET key task_id NX EX expiry.  A failed attempt reads the key next. *)
AcquireLock(c) ==
  /\ \/ /\ redis[KeyOf[c]] = Nil
        /\ Set(KeyOf[c], c)
        /\ Goto(c, "lock", "publish")
     \/ /\ redis[KeyOf[c]] # Nil
        /\ Goto(c, "lock", "get")
        /\ UNCHANGED redis
  /\ UNCHANGED <<answer, queue, worker, clearing>>

(* The call comes back with the id of a task, its own or an earlier one. *)
Return(c, from, t) ==
  /\ Goto(c, from, "returned")
  /\ answer' = [answer EXCEPT ![c] = t]

OnDuplicate(c, t) ==
  IF RaiseOnDuplicate THEN Goto(c, "get", "raised") /\ UNCHANGED answer
                      ELSE Return(c, "get", t)

(* Mutant: a duplicate is answered with the id of its own, unpublished task. *)
GetOwnTaskId(c) ==
  /\ \/ redis[KeyOf[c]] # Nil /\ OnDuplicate(c, c)
     \/ redis[KeyOf[c]] = Nil /\ Goto(c, "get", "lock") /\ UNCHANGED answer
  /\ UNCHANGED <<redis, queue, worker, clearing>>

(* Mutant: the loop reads the key again and does not try the lock again. *)
GetWithoutLocking(c) ==
  /\ redis[KeyOf[c]] # Nil
  /\ OnDuplicate(c, redis[KeyOf[c]])
  /\ UNCHANGED <<redis, queue, worker, clearing>>

(* The key may be gone by now; then the while loop tries the lock again. *)
GetExistingTaskId(c) ==
  /\ \/ redis[KeyOf[c]] # Nil /\ OnDuplicate(c, redis[KeyOf[c]])
     \/ redis[KeyOf[c]] = Nil /\ Goto(c, "get", "lock") /\ UNCHANGED answer
  /\ UNCHANGED <<redis, queue, worker, clearing>>

Publish(c) ==
  /\ Return(c, "publish", c)
  /\ queue' = queue \union {c}
  /\ UNCHANGED <<redis, worker, clearing>>

(* The exception handler of lock_and_run unlocks in a step of its own. *)
PublishRaises(c) ==
  /\ \/ "publish_fails" \in Env /\ UNCHANGED queue
     \/ "publish_unsure" \in Env /\ queue' = queue \union {c}
  /\ Goto(c, "publish", "unlock")
  /\ UNCHANGED <<redis, answer, worker, clearing>>

UnlockAndRaise(c) ==
  /\ Goto(c, "unlock", "raised")
  /\ Unlock(KeyOf[c])
  /\ UNCHANGED <<answer, queue, worker, clearing>>

CallerLost(c) ==
  /\ "caller_lost" \in Env
  /\ \E at \in InCall : Goto(c, at, "lost")
  /\ UNCHANGED <<redis, answer, queue, worker, clearing>>

(* GET /api/rpc/run_task/{taskname}: send_task publishes without the lock,
   and the task releases the key like any other when it is done.           *)
SendTask(c) ==
  /\ "send_task" \in Env
  /\ Return(c, "idle", c)
  /\ queue' = queue \union {c}
  /\ UNCHANGED <<redis, worker, clearing>>

-----------------------------------------------------------------------------
(* The worker. *)

Ready == boot = 0 /\ scan["boot"] = {}

(* The message stays unacknowledged while the task is in the slot. *)
Take(w, t) ==
  /\ Ready
  /\ stage[w] = "idle" /\ t \in queue
  /\ queue' = queue \ {t}
  /\ slot' = [slot EXCEPT ![w] = t]
  /\ stage' = [stage EXCEPT ![w] = "run"]
  /\ UNCHANGED <<redis, caller, ended, clearing>>

(* Mutant: the body deletes the key, before the task is over. *)
FinishUnlocked(w) ==
  /\ stage[w] = "run"
  /\ stage' = [stage EXCEPT ![w] = "release"]
  /\ ended' = ended \union {slot[w]}
  /\ Unlock(KeyOf[slot[w]])
  /\ UNCHANGED <<caller, queue, slot, clearing>>

(* The body returns or raises, and the outcome is stored. *)
Finish(w) ==
  /\ stage[w] = "run"
  /\ stage' = [stage EXCEPT ![w] = "release"]
  /\ ended' = ended \union {slot[w]}
  /\ UNCHANGED <<redis, caller, queue, slot, clearing>>

FreeSlot(w) ==
  /\ slot' = [slot EXCEPT ![w] = Nil]
  /\ stage' = [stage EXCEPT ![w] = "idle"]

(* on_success and on_failure delete the key of the task's own arguments;
   the message is acknowledged after that.                                 *)
ReleaseLock(w) ==
  /\ stage[w] = "release"
  /\ Unlock(KeyOf[slot[w]])
  /\ FreeSlot(w)
  /\ UNCHANGED <<caller, queue, ended, clearing>>

ChildLost(w) ==
  /\ "child_lost" \in Env
  /\ stage[w] = "run"
  /\ ended' = ended \union {slot[w]}
  /\ FreeSlot(w)
  /\ UNCHANGED <<redis, caller, queue, clearing>>

(* Mutant: messages are acknowledged when they are taken (no acks_late). *)
RestartAckedEarly ==
  /\ "restart" \in Env
  /\ restarts < MaxRestarts
  /\ restarts' = restarts + 1
  /\ boot' = 2
  /\ scan' = [scan EXCEPT !["boot"] = {}]
  /\ slot' = [w \in Slot |-> Nil]
  /\ stage' = [w \in Slot |-> "idle"]
  /\ UNCHANGED <<redis, caller, queue, ended>>

(* Mutant: idle slots give a message back, too. *)
RestartEverySlot ==
  /\ "restart" \in Env
  /\ restarts < MaxRestarts
  /\ restarts' = restarts + 1
  /\ boot' = 2
  /\ scan' = [scan EXCEPT !["boot"] = {}]
  /\ queue' = queue \union {slot[w] : w \in Slot}
  /\ slot' = [w \in Slot |-> Nil]
  /\ stage' = [w \in Slot |-> "idle"]
  /\ UNCHANGED <<redis, caller, ended>>

(* Both celeryd_init and worker_ready call clear_locks. *)
Restart ==
  /\ "restart" \in Env
  /\ restarts < MaxRestarts
  /\ restarts' = restarts + 1
  /\ boot' = 2
  /\ scan' = [scan EXCEPT !["boot"] = {}]
  /\ queue' = queue \union {slot[w] : w \in {v \in Slot : stage[v] # "idle"}}
  /\ slot' = [w \in Slot |-> Nil]
  /\ stage' = [w \in Slot |-> "idle"]
  /\ UNCHANGED <<redis, caller, ended>>

-----------------------------------------------------------------------------
(* Keys that go away by themselves. *)

Expire(k) ==
  /\ "expire" \in Env
  /\ redis[k] # Nil
  /\ Unlock(k)
  /\ UNCHANGED <<caller, queue, worker, clearing>>

(* backend.clear: SCAN returns names, which are then deleted one by one. *)
ClearScan(x) ==
  /\ scan[x] = {}
  /\ \/ x = "boot" /\ boot > 0 /\ boot' = boot - 1
     \/ x = "beat" /\ "clear" \in Env /\ UNCHANGED boot
  /\ scan' = [scan EXCEPT ![x] = {k \in Key : redis[k] # Nil}]
  /\ UNCHANGED <<redis, caller, queue, worker, restarts>>

ClearDelete(x, k) ==
  /\ k \in scan[x]
  /\ scan' = [scan EXCEPT ![x] = @ \ {k}]
  /\ Unlock(k)
  /\ UNCHANGED <<caller, queue, worker, boot, restarts>>

-----------------------------------------------------------------------------
CallerStep(c) ==
  \/ AcquireLock(c)
  \/ GetExistingTaskId(c)
  \/ Publish(c)
  \/ UnlockAndRaise(c)

WorkerStep(w) ==
  \/ \E t \in Call : Take(w, t)
  \/ Finish(w)
  \/ ReleaseLock(w)

ClearStep(x) ==
  \/ ClearScan(x)
  \/ \E k \in Key : ClearDelete(x, k)

Next ==
  \/ \E c \in Call : Submit(c) \/ CallerStep(c) \/ PublishRaises(c)
                    \/ CallerLost(c) \/ SendTask(c)
  \/ \E w \in Slot : WorkerStep(w) \/ ChildLost(w)
  \/ Restart
  \/ \E k \in Key : Expire(k)
  \/ \E x \in Clearer : ClearStep(x)

Spec == Init /\ [][Next]_vars

(***************************************************************************)
(* A process that started apply_async goes on, a slot goes on and its body *)
(* ends, keys with a time to live expire, and a booting worker boots.      *)
(* Nothing is assumed of users, failures, or beat.                         *)
(***************************************************************************)
Fairness ==
  /\ \A c \in Call : WF_vars(CallerStep(c))
  /\ \A w \in Slot : WF_vars(WorkerStep(w))
  /\ \A k \in Key : WF_vars(Expire(k))
  /\ WF_vars(ClearStep("boot"))

FairSpec == Spec /\ Fairness

-----------------------------------------------------------------------------
(* Properties. *)

Running(t) == \E w \in Slot : slot[w] = t /\ stage[w] = "run"

InSlot(t) == \E w \in Slot : slot[w] = t

(* Published and not yet released, or about to be published. *)
Pending == {t \in Call : t \in queue \/ InSlot(t) \/ pc[t] = "publish"}

(* No two slots execute the bodies of tasks with the same name and
   arguments at the same time.  It needs the whole of apply_async, the
   order of publishing and unlocking, and the release at the end.          *)
MutualExclusion ==
  \A v, w \in Slot :
    /\ v # w
    /\ stage[v] = "run" /\ stage[w] = "run"
    => KeyOf[slot[v]] # KeyOf[slot[w]]

(* Each task waiting, running, or on its way to the broker is the one that
   redis names under its key, so that a duplicate is pointed at it and its
   release cannot delete the key of another task.                          *)
PendingHoldsLock == \A t \in Pending : redis[KeyOf[t]] = t

(* apply_async comes back: the while loop around SET and GET ends, though
   other tasks remove and retake the key between the two, once for each
   other submission.                                                       *)
CallReturns == \A c \in Call : pc[c] = "lock" ~> pc[c] \notin InCall

(* Known to the broker, at work or over; or its caller holds it, has said
   that it failed, or is lost.                                             *)
Kept(t) ==
  t \in queue \union ended \/ InSlot(t) \/ pc[t] \in {"publish", "unlock", "raised", "lost"}

(* No task whose id was given out is lost between its caller and its
   outcome, though the worker may die at any point of it, before the
   acknowledgement, too: the message is then delivered again.              *)
AnsweredTaskKept == \A c \in Call : answer[c] # Nil => Kept(answer[c])

(* Whoever got a task id can wait for it: the task gets an outcome, unless
   the caller that took the lock failed to publish it.                     *)
AnsweredTaskEnds ==
  \A c, t \in Call :
    answer[c] = t ~> t \in ended \/ pc[t] \in {"raised", "lost"}

(* The deletions of a key that are still to come: by the handler of each
   caller that may yet fail, and by each task when it is over.             *)
Handlers(k) == {c \in Call : KeyOf[c] = k /\ pc[c] \in {"publish", "unlock"}}
Tasks(k) == {t \in Call : KeyOf[t] = k /\ (t \in queue \/ InSlot(t))}

(* One of them is that of the key itself.  The others will delete the keys
   of other tasks; less than none, and nobody will delete it.              *)
Excess(k) ==
  Cardinality(Handlers(k)) + Cardinality(Tasks(k)) - (IF redis[k] = Nil THEN 0 ELSE 1)

(* Deletion is by name, so a key that goes early makes its task delete that
   of the next one, and so on.  The protocol hands such a deletion on and
   never adds one: there is one more only when a key expires or is cleared
   or a task is published without its key.  Nor does it forget one: a key
   is left to its expiry by lost processes alone, and a deletion is spent
   for nothing only where the key is gone.                                 *)
DeletionsAccounted ==
  [][\A k \in Key :
       /\ Excess(k)' > Excess(k) =>
            \/ Expire(k) \/ \E x \in Clearer : ClearDelete(x, k)
            \/ \E c \in Call : SendTask(c) \/ (PublishRaises(c) /\ queue' # queue)
       /\ Excess(k)' < Excess(k) =>
            redis[k] = Nil \/ (\E c \in Call : CallerLost(c)) \/ \E w \in Slot : ChildLost(w)]_vars

-----------------------------------------------------------------------------
(* Tasks in the roles that the promise to callers knows them in. *)

Admitted == {t \in Call : redis[KeyOf[t]] = t}
Executing == {t \in Call : Running(t)}

Promise == INSTANCE SingletonPromise WITH
  admitted <- Admitted, executing <- Executing, finished <- ended

(* The protocol implements the promise of SingletonPromise. *)
ImplementsPromise == Promise!Spec
=============================================================================
