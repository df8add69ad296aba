------------------------- MODULE SingletonTask_proofs -------------------------
(***************************************************************************)
(* As long as nobody but its owner deletes the key of a task that has not  *)
(* been released, the singleton protocol keeps its promise, for any number *)
(* of submissions, keys and slots; and whatever happens, no task is lost,  *)
(* and the deletions that are due are accounted for.                       *)
(***************************************************************************)
EXTENDS SingletonTask, FiniteSetTheorems, TLAPS

(* Tasks that are published hold their key: none is published around the
   lock, after its caller has given up, or again after its release.        *)
NoBypass == Env \intersect {"publish_unsure", "restart", "send_task"} = {}

(* Tasks whose key is still in use. *)
Owned == Pending \union {c \in Call : pc[c] = "unlock"}

(* The expiry is longer than tasks take, and locks are cleared when no task
   holds them: what they delete are keys that lost processes have left.    *)
LateDeletion ==
  \A k \in Key :
    Expire(k) \/ (\E x \in Clearer : ClearDelete(x, k)) => redis[k] \notin Owned

KeyNamesItsTask == \A k \in Key : redis[k] # Nil => KeyOf[redis[k]] = k

QueueOK ==
  \A c \in queue :
    /\ redis[KeyOf[c]] = c
    /\ pc[c] = "returned"
    /\ c \notin ended
    /\ \A w \in Slot : slot[w] # c

SlotOK ==
  \A w \in Slot :
    /\ stage[w] = "idle" <=> slot[w] = Nil
    /\ slot[w] # Nil =>
         /\ redis[KeyOf[slot[w]]] = slot[w]
         /\ pc[slot[w]] = "returned"
         /\ stage[w] = "run" => slot[w] \notin ended
         /\ \A v \in Slot : slot[v] = slot[w] => v = w

CallerOK ==
  \A c \in Call :
    /\ pc[c] \in {"publish", "unlock"} => redis[KeyOf[c]] = c
    /\ pc[c] \in InCall \union {"idle"} => c \notin ended /\ answer[c] = Nil

IInv ==
  /\ TypeOK
  /\ KeyNamesItsTask
  /\ QueueOK
  /\ SlotOK
  /\ CallerOK

-----------------------------------------------------------------------------
(* Types, whatever the surroundings do. *)

(* TypeOK is not inductive: it must be known that a busy slot has a task. *)
BusySlot == \A w \in Slot : stage[w] # "idle" => slot[w] # Nil

LEMMA TypeInit == Init => TypeOK /\ BusySlot
  BY CallAssumption, EnvAssumption
     DEF Init, TypeOK, BusySlot, PC, Clearer

LEMMA TypeStep == TypeOK /\ BusySlot /\ [Next]_vars => TypeOK' /\ BusySlot'
<1> SUFFICES ASSUME TypeOK, BusySlot, [Next]_vars PROVE TypeOK' /\ BusySlot'
  OBVIOUS
<1> USE CallAssumption, EnvAssumption DEF TypeOK, BusySlot
<1> USE DEF PC, caller, worker, clearing, Set, Unlock, Goto, Return
<1>1. ASSUME NEW c \in Call, Submit(c) PROVE TypeOK' /\ BusySlot'
  BY <1>1 DEF Submit
<1>2. ASSUME NEW c \in Call, AcquireLock(c) PROVE TypeOK' /\ BusySlot'
  BY <1>2 DEF AcquireLock
<1>3. ASSUME NEW c \in Call, GetExistingTaskId(c) PROVE TypeOK' /\ BusySlot'
  BY <1>3 DEF GetExistingTaskId, OnDuplicate
<1>4. ASSUME NEW c \in Call, Publish(c) PROVE TypeOK' /\ BusySlot'
  BY <1>4 DEF Publish
<1>5. ASSUME NEW c \in Call, UnlockAndRaise(c) PROVE TypeOK' /\ BusySlot'
  BY <1>5 DEF UnlockAndRaise
<1>6. ASSUME NEW c \in Call, PublishRaises(c) PROVE TypeOK' /\ BusySlot'
  BY <1>6 DEF PublishRaises
<1>7. ASSUME NEW c \in Call, CallerLost(c) PROVE TypeOK' /\ BusySlot'
  BY <1>7 DEF CallerLost, InCall
<1>8. ASSUME NEW c \in Call, SendTask(c) PROVE TypeOK' /\ BusySlot'
  BY <1>8 DEF SendTask
<1>9. ASSUME NEW w \in Slot, NEW t \in Call, Take(w, t) PROVE TypeOK' /\ BusySlot'
  BY <1>9 DEF Take
<1>10. ASSUME NEW w \in Slot, Finish(w) PROVE TypeOK' /\ BusySlot'
  BY <1>10 DEF Finish
<1>11. ASSUME NEW w \in Slot, ReleaseLock(w) PROVE TypeOK' /\ BusySlot'
  BY <1>11 DEF ReleaseLock, FreeSlot
<1>12. ASSUME NEW w \in Slot, ChildLost(w) PROVE TypeOK' /\ BusySlot'
  BY <1>12 DEF ChildLost, FreeSlot
<1>13. ASSUME Restart PROVE TypeOK' /\ BusySlot'
  BY <1>13 DEF Restart, Clearer
<1>14. ASSUME NEW k \in Key, Expire(k) PROVE TypeOK' /\ BusySlot'
  BY <1>14 DEF Expire
<1>15. ASSUME NEW x \in Clearer, ClearScan(x) PROVE TypeOK' /\ BusySlot'
  BY <1>15 DEF ClearScan, Clearer
<1>16. ASSUME NEW x \in Clearer, NEW k \in Key, ClearDelete(x, k) PROVE TypeOK' /\ BusySlot'
  BY <1>16 DEF ClearDelete
<1>17. CASE UNCHANGED vars
  BY <1>17 DEF vars
<1> QED
  BY <1>1, <1>2, <1>3, <1>4, <1>5, <1>6, <1>7, <1>8, <1>9, <1>10, <1>11,
     <1>12, <1>13, <1>14, <1>15, <1>16, <1>17
     DEF Next, CallerStep, WorkerStep, ClearStep

(* The type invariant, under any events and any scheduling: every redis
   value, message and slot holds the id of a submission.                   *)
THEOREM TypeCorrect == Spec => []TypeOK
<1>1. Init => TypeOK /\ BusySlot
  BY TypeInit
<1>2. TypeOK /\ BusySlot /\ [Next]_vars => TypeOK' /\ BusySlot'
  BY TypeStep
<1> QED
  BY <1>1, <1>2, PTL DEF Spec

-----------------------------------------------------------------------------
(* The inductive invariant. *)

LEMMA InitIInv == Init => IInv
<1> SUFFICES ASSUME Init PROVE IInv
  OBVIOUS
<1>1. TypeOK
  BY TypeInit
<1> QED
  BY <1>1, CallAssumption
     DEF Init, IInv, KeyNamesItsTask, QueueOK, SlotOK, CallerOK

(* A key that is deleted late is not the one of a pending task. *)
LEMMA DeletesOrphan ==
  ASSUME IInv, LateDeletion, NEW k \in Key,
         Expire(k) \/ \E x \in Clearer : ClearDelete(x, k)
  PROVE  /\ redis' = [redis EXCEPT ![k] = Nil]
         /\ UNCHANGED <<caller, queue, worker>>
         /\ redis[k] \notin Owned
         /\ \A t \in Owned : redis[KeyOf[t]] = t => KeyOf[t] # k
<1>1. redis[k] \notin Owned
  BY DEF LateDeletion
<1> QED
  BY <1>1 DEF Expire, ClearDelete, Unlock, Set

LEMMA StepIInv ==
  ASSUME NoBypass, IInv, LateDeletion, [Next]_vars
  PROVE  IInv'
<1> DEFINE Rest == KeyNamesItsTask /\ QueueOK /\ SlotOK /\ CallerOK
<1>0. TypeOK'
  BY TypeStep DEF IInv, SlotOK, BusySlot
<1> SUFFICES Rest'
  BY <1>0 DEF IInv
<1>13. ASSUME NEW k \in Key, Expire(k) \/ \E x \in Clearer : ClearDelete(x, k) PROVE Rest'
  <2>1. /\ redis' = [redis EXCEPT ![k] = Nil]
        /\ UNCHANGED <<pc, answer, queue, slot, stage, ended>>
        /\ \A t \in Owned : redis[KeyOf[t]] = t => KeyOf[t] # k
    BY <1>13, DeletesOrphan DEF caller, worker
  <2>2. /\ redis \in [Key -> Call \union {Nil}] /\ KeyOf \in [Call -> Key]
        /\ queue \subseteq Call /\ slot \in [Slot -> Call \union {Nil}]
    BY CallAssumption DEF IInv, TypeOK
  <2>3. ASSUME NEW t \in Owned, redis[KeyOf[t]] = t PROVE redis'[KeyOf[t]] = t
    BY <2>1, <2>2, <2>3 DEF Owned, Pending
  <2>4. KeyNamesItsTask'
    BY <2>1, <2>2 DEF IInv, KeyNamesItsTask
  <2>5. QueueOK'
    BY <2>1, <2>2, <2>3 DEF IInv, QueueOK, Owned, Pending
  <2>6. SlotOK'
    BY <2>1, <2>2, <2>3 DEF IInv, SlotOK, Owned, Pending, InSlot
  <2>7. CallerOK'
    BY <2>1, <2>3 DEF IInv, CallerOK, Owned, Pending
  <2> QED
    BY <2>4, <2>5, <2>6, <2>7
<1>14. ASSUME NEW x \in Clearer, ClearScan(x) PROVE Rest'
  BY <1>14 DEF ClearScan, caller, worker, IInv, KeyNamesItsTask, QueueOK, SlotOK, CallerOK
<1>15. ASSUME NEW c \in Call, SendTask(c) PROVE FALSE
  BY <1>15 DEF SendTask, NoBypass
<1>16. ASSUME Restart PROVE FALSE
  BY <1>16 DEF Restart, NoBypass
<1> USE CallAssumption DEF IInv, TypeOK, PC, InCall, caller, worker, clearing
<1> USE DEF Set, Unlock, Goto, Return
<1>1. ASSUME NEW c \in Call, Submit(c) PROVE Rest'
  BY <1>1 DEF Submit, KeyNamesItsTask, QueueOK, SlotOK, CallerOK
<1>2. ASSUME NEW c \in Call, AcquireLock(c) PROVE Rest'
  <2>1. QueueOK' /\ CallerOK'
    BY <1>2 DEF AcquireLock, KeyNamesItsTask, QueueOK, SlotOK, CallerOK
  <2>2. KeyNamesItsTask'
    BY <1>2 DEF AcquireLock, KeyNamesItsTask, QueueOK, SlotOK, CallerOK
  <2>3. SlotOK'
    BY <1>2 DEF AcquireLock, SlotOK, QueueOK, CallerOK
  <2> QED
    BY <2>1, <2>2, <2>3
<1>3. ASSUME NEW c \in Call, GetExistingTaskId(c) PROVE Rest'
  BY <1>3 DEF GetExistingTaskId, OnDuplicate, KeyNamesItsTask, QueueOK, SlotOK, CallerOK
<1>4. ASSUME NEW c \in Call, Publish(c) PROVE Rest'
  <2>1. KeyNamesItsTask' /\ SlotOK' /\ CallerOK'
    BY <1>4 DEF Publish, KeyNamesItsTask, QueueOK, SlotOK, CallerOK
  <2>2. QueueOK'
    BY <1>4 DEF Publish, QueueOK, SlotOK, CallerOK
  <2> QED
    BY <2>1, <2>2
<1>5. ASSUME NEW c \in Call, UnlockAndRaise(c) PROVE Rest'
  <2>1. CallerOK'
    BY <1>5 DEF UnlockAndRaise, KeyNamesItsTask, QueueOK, SlotOK, CallerOK
  <2>2. KeyNamesItsTask'
    BY <1>5 DEF UnlockAndRaise, KeyNamesItsTask, QueueOK, SlotOK, CallerOK
  <2>3. QueueOK'
    BY <1>5 DEF UnlockAndRaise, QueueOK, SlotOK, CallerOK
  <2>4. SlotOK'
    BY <1>5 DEF UnlockAndRaise, SlotOK, QueueOK, CallerOK
  <2> QED
    BY <2>1, <2>2, <2>3, <2>4
<1>6. ASSUME NEW c \in Call, PublishRaises(c) PROVE Rest'
  BY <1>6 DEF PublishRaises, NoBypass, KeyNamesItsTask, QueueOK, SlotOK, CallerOK
<1>7. ASSUME NEW c \in Call, CallerLost(c) PROVE Rest'
  BY <1>7 DEF CallerLost, KeyNamesItsTask, QueueOK, SlotOK, CallerOK
<1>8. ASSUME NEW w \in Slot, NEW t \in Call, Take(w, t) PROVE Rest'
  <2>1. KeyNamesItsTask' /\ CallerOK'
    BY <1>8 DEF Take, KeyNamesItsTask, QueueOK, SlotOK, CallerOK
  <2>2. QueueOK'
    BY <1>8 DEF Take, QueueOK, SlotOK, CallerOK
  <2>3. SlotOK'
    BY <1>8 DEF Take, SlotOK, QueueOK, CallerOK
  <2> QED
    BY <2>1, <2>2, <2>3
<1>9. ASSUME NEW w \in Slot, Finish(w) PROVE Rest'
  BY <1>9 DEF Finish, KeyNamesItsTask, QueueOK, SlotOK, CallerOK
<1>10. ASSUME NEW w \in Slot, ReleaseLock(w) PROVE Rest'
  <2>2. KeyNamesItsTask'
    BY <1>10 DEF ReleaseLock, FreeSlot, KeyNamesItsTask, QueueOK, SlotOK, CallerOK
  <2>3. QueueOK'
    BY <1>10 DEF ReleaseLock, FreeSlot, QueueOK, SlotOK, CallerOK
  <2>4. SlotOK'
    BY <1>10 DEF ReleaseLock, FreeSlot, SlotOK, QueueOK, CallerOK
  <2>5. CallerOK'
    BY <1>10 DEF ReleaseLock, FreeSlot, CallerOK, QueueOK, SlotOK
  <2> QED
    BY <2>2, <2>3, <2>4, <2>5
<1>11. ASSUME NEW w \in Slot, ChildLost(w) PROVE Rest'
  <2>1. KeyNamesItsTask' /\ QueueOK' /\ CallerOK'
    BY <1>11 DEF ChildLost, FreeSlot, KeyNamesItsTask, QueueOK, SlotOK, CallerOK
  <2>2. SlotOK'
    BY <1>11 DEF ChildLost, FreeSlot, SlotOK, QueueOK, CallerOK
  <2> QED
    BY <2>1, <2>2
<1>12. CASE UNCHANGED vars
  BY <1>12 DEF vars, KeyNamesItsTask, QueueOK, SlotOK, CallerOK
<1> QED
  BY <1>1, <1>2, <1>3, <1>4, <1>5, <1>6, <1>7, <1>8, <1>9, <1>10, <1>11, <1>12,
     <1>13, <1>14, <1>15, <1>16 DEF Next, CallerStep, WorkerStep, ClearStep

-----------------------------------------------------------------------------
(* What follows from it. *)

LEMMA Invariance ==
  ASSUME NoBypass
  PROVE  Spec /\ [][LateDeletion]_vars => []IInv
<1>1. Init => IInv
  BY InitIInv
<1>2. IInv /\ [Next]_vars /\ [LateDeletion]_vars => IInv'
  <2>1. IInv /\ UNCHANGED vars => IInv'
    BY DEF vars, IInv, TypeOK, KeyNamesItsTask, QueueOK, SlotOK, CallerOK
  <2> QED
    BY <2>1, StepIInv
<1> QED
  BY <1>1, <1>2, PTL DEF Spec

(* Two slots never execute tasks of one key, because each would be the task
   that redis names under the key.                                         *)
LEMMA ExcludesBoth == IInv => MutualExclusion
<1> SUFFICES ASSUME IInv, NEW v \in Slot, NEW w \in Slot, v # w,
                    stage[v] = "run", stage[w] = "run",
                    KeyOf[slot[v]] = KeyOf[slot[w]]
             PROVE  FALSE
  BY DEF MutualExclusion
<1>1. slot[v] # Nil /\ slot[w] # Nil
  BY DEF IInv, SlotOK
<1>2. slot[v] = slot[w]
  BY <1>1 DEF IInv, SlotOK
<1> QED
  BY <1>1, <1>2 DEF IInv, SlotOK

(* The same for every task waiting or about to be published. *)
LEMMA PendingHolds == IInv => PendingHoldsLock
<1> SUFFICES ASSUME IInv, NEW t \in Call,
                    t \in queue \/ InSlot(t) \/ pc[t] = "publish"
             PROVE  redis[KeyOf[t]] = t
  BY DEF PendingHoldsLock, Pending
<1>1. CASE t \in queue
  BY <1>1 DEF IInv, QueueOK
<1>2. CASE InSlot(t)
  BY <1>2, CallAssumption DEF IInv, SlotOK, InSlot
<1>3. CASE pc[t] = "publish"
  BY <1>3 DEF IInv, CallerOK
<1> QED
  BY <1>1, <1>2, <1>3

-----------------------------------------------------------------------------
(* What holds in any surroundings.                                         *)

(* Before it is published, a task is nowhere. *)
BeforePublish == {"idle", "lock", "get", "publish"}

(* One message of each task, and after a restart again one. *)
OnePlace ==
  /\ \A t \in queue : pc[t] \notin BeforePublish /\ ~InSlot(t)
  /\ \A w \in Slot :
       /\ stage[w] = "idle" <=> slot[w] = Nil
       /\ slot[w] # Nil => pc[slot[w]] \notin BeforePublish
       /\ stage[w] = "release" => slot[w] \in ended
  /\ \A v, w \in Slot : slot[v] = slot[w] /\ slot[v] # Nil => v = w

(* The ids in redis are those that duplicates are given. *)
IdsKept ==
  /\ AnsweredTaskKept
  /\ \A k \in Key : redis[k] # Nil => Kept(redis[k]) /\ KeyOf[redis[k]] = k

Started == {c \in Call : pc[c] # "idle"}

AnyIInv == TypeOK /\ OnePlace /\ IdsKept /\ IsFiniteSet(Started)

LEMMA AnyInit == Init => AnyIInv
<1> SUFFICES ASSUME Init PROVE AnyIInv
  OBVIOUS
<1>1. Started = {}
  BY DEF Init, Started
<1>2. OnePlace /\ IdsKept
  BY DEF Init, OnePlace, IdsKept, AnsweredTaskKept
<1> QED
  BY <1>1, <1>2, TypeInit, FS_EmptySet DEF AnyIInv

LEMMA OnePlaceStep ==
  ASSUME AnyIInv, [Next]_vars
  PROVE  OnePlace'
<1> USE CallAssumption DEF AnyIInv, TypeOK, OnePlace, BeforePublish, InSlot
<1> USE DEF caller, worker, clearing, Set, Unlock, Goto, Return, InCall
<1>1. ASSUME NEW c \in Call, Submit(c) PROVE OnePlace'
  BY <1>1 DEF Submit
<1>2. ASSUME NEW c \in Call, AcquireLock(c) PROVE OnePlace'
  BY <1>2 DEF AcquireLock
<1>3. ASSUME NEW c \in Call, GetExistingTaskId(c) PROVE OnePlace'
  BY <1>3 DEF GetExistingTaskId, OnDuplicate
<1>4. ASSUME NEW c \in Call, Publish(c) PROVE OnePlace'
  BY <1>4 DEF Publish
<1>5. ASSUME NEW c \in Call, UnlockAndRaise(c) PROVE OnePlace'
  BY <1>5 DEF UnlockAndRaise
<1>6. ASSUME NEW c \in Call, PublishRaises(c) PROVE OnePlace'
  BY <1>6 DEF PublishRaises
<1>7. ASSUME NEW c \in Call, CallerLost(c) PROVE OnePlace'
  BY <1>7 DEF CallerLost
<1>8. ASSUME NEW c \in Call, SendTask(c) PROVE OnePlace'
  BY <1>8 DEF SendTask
<1>9. ASSUME NEW w \in Slot, NEW t \in Call, Take(w, t) PROVE OnePlace'
  BY <1>9 DEF Take
<1>10. ASSUME NEW w \in Slot, Finish(w) PROVE OnePlace'
  BY <1>10 DEF Finish
<1>11. ASSUME NEW w \in Slot, ReleaseLock(w) PROVE OnePlace'
  BY <1>11 DEF ReleaseLock, FreeSlot
<1>12. ASSUME NEW w \in Slot, ChildLost(w) PROVE OnePlace'
  BY <1>12 DEF ChildLost, FreeSlot
<1>13. ASSUME Restart PROVE OnePlace'
  BY <1>13 DEF Restart
<1>14. ASSUME NEW k \in Key, Expire(k) PROVE OnePlace'
  BY <1>14 DEF Expire
<1>15. ASSUME NEW x \in Clearer, ClearStep(x) PROVE OnePlace'
  BY <1>15 DEF ClearStep, ClearScan, ClearDelete
<1>16. CASE UNCHANGED vars
  BY <1>16 DEF vars
<1> QED
  BY <1>1, <1>2, <1>3, <1>4, <1>5, <1>6, <1>7, <1>8, <1>9, <1>10, <1>11,
     <1>12, <1>13, <1>14, <1>15, <1>16
     DEF Next, CallerStep, WorkerStep

(* A task that somebody knows of stays where it can be found. *)
LEMMA KeptStep ==
  ASSUME AnyIInv, [Next]_vars, NEW u \in Call, Kept(u)
  PROVE  Kept(u)'
<1> USE CallAssumption DEF AnyIInv, TypeOK, OnePlace, Kept, InSlot
<1> USE DEF caller, worker, clearing, Set, Unlock, Goto, Return, InCall
<1>1. ASSUME NEW c \in Call, Submit(c) PROVE Kept(u)'
  BY <1>1 DEF Submit
<1>2. ASSUME NEW c \in Call, AcquireLock(c) PROVE Kept(u)'
  BY <1>2 DEF AcquireLock
<1>3. ASSUME NEW c \in Call, GetExistingTaskId(c) PROVE Kept(u)'
  BY <1>3 DEF GetExistingTaskId, OnDuplicate
<1>4. ASSUME NEW c \in Call, Publish(c) PROVE Kept(u)'
  BY <1>4 DEF Publish
<1>5. ASSUME NEW c \in Call, UnlockAndRaise(c) PROVE Kept(u)'
  BY <1>5 DEF UnlockAndRaise
<1>6. ASSUME NEW c \in Call, PublishRaises(c) PROVE Kept(u)'
  BY <1>6 DEF PublishRaises
<1>7. ASSUME NEW c \in Call, CallerLost(c) PROVE Kept(u)'
  BY <1>7 DEF CallerLost
<1>8. ASSUME NEW c \in Call, SendTask(c) PROVE Kept(u)'
  BY <1>8 DEF SendTask
<1>9. ASSUME NEW w \in Slot, NEW t \in Call, Take(w, t) PROVE Kept(u)'
  BY <1>9 DEF Take
<1>10. ASSUME NEW w \in Slot, Finish(w) PROVE Kept(u)'
  BY <1>10 DEF Finish
<1>11. ASSUME NEW w \in Slot, ReleaseLock(w) PROVE Kept(u)'
  BY <1>11 DEF ReleaseLock, FreeSlot
<1>12. ASSUME NEW w \in Slot, ChildLost(w) PROVE Kept(u)'
  BY <1>12 DEF ChildLost, FreeSlot
<1>13. ASSUME Restart PROVE Kept(u)'
  BY <1>13 DEF Restart
<1>14. ASSUME NEW k \in Key, Expire(k) PROVE Kept(u)'
  BY <1>14 DEF Expire
<1>15. ASSUME NEW x \in Clearer, ClearStep(x) PROVE Kept(u)'
  BY <1>15 DEF ClearStep, ClearScan, ClearDelete
<1>16. CASE UNCHANGED vars
  BY <1>16 DEF vars
<1> QED
  BY <1>1, <1>2, <1>3, <1>4, <1>5, <1>6, <1>7, <1>8, <1>9, <1>10, <1>11,
     <1>12, <1>13, <1>14, <1>15, <1>16
     DEF Next, CallerStep, WorkerStep

(* A key is given to its caller, and an answer is of the key or one's own. *)
LEMMA IdsStep ==
  ASSUME AnyIInv, [Next]_vars
  PROVE  IdsKept'
<1> DEFINE Redis == \A k \in Key : redis'[k] \in {redis[k], Nil}
           Answers == answer' = answer
<1>1. ASSUME Redis, Answers PROVE IdsKept'
  BY <1>1, KeptStep, CallAssumption DEF AnyIInv, TypeOK, IdsKept, AnsweredTaskKept
<1> USE CallAssumption DEF AnyIInv, TypeOK, caller, worker, clearing, Set, Unlock, Goto, Return
<1>2. ASSUME NEW c \in Call, AcquireLock(c) PROVE IdsKept'
  <2>1. CASE redis' = redis
    BY <1>1, <1>2, <2>1 DEF AcquireLock
  <2>2. CASE redis' = [redis EXCEPT ![KeyOf[c]] = c]
    <3>1. pc'[c] = "publish" \/ redis' = redis
      BY <1>2 DEF AcquireLock
    <3>2. pc'[c] = "publish" => Kept(c)'
      BY DEF Kept
    <3>3. answer' = answer
      BY <1>2 DEF AcquireLock
    <3> QED
      BY <1>1, <2>2, <3>1, <3>2, <3>3, KeptStep DEF IdsKept, AnsweredTaskKept
  <2> QED
    BY <1>2, <2>1, <2>2 DEF AcquireLock
<1>3. ASSUME NEW c \in Call, GetExistingTaskId(c) PROVE IdsKept'
  <2>1. answer' = answer \/ (redis[KeyOf[c]] # Nil /\ answer' = [answer EXCEPT ![c] = redis[KeyOf[c]]])
    BY <1>3 DEF GetExistingTaskId, OnDuplicate
  <2>2. redis' = redis
    BY <1>3 DEF GetExistingTaskId
  <2> QED
    BY <2>1, <2>2, KeptStep DEF IdsKept, AnsweredTaskKept
<1>4. ASSUME NEW c \in Call, Publish(c) \/ SendTask(c) PROVE IdsKept'
  <2>1. answer' = [answer EXCEPT ![c] = c] /\ redis' = redis /\ c \in queue'
    BY <1>4 DEF Publish, SendTask
  <2>2. Kept(c)'
    BY <2>1 DEF Kept
  <2> QED
    BY <2>1, <2>2, KeptStep DEF IdsKept, AnsweredTaskKept
<1>5. ASSUME NEW c \in Call, \/ Submit(c) \/ UnlockAndRaise(c) \/ PublishRaises(c) \/ CallerLost(c)
      PROVE  Redis /\ Answers
  BY <1>5 DEF Submit, UnlockAndRaise, PublishRaises, CallerLost
<1>6. ASSUME NEW w \in Slot, WorkerStep(w) \/ ChildLost(w) PROVE Redis /\ Answers
  BY <1>6 DEF WorkerStep, Take, Finish, ReleaseLock, ChildLost
<1>7. ASSUME NEW k \in Key, Expire(k) PROVE Redis /\ Answers
  BY <1>7 DEF Expire
<1>8. ASSUME NEW x \in Clearer, ClearStep(x) PROVE Redis /\ Answers
  BY <1>8 DEF ClearStep, ClearScan, ClearDelete
<1>9. Restart \/ UNCHANGED vars => Redis /\ Answers
  BY DEF Restart, vars
<1> QED
  BY <1>1, <1>2, <1>3, <1>4, <1>5, <1>6, <1>7, <1>8, <1>9 DEF Next, CallerStep

(* At any time finitely many calls have been made. *)
LEMMA StartedStep ==
  ASSUME AnyIInv, [Next]_vars
  PROVE  IsFiniteSet(Started)'
<1> DEFINE More == \E c \in Call : Started' \subseteq Started \union {c}
<1>1. ASSUME More PROVE IsFiniteSet(Started)'
  BY <1>1, FS_AddElement, FS_Subset DEF AnyIInv
<1> USE DEF Started, AnyIInv, TypeOK, caller, Goto, Return
<1>2. ASSUME pc' = pc PROVE IsFiniteSet(Started)'
  <2>1. Started' = Started
    BY <1>2
  <2> QED
    BY <2>1
<1>3. ASSUME NEW c \in Call,
             \/ Submit(c) \/ CallerStep(c) \/ PublishRaises(c) \/ CallerLost(c) \/ SendTask(c)
      PROVE  More
  <2>1. \A d \in Call : d # c => pc'[d] = pc[d]
    BY <1>3 DEF Submit, CallerStep, AcquireLock, GetExistingTaskId, OnDuplicate, Publish,
       UnlockAndRaise, PublishRaises, CallerLost, SendTask
  <2> QED
    BY <2>1
<1>4. ASSUME NEW w \in Slot, WorkerStep(w) \/ ChildLost(w) PROVE pc' = pc
  BY <1>4 DEF WorkerStep, Take, Finish, ReleaseLock, ChildLost
<1>5. ASSUME NEW k \in Key, Expire(k) PROVE pc' = pc
  BY <1>5 DEF Expire
<1>6. ASSUME NEW x \in Clearer, ClearStep(x) PROVE pc' = pc
  BY <1>6 DEF ClearStep, ClearScan, ClearDelete
<1>7. Restart \/ UNCHANGED vars => pc' = pc
  BY DEF Restart, vars
<1> QED
  BY <1>1, <1>2, <1>3, <1>4, <1>5, <1>6, <1>7 DEF Next

LEMMA AnyInvariance == Spec => []AnyIInv
<1>1. AnyIInv /\ [Next]_vars => AnyIInv'
  BY TypeStep, OnePlaceStep, IdsStep, StartedStep DEF AnyIInv, OnePlace, BusySlot
<1> QED
  BY <1>1, AnyInit, PTL DEF Spec

(* No task whose id was given out is lost, with any events, expiry, clearing
   and restarts of the worker included: acks_late (bg_worker.py) and the
   order of publishing and answering (bg_utils.Singleton) see to it.       *)
THEOREM NoAnsweredTaskLost == Spec => []AnsweredTaskKept
<1>1. AnyIInv => AnsweredTaskKept
  BY DEF AnyIInv, IdsKept
<1> QED
  BY <1>1, AnyInvariance, PTL

-----------------------------------------------------------------------------
(* Deletions of keys. *)

KeySet(k) == IF redis[k] = Nil THEN 0 ELSE 1

LEMMA DueFinite ==
  ASSUME AnyIInv, NEW k \in Key
  PROVE  /\ IsFiniteSet(Handlers(k)) /\ IsFiniteSet(Tasks(k))
         /\ Cardinality(Handlers(k)) \in Nat /\ Cardinality(Tasks(k)) \in Nat
<1>1. Handlers(k) \subseteq Started /\ Tasks(k) \subseteq Started
  BY CallAssumption
     DEF Handlers, Tasks, Started, AnyIInv, TypeOK, OnePlace, BeforePublish, InSlot
<1> QED
  BY <1>1, FS_Subset, FS_CardinalityType DEF AnyIInv

LEMMA SameDue ==
  ASSUME AnyIInv, NEW k \in Key, Handlers(k)' = Handlers(k), Tasks(k)' = Tasks(k)
  PROVE  Excess(k)' = Excess(k) + KeySet(k) - KeySet(k)'
<1>1. Cardinality(Handlers(k)) \in Int /\ Cardinality(Tasks(k)) \in Int
  BY DueFinite
<1> QED
  BY <1>1 DEF Excess, KeySet

LEMMA OneMore ==
  ASSUME AnyIInv, NEW k \in Key, NEW c,
         \/ Handlers(k)' = Handlers(k) \union {c} /\ c \notin Handlers(k) /\ Tasks(k)' = Tasks(k)
         \/ Tasks(k)' = Tasks(k) \union {c} /\ c \notin Tasks(k) /\ Handlers(k)' = Handlers(k)
  PROVE  Excess(k)' = Excess(k) + KeySet(k) - KeySet(k)' + 1
<1>1. Cardinality(Handlers(k)) \in Int /\ Cardinality(Tasks(k)) \in Int
  BY DueFinite
<1>2. Cardinality(Handlers(k)') + Cardinality(Tasks(k)')
        = Cardinality(Handlers(k)) + Cardinality(Tasks(k)) + 1
      /\ Cardinality(Handlers(k)') \in Int /\ Cardinality(Tasks(k)') \in Int
  <2>1. CASE Tasks(k)' = Tasks(k)
    <3>1. Cardinality(Tasks(k)') = Cardinality(Tasks(k))
      BY <2>1
    <3>2. CASE Handlers(k)' = Handlers(k)
      BY <2>1, <3>1, <3>2, <1>1, DueFinite, FS_AddElement
    <3>3. CASE Handlers(k)' # Handlers(k)
      <4>1. Cardinality(Handlers(k)') = Cardinality(Handlers(k)) + 1
        BY <3>3, DueFinite, FS_AddElement
      <4> QED
        BY <4>1, <3>1, <1>1
    <3> QED
      BY <3>2, <3>3
  <2>2. CASE Handlers(k)' = Handlers(k) /\ Tasks(k)' # Tasks(k)
    <3>1. Cardinality(Handlers(k)') = Cardinality(Handlers(k))
      BY <2>2
    <3>2. Cardinality(Tasks(k)') = Cardinality(Tasks(k)) + 1
      BY <2>2, DueFinite, FS_AddElement
    <3> QED
      BY <3>1, <3>2, <1>1
  <2> QED
    BY <2>1, <2>2
<1> QED
  BY <1>1, <1>2 DEF Excess, KeySet

LEMMA OneLess ==
  ASSUME AnyIInv, NEW k \in Key, NEW c,
         \/ Handlers(k)' = Handlers(k) \ {c} /\ c \in Handlers(k) /\ Tasks(k)' = Tasks(k)
         \/ Tasks(k)' = Tasks(k) \ {c} /\ c \in Tasks(k) /\ Handlers(k)' = Handlers(k)
  PROVE  Excess(k)' = Excess(k) + KeySet(k) - KeySet(k)' - 1
<1>1. Cardinality(Handlers(k)) \in Int /\ Cardinality(Tasks(k)) \in Int
  BY DueFinite
<1>2. Cardinality(Handlers(k)') + Cardinality(Tasks(k)')
        = Cardinality(Handlers(k)) + Cardinality(Tasks(k)) - 1
      /\ Cardinality(Handlers(k)') \in Int /\ Cardinality(Tasks(k)') \in Int
  <2>1. CASE Tasks(k)' = Tasks(k)
    <3>1. Cardinality(Tasks(k)') = Cardinality(Tasks(k))
      BY <2>1
    <3>2. CASE Handlers(k)' = Handlers(k)
      BY <2>1, <3>1, <3>2, <1>1, DueFinite, FS_RemoveElement
    <3>3. CASE Handlers(k)' # Handlers(k)
      <4>1. Cardinality(Handlers(k)') = Cardinality(Handlers(k)) - 1
        BY <3>3, DueFinite, FS_RemoveElement
      <4> QED
        BY <4>1, <3>1, <1>1
    <3> QED
      BY <3>2, <3>3
  <2>2. CASE Handlers(k)' = Handlers(k) /\ Tasks(k)' # Tasks(k)
    <3>1. Cardinality(Handlers(k)') = Cardinality(Handlers(k))
      BY <2>2
    <3>2. Cardinality(Tasks(k)') = Cardinality(Tasks(k)) - 1
      BY <2>2, DueFinite, FS_RemoveElement
    <3> QED
      BY <3>1, <3>2, <1>1
  <2> QED
    BY <2>1, <2>2
<1> QED
  BY <1>1, <1>2 DEF Excess, KeySet

(* A published task takes the place of its caller. *)
LEMMA Exchanged ==
  ASSUME AnyIInv, NEW k \in Key, NEW c,
         Handlers(k)' = Handlers(k) \ {c}, c \in Handlers(k),
         Tasks(k)' = Tasks(k) \union {c}, c \notin Tasks(k)
  PROVE  Excess(k)' = Excess(k) + KeySet(k) - KeySet(k)'
<1>1. Cardinality(Handlers(k)) \in Int /\ Cardinality(Tasks(k)) \in Int
  BY DueFinite
<1>2. Cardinality(Handlers(k)') = Cardinality(Handlers(k)) - 1
  BY DueFinite, FS_RemoveElement
<1>3. Cardinality(Tasks(k)') = Cardinality(Tasks(k)) + 1
  BY DueFinite, FS_AddElement
<1> QED
  BY <1>1, <1>2, <1>3 DEF Excess, KeySet

Booked(k) ==
  /\ Excess(k)' > Excess(k) =>
       \/ Expire(k) \/ \E x \in Clearer : ClearDelete(x, k)
       \/ \E c \in Call : SendTask(c) \/ (PublishRaises(c) /\ queue' # queue)
  /\ Excess(k)' < Excess(k) =>
       redis[k] = Nil \/ (\E c \in Call : CallerLost(c)) \/ \E w \in Slot : ChildLost(w)

LEMMA BookedStep ==
  ASSUME AnyIInv, [Next]_vars, NEW k \in Key
  PROVE  Booked(k)
<1>0. Excess(k) \in Int /\ KeySet(k) \in {0, 1} /\ KeySet(k)' \in {0, 1}
      /\ (KeySet(k) = 0 <=> redis[k] = Nil)
  BY DueFinite DEF Excess, KeySet
<1> USE CallAssumption DEF AnyIInv, TypeOK, OnePlace, BeforePublish, InSlot, Handlers, Tasks
<1> USE DEF caller, worker, clearing, Set, Unlock, Goto, Return, InCall
<1>1. ASSUME NEW c \in Call, Submit(c) PROVE Booked(k)
  <2>1. Handlers(k)' = Handlers(k) /\ Tasks(k)' = Tasks(k) /\ redis' = redis
    BY <1>1 DEF Submit
  <2> QED
    BY <2>1, <1>0, SameDue DEF Booked, KeySet
<1>2. ASSUME NEW c \in Call, AcquireLock(c) PROVE Booked(k)
  <2>1. CASE redis[KeyOf[c]] = Nil /\ KeyOf[c] = k
    <3>1. Handlers(k)' = Handlers(k) \union {c} /\ c \notin Handlers(k) /\ Tasks(k)' = Tasks(k)
          /\ KeySet(k) = 0 /\ KeySet(k)' = 1
      BY <1>2, <2>1 DEF AcquireLock, KeySet
    <3> QED
      BY <3>1, <1>0, OneMore DEF Booked
  <2>2. CASE redis[KeyOf[c]] # Nil \/ KeyOf[c] # k
    <3>1. Handlers(k)' = Handlers(k) /\ Tasks(k)' = Tasks(k) /\ redis'[k] = redis[k]
      BY <1>2, <2>2 DEF AcquireLock
    <3> QED
      BY <3>1, <1>0, SameDue DEF Booked, KeySet
  <2> QED
    BY <2>1, <2>2
<1>3. ASSUME NEW c \in Call, GetExistingTaskId(c) PROVE Booked(k)
  <2>1. Handlers(k)' = Handlers(k) /\ Tasks(k)' = Tasks(k) /\ redis' = redis
    BY <1>3 DEF GetExistingTaskId, OnDuplicate
  <2> QED
    BY <2>1, <1>0, SameDue DEF Booked, KeySet
<1>4. ASSUME NEW c \in Call, Publish(c) PROVE Booked(k)
  <2>0. redis' = redis
    BY <1>4 DEF Publish
  <2>1. CASE KeyOf[c] = k
    <3>1. /\ Handlers(k)' = Handlers(k) \ {c} /\ c \in Handlers(k)
          /\ Tasks(k)' = Tasks(k) \union {c} /\ c \notin Tasks(k)
      BY <1>4, <2>1 DEF Publish
    <3> QED
      BY <2>0, <3>1, <1>0, Exchanged DEF Booked, KeySet
  <2>2. CASE KeyOf[c] # k
    <3>1. Handlers(k)' = Handlers(k) /\ Tasks(k)' = Tasks(k)
      BY <1>4, <2>2 DEF Publish
    <3> QED
      BY <2>0, <3>1, <1>0, SameDue DEF Booked, KeySet
  <2> QED
    BY <2>1, <2>2
<1>5. ASSUME NEW c \in Call, UnlockAndRaise(c) PROVE Booked(k)
  <2>1. CASE KeyOf[c] = k
    <3>1. /\ Handlers(k)' = Handlers(k) \ {c} /\ c \in Handlers(k) /\ Tasks(k)' = Tasks(k)
          /\ KeySet(k)' = 0
      BY <1>5, <2>1 DEF UnlockAndRaise, KeySet
    <3> QED
      BY <3>1, <1>0, OneLess DEF Booked
  <2>2. CASE KeyOf[c] # k
    <3>1. Handlers(k)' = Handlers(k) /\ Tasks(k)' = Tasks(k) /\ redis'[k] = redis[k]
      BY <1>5, <2>2 DEF UnlockAndRaise
    <3> QED
      BY <3>1, <1>0, SameDue DEF Booked, KeySet
  <2> QED
    BY <2>1, <2>2
<1>6. ASSUME NEW c \in Call, PublishRaises(c) PROVE Booked(k)
  <2>0. redis' = redis /\ Handlers(k)' = Handlers(k)
    BY <1>6 DEF PublishRaises
  <2>1. CASE queue' = queue
    <3>1. Tasks(k)' = Tasks(k)
      BY <1>6, <2>1 DEF PublishRaises
    <3> QED
      BY <2>0, <3>1, <1>0, SameDue DEF Booked, KeySet
  <2>2. CASE queue' # queue /\ KeyOf[c] = k
    <3>1. Tasks(k)' = Tasks(k) \union {c} /\ c \notin Tasks(k)
      BY <1>6, <2>2 DEF PublishRaises
    <3> QED
      BY <1>6, <2>0, <2>2, <3>1, <1>0, OneMore DEF Booked, KeySet
  <2>3. CASE queue' # queue /\ KeyOf[c] # k
    <3>1. Tasks(k)' = Tasks(k)
      BY <1>6, <2>3 DEF PublishRaises
    <3> QED
      BY <2>0, <3>1, <1>0, SameDue DEF Booked, KeySet
  <2> QED
    BY <2>1, <2>2, <2>3
<1>7. ASSUME NEW c \in Call, CallerLost(c) PROVE Booked(k)
  <2>0. redis' = redis /\ Tasks(k)' = Tasks(k)
    BY <1>7 DEF CallerLost
  <2>1. CASE c \in Handlers(k)
    <3>1. Handlers(k)' = Handlers(k) \ {c}
      BY <1>7, <2>1 DEF CallerLost
    <3>2. Excess(k)' = Excess(k) + KeySet(k) - KeySet(k)' - 1
      BY <2>0, <2>1, <3>1, OneLess
    <3> QED
      BY <1>7, <2>0, <3>2, <1>0 DEF Booked, KeySet
  <2>2. CASE c \notin Handlers(k)
    <3>1. Handlers(k)' = Handlers(k)
      BY <1>7, <2>2 DEF CallerLost
    <3> QED
      BY <2>0, <3>1, <1>0, SameDue DEF Booked, KeySet
  <2> QED
    BY <2>1, <2>2
<1>8. ASSUME NEW c \in Call, SendTask(c) PROVE Booked(k)
  <2>0. redis' = redis /\ Handlers(k)' = Handlers(k)
    BY <1>8 DEF SendTask
  <2>1. CASE KeyOf[c] = k
    <3>1. Tasks(k)' = Tasks(k) \union {c} /\ c \notin Tasks(k)
      BY <1>8, <2>1 DEF SendTask
    <3>2. Excess(k)' = Excess(k) + KeySet(k) - KeySet(k)' + 1
      BY <2>0, <3>1, OneMore
    <3> QED
      BY <1>8, <2>0, <3>2, <1>0 DEF Booked, KeySet
  <2>2. CASE KeyOf[c] # k
    <3>1. Tasks(k)' = Tasks(k)
      BY <1>8, <2>2 DEF SendTask
    <3> QED
      BY <2>0, <3>1, <1>0, SameDue DEF Booked, KeySet
  <2> QED
    BY <2>1, <2>2
<1>9. ASSUME NEW w \in Slot, NEW t \in Call, Take(w, t) PROVE Booked(k)
  <2>1. Handlers(k)' = Handlers(k) /\ Tasks(k)' = Tasks(k) /\ redis' = redis
    BY <1>9 DEF Take
  <2> QED
    BY <2>1, <1>0, SameDue DEF Booked, KeySet
<1>10. ASSUME NEW w \in Slot, Finish(w) PROVE Booked(k)
  <2>1. Handlers(k)' = Handlers(k) /\ Tasks(k)' = Tasks(k) /\ redis' = redis
    BY <1>10 DEF Finish
  <2> QED
    BY <2>1, <1>0, SameDue DEF Booked, KeySet
<1>11. ASSUME NEW w \in Slot, ReleaseLock(w) PROVE Booked(k)
  <2>0. Handlers(k)' = Handlers(k) /\ slot[w] \in Call
    BY <1>11 DEF ReleaseLock, FreeSlot
  <2>1. CASE KeyOf[slot[w]] = k
    <3>1. Tasks(k)' = Tasks(k) \ {slot[w]} /\ slot[w] \in Tasks(k)
      BY <1>11, <2>0, <2>1 DEF ReleaseLock, FreeSlot
    <3>2. KeySet(k)' = 0
      BY <1>11, <2>1 DEF ReleaseLock, KeySet
    <3>3. Excess(k)' = Excess(k) + KeySet(k) - KeySet(k)' - 1
      BY <2>0, <3>1, OneLess
    <3> QED
      BY <3>2, <3>3, <1>0 DEF Booked
  <2>2. CASE KeyOf[slot[w]] # k
    <3>1. Tasks(k)' = Tasks(k) /\ redis'[k] = redis[k]
      BY <1>11, <2>0, <2>2 DEF ReleaseLock, FreeSlot
    <3> QED
      BY <2>0, <3>1, <1>0, SameDue DEF Booked, KeySet
  <2> QED
    BY <2>1, <2>2
<1>12. ASSUME NEW w \in Slot, ChildLost(w) PROVE Booked(k)
  <2>0. Handlers(k)' = Handlers(k) /\ slot[w] \in Call /\ redis' = redis
    BY <1>12 DEF ChildLost, FreeSlot
  <2>1. CASE KeyOf[slot[w]] = k
    <3>1. Tasks(k)' = Tasks(k) \ {slot[w]} /\ slot[w] \in Tasks(k)
      BY <1>12, <2>0, <2>1 DEF ChildLost, FreeSlot
    <3>2. Excess(k)' = Excess(k) + KeySet(k) - KeySet(k)' - 1
      BY <2>0, <3>1, OneLess
    <3> QED
      BY <1>12, <2>0, <3>2, <1>0 DEF Booked, KeySet
  <2>2. CASE KeyOf[slot[w]] # k
    <3>1. Tasks(k)' = Tasks(k)
      BY <1>12, <2>0, <2>2 DEF ChildLost, FreeSlot
    <3> QED
      BY <2>0, <3>1, <1>0, SameDue DEF Booked, KeySet
  <2> QED
    BY <2>1, <2>2
<1>13. ASSUME Restart PROVE Booked(k)
  <2>1. Handlers(k)' = Handlers(k) /\ redis' = redis
    BY <1>13 DEF Restart
  <2>2. ASSUME NEW t \in Call
        PROVE  (t \in queue' \/ InSlot(t)') <=> (t \in queue \/ InSlot(t))
    <3>1. InSlot(t)' <=> FALSE
      BY <1>13 DEF Restart
    <3>2. t \in queue' <=> t \in queue \/ \E w \in Slot : stage[w] # "idle" /\ slot[w] = t
      BY <1>13 DEF Restart
    <3>3. InSlot(t) <=> \E w \in Slot : stage[w] # "idle" /\ slot[w] = t
      OBVIOUS
    <3> QED
      BY <3>1, <3>2, <3>3
  <2>3. Tasks(k)' = Tasks(k)
    <3> HIDE DEF InSlot
    <3> QED
      BY <2>2
  <2> QED
    BY <2>1, <2>3, <1>0, SameDue DEF Booked, KeySet
<1>14. ASSUME NEW j \in Key, Expire(j) \/ \E x \in Clearer : ClearDelete(x, j) PROVE Booked(k)
  <2>1. Handlers(k)' = Handlers(k) /\ Tasks(k)' = Tasks(k)
    BY <1>14 DEF Expire, ClearDelete
  <2>2. CASE j = k
    <3>1. KeySet(k)' = 0
      BY <1>14, <2>2 DEF Expire, ClearDelete, KeySet
    <3> QED
      BY <1>14, <2>1, <2>2, <3>1, <1>0, SameDue DEF Booked
  <2>3. CASE j # k
    <3>1. redis'[k] = redis[k]
      BY <1>14, <2>3 DEF Expire, ClearDelete
    <3> QED
      BY <2>1, <3>1, <1>0, SameDue DEF Booked, KeySet
  <2> QED
    BY <2>2, <2>3
<1>15. ASSUME NEW x \in Clearer, ClearScan(x) PROVE Booked(k)
  <2>1. Handlers(k)' = Handlers(k) /\ Tasks(k)' = Tasks(k) /\ redis' = redis
    BY <1>15 DEF ClearScan
  <2> QED
    BY <2>1, <1>0, SameDue DEF Booked, KeySet
<1>16. CASE UNCHANGED vars
  <2>1. Handlers(k)' = Handlers(k) /\ Tasks(k)' = Tasks(k) /\ redis' = redis
    BY <1>16 DEF vars
  <2> QED
    BY <2>1, <1>0, SameDue DEF Booked, KeySet
<1> QED
  BY <1>1, <1>2, <1>3, <1>4, <1>5, <1>6, <1>7, <1>8, <1>9, <1>10, <1>11,
     <1>12, <1>13, <1>14, <1>15, <1>16
     DEF Next, CallerStep, WorkerStep, ClearStep

(* A deletion too many is handed on and never multiplied, and none is
   forgotten, for any number of tasks and any events (bg_utils.Singleton,
   whose release, handler and clearing all delete by name).                *)
THEOREM DeletionsAreAccounted == Spec => DeletionsAccounted
<1>1. AnyIInv /\ [Next]_vars => [\A k \in Key : Booked(k)]_vars
  BY BookedStep
<1> QED
  BY <1>1, AnyInvariance, PTL DEF Spec, DeletionsAccounted, Booked

-----------------------------------------------------------------------------
(* The protocol implements SingletonPromise. *)

LEMMA PromiseInit == Init => Promise!Init
  BY CallAssumption
     DEF Init, Promise!Init, Admitted, Executing, Running

(* A step that changes no key, slot, outcome or answer is a stutter. *)
LEMMA PromiseStutter ==
  ASSUME UNCHANGED <<redis, slot, stage, ended, answer>>
  PROVE  UNCHANGED Promise!vars
  BY DEF Promise!vars, Admitted, Executing, Running

LEMMA PromiseStep ==
  ASSUME NoBypass, IInv, IInv', LateDeletion, Next
  PROVE  Promise!Next \/ UNCHANGED Promise!vars
<1> DEFINE Goal == Promise!Next \/ UNCHANGED Promise!vars
<1> USE CallAssumption DEF caller, worker, clearing, Set, Unlock, Goto, Return
<1>1. ASSUME NEW c \in Call, \/ Submit(c) \/ PublishRaises(c) \/ CallerLost(c)
      PROVE  Goal
  BY <1>1, PromiseStutter DEF Submit, PublishRaises, CallerLost
<1>2. ASSUME NEW c \in Call, AcquireLock(c) PROVE Goal
  <2>1. CASE redis[KeyOf[c]] = Nil
    <3>1. Promise!Admit(c)
      BY <1>2, <2>1 DEF AcquireLock, Promise!Admit, IInv, TypeOK, CallerOK,
         InCall, Admitted, Executing, Running
    <3> QED
      BY <3>1 DEF Promise!Next
  <2>2. CASE redis[KeyOf[c]] # Nil
    BY <1>2, <2>2, PromiseStutter DEF AcquireLock
  <2> QED
    BY <2>1, <2>2
<1>3. ASSUME NEW c \in Call, GetExistingTaskId(c) PROVE Goal
  <2>1. CASE redis[KeyOf[c]] = Nil \/ RaiseOnDuplicate
    BY <1>3, <2>1, PromiseStutter DEF GetExistingTaskId, OnDuplicate
  <2>2. CASE redis[KeyOf[c]] # Nil /\ ~RaiseOnDuplicate
    <3> DEFINE t == redis[KeyOf[c]]
    <3>1. t \in Call /\ KeyOf[t] = KeyOf[c] /\ redis[KeyOf[t]] = t
      BY <2>2 DEF IInv, TypeOK, KeyNamesItsTask
    <3>2. Promise!Answer(c, t)
      BY <1>3, <2>2, <3>1 DEF GetExistingTaskId, OnDuplicate, Promise!Answer,
         IInv, CallerOK, InCall, Admitted, Executing, Running
    <3> QED
      BY <3>1, <3>2 DEF Promise!Next
  <2> QED
    BY <2>1, <2>2
<1>4. ASSUME NEW c \in Call, Publish(c) PROVE Goal
  <2>1. Promise!Answer(c, c)
    BY <1>4 DEF Publish, Promise!Answer, IInv, CallerOK, InCall,
       Admitted, Executing, Running
  <2> QED
    BY <2>1 DEF Promise!Next
<1>5. ASSUME NEW c \in Call, UnlockAndRaise(c) PROVE Goal
  <2>1. Promise!Retire(c)
    <3>1. Admitted' = Admitted \ {c}
      BY <1>5 DEF UnlockAndRaise, IInv, TypeOK, CallerOK, Admitted
    <3>2. c \in Admitted \ Executing
      BY <1>5 DEF UnlockAndRaise, IInv, CallerOK, SlotOK, Admitted, Executing, Running
    <3> QED
      BY <1>5, <3>1, <3>2 DEF UnlockAndRaise, Promise!Retire, Executing, Running
  <2> QED
    BY <2>1 DEF Promise!Next
<1>6. ASSUME NEW w \in Slot, NEW t \in Call, Take(w, t) PROVE Goal
  <2>1. Executing' = Executing \union {t}
    BY <1>6 DEF Take, IInv, TypeOK, SlotOK, Executing, Running
  <2>2. t \in Admitted /\ t \notin Executing \union ended
    BY <1>6 DEF Take, IInv, QueueOK, Admitted, Executing, Running
  <2>3. Promise!Begin(t)
    BY <1>6, <2>1, <2>2 DEF Take, Promise!Begin, Admitted
  <2> QED
    BY <2>3 DEF Promise!Next
<1>7. ASSUME NEW w \in Slot, Finish(w) \/ ChildLost(w) PROVE Goal
  <2> DEFINE t == slot[w]
  <2>1. stage[w] = "run" /\ t \in Call
    BY <1>7 DEF Finish, ChildLost, IInv, TypeOK, SlotOK
  <2>2. Executing' = Executing \ {t}
    BY <1>7, <2>1 DEF Finish, ChildLost, FreeSlot, IInv, TypeOK, SlotOK, Executing, Running
  <2>3. Promise!End(t)
    BY <1>7, <2>1, <2>2 DEF Finish, ChildLost, Promise!End, Admitted, Executing, Running
  <2> QED
    BY <2>1, <2>3 DEF Promise!Next
<1>8. ASSUME NEW w \in Slot, ReleaseLock(w) PROVE Goal
  <2> DEFINE t == slot[w]
  <2>1. t \in Call /\ t # Nil /\ redis[KeyOf[t]] = t
    BY <1>8 DEF ReleaseLock, IInv, TypeOK, SlotOK
  <2>2. Admitted' = Admitted \ {t}
    BY <1>8, <2>1 DEF ReleaseLock, IInv, TypeOK, Admitted
  <2>3. t \in Admitted \ Executing
    BY <1>8, <2>1 DEF ReleaseLock, IInv, SlotOK, Admitted, Executing, Running
  <2>4. Executing' = Executing
    BY <1>8, <2>1 DEF ReleaseLock, FreeSlot, IInv, TypeOK, SlotOK, Executing, Running
  <2>5. Promise!Retire(t)
    BY <1>8, <2>2, <2>3, <2>4 DEF ReleaseLock, Promise!Retire
  <2> QED
    BY <2>1, <2>5 DEF Promise!Next
<1>9. ASSUME NEW k \in Key, Expire(k) \/ \E x \in Clearer : ClearDelete(x, k) PROVE Goal
  <2> DEFINE t == redis[k]
  <2>1. /\ redis' = [redis EXCEPT ![k] = Nil] /\ UNCHANGED <<slot, stage, ended, answer>>
        /\ t \notin Owned
    BY <1>9, DeletesOrphan
  <2>2. redis \in [Key -> Call \union {Nil}] /\ KeyOf \in [Call -> Key]
    BY DEF IInv, TypeOK
  <2>3. CASE t = Nil
    <3>1. redis' = redis
      BY <2>1, <2>2, <2>3
    <3> QED
      BY <2>1, <3>1, PromiseStutter
  <2>4. CASE t # Nil
    <3>1. t \in Call /\ KeyOf[t] = k
      BY <2>2, <2>4 DEF IInv, KeyNamesItsTask
    <3> HIDE DEF t
    <3>2. Admitted' = Admitted \ {t}
      BY <2>1, <2>2, <3>1 DEF Admitted, t
    <3>3. t \in Admitted \ Executing
      BY <2>1, <3>1 DEF Admitted, Executing, Running, Owned, Pending, InSlot, t
    <3>4. Promise!Retire(t)
      BY <2>1, <3>2, <3>3 DEF Promise!Retire, Executing, Running
    <3> QED
      BY <3>1, <3>4 DEF Promise!Next
  <2> QED
    BY <2>3, <2>4
<1>10. ASSUME NEW x \in Clearer, ClearScan(x) PROVE Goal
  BY <1>10, PromiseStutter DEF ClearScan
<1>11. ASSUME NEW c \in Call, SendTask(c) PROVE FALSE
  BY <1>11 DEF SendTask, NoBypass
<1>12. ASSUME Restart PROVE FALSE
  BY <1>12 DEF Restart, NoBypass
<1> QED
  BY <1>1, <1>2, <1>3, <1>4, <1>5, <1>6, <1>7, <1>8, <1>9, <1>10, <1>11, <1>12
     DEF Next, CallerStep, WorkerStep, ClearStep

(* De-duplication is exact although keys expire and beat clears them, as
   long as what goes are the keys of tasks that nobody will release: two
   slots never execute tasks of one key, each waiting task is named by its
   key, and apply_async, the broker and the worker together coalesce
   submissions as SingletonPromise says, for every number of calls, keys
   and slots.                                                              *)
THEOREM ExactWhileDeletedLate ==
  ASSUME NoBypass
  PROVE  Spec /\ [][LateDeletion]_vars =>
           []MutualExclusion /\ []PendingHoldsLock /\ ImplementsPromise
<1>1. Init => Promise!Init
  BY PromiseInit
<1>2. IInv /\ IInv' /\ [Next]_vars /\ [LateDeletion]_vars => [Promise!Next]_(Promise!vars)
  <2>1. UNCHANGED vars => UNCHANGED Promise!vars
    BY PromiseStutter DEF vars
  <2> QED
    BY <2>1, PromiseStep
<1>3. Spec /\ [][LateDeletion]_vars => []MutualExclusion /\ []PendingHoldsLock
  BY Invariance, ExcludesBoth, PendingHolds, PTL
<1>4. Spec /\ [][LateDeletion]_vars => ImplementsPromise
  BY <1>1, <1>2, Invariance, PTL DEF Spec, ImplementsPromise, Promise!Spec
<1> QED
  BY <1>3, <1>4, PTL

-----------------------------------------------------------------------------
(* Broker errors and killed processes, but no other deleter of keys: no
   expiry, no clear_locks, no task published around the lock.              *)
SafeEnv == Env \subseteq {"publish_fails", "caller_lost", "child_lost"}

(* No clear_locks is under way. *)
NoClear == boot = 0 /\ scan = [x \in Clearer |-> {}]

LEMMA SafeDeletesNothing ==
  ASSUME SafeEnv
  PROVE  Spec => [][LateDeletion]_vars
<1>1. Init => NoClear
  BY DEF Init, NoClear
<1>2. NoClear /\ [Next]_vars => NoClear'
  <2> SUFFICES ASSUME NoClear, [Next]_vars PROVE NoClear'
    OBVIOUS
  <2>1. CASE UNCHANGED <<scan, boot, restarts>>
    BY <2>1 DEF NoClear
  <2>2. ASSUME NEW x \in Clearer, ClearStep(x) PROVE FALSE
    BY <2>2 DEF ClearStep, ClearScan, ClearDelete, NoClear, SafeEnv
  <2>3. ASSUME Restart PROVE FALSE
    BY <2>3 DEF Restart, SafeEnv
  <2>4. ASSUME NEW c \in Call,
               \/ Submit(c) \/ CallerStep(c) \/ PublishRaises(c) \/ CallerLost(c) \/ SendTask(c)
        PROVE  UNCHANGED <<scan, boot, restarts>>
    BY <2>4 DEF Submit, CallerStep, PublishRaises, CallerLost, SendTask, AcquireLock,
       GetExistingTaskId, Publish, UnlockAndRaise, clearing
  <2>5. ASSUME NEW w \in Slot, WorkerStep(w) \/ ChildLost(w)
        PROVE  UNCHANGED <<scan, boot, restarts>>
    BY <2>5 DEF WorkerStep, ChildLost, Take, Finish, ReleaseLock, clearing
  <2>6. ASSUME NEW k \in Key, Expire(k) PROVE UNCHANGED <<scan, boot, restarts>>
    BY <2>6 DEF Expire, clearing
  <2>7. UNCHANGED vars => UNCHANGED <<scan, boot, restarts>>
    BY DEF vars
  <2> QED
    BY <2>1, <2>2, <2>3, <2>4, <2>5, <2>6, <2>7 DEF Next
<1>3. NoClear => LateDeletion
  BY DEF NoClear, LateDeletion, Expire, ClearDelete, SafeEnv
<1> QED
  BY <1>1, <1>2, <1>3, PTL DEF Spec

LEMMA SafeBypassesNothing ==
  ASSUME SafeEnv
  PROVE  NoBypass
  BY DEF SafeEnv, NoBypass

(* Two slots never execute tasks of one key at a time, whatever the broker
   refuses and whichever processes are lost.                               *)
THEOREM MutualExclusionHolds ==
  ASSUME SafeEnv
  PROVE  Spec => []MutualExclusion
  BY SafeBypassesNothing, SafeDeletesNothing, ExactWhileDeletedLate, PTL

(* The same for every task waiting or about to be published. *)
THEOREM PendingHoldsLockHolds ==
  ASSUME SafeEnv
  PROVE  Spec => []PendingHoldsLock
  BY SafeBypassesNothing, SafeDeletesNothing, ExactWhileDeletedLate, PTL

(* apply_async, the broker and the worker together coalesce submissions as
   SingletonPromise says, for every number of calls, keys and slots.       *)
THEOREM RefinesPromise ==
  ASSUME SafeEnv
  PROVE  Spec => ImplementsPromise
  BY SafeBypassesNothing, SafeDeletesNothing, ExactWhileDeletedLate, PTL
=============================================================================
