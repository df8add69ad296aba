--------------------------- MODULE Workflow_proofs ---------------------------
(***************************************************************************)
(* The order of the tasks of a refresh, for any number of refreshes, pages *)
(* and requests, any scenarios and any pool of slots.                      *)
(***************************************************************************)
EXTENDS Workflow, FiniteSetTheorems, TLAPS

Returned(t) == status[t] \in {"true", "false"}

(* A step is submitted when, and because, the step before it has returned;
   the check of a group lets only successes pass.                          *)
Ordered(w) ==
  /\ \A i \in 1..4 : \A n \in First[i] :
       status[<<n, w>>] # "none" =>
         i \in Groups(w) /\ (i - 1 \in Groups(w) => status[<<Check[i - 1], w>>] = "true")
  /\ status[<<Loads, w>>] # "none" => Returned(<<Boundary, w>>)
  /\ \A i \in 1..3 : status[<<Check[i], w>>] # "none" =>
       i \in Groups(w) /\ \A m \in Header[i] : Returned(<<m, w>>)

Passed(w) ==
  /\ \A i \in 1..3 : status[<<Check[i], w>>] = "true" =>
       \A m \in Header[i] : status[<<m, w>>] = "true"
  /\ \A i \in 1..4 : status[<<Check[i], w>>] # "false"
  /\ status[<<Loads, w>>] = "true" => status[<<Boundary, w>>] = "true"

(* The task that a page asks about exists, and no exception ends it. *)
Followed(u) ==
  page[u].state # "enabled" =>
    /\ page[u].task \in {Results} \X (Run \union Page)
    /\ status[page[u].task] \notin {"none", "raised", "duplicate"}

Shape ==
  /\ status \in [Task -> Status]
  /\ page \in [Page -> [state : {"enabled", "asked", "polling", "threw"}, task : Task]]

InSlots == IsFiniteSet(Busy) /\ Cardinality(Busy) <= Slots

IInv ==
  /\ Shape
  /\ InSlots
  /\ \A w \in Run : Ordered(w) /\ Passed(w)
  /\ \A u \in Page : Followed(u)

-----------------------------------------------------------------------------
(* The constants. *)

LEMMA Names ==
  /\ Header[1] = StaticTables /\ Header[2] = {Attributes, Loads} /\ Header[3] = {Results}
  /\ First[1] = StaticTables /\ First[2] = {Attributes, Boundary}
  /\ First[3] = {Results} /\ First[4] = {Check[4]}
  /\ DOMAIN Header = 1..3 /\ DOMAIN Check = 1..4
  /\ \A i \in 1..3 : Header[i] \subseteq TableTask
  /\ \A i \in 1..4 : First[i] \subseteq Steps
  /\ TableTask \subseteq Steps
  /\ \A i \in 1..4 : Check[i] \in Steps \ TableTask
  /\ \A i, j \in 1..4 : Check[i] = Check[j] => i = j
  /\ \A n \in Steps : n \notin {One, All}
  /\ \A s \in StaticTables : s \notin {Attributes, Boundary, Loads, Results}
<1> USE DEF Header, First, Check
<1>1. DOMAIN Header = 1..3 /\ DOMAIN Check = 1..4
  OBVIOUS
<1>2. /\ Header[1] = StaticTables /\ Header[2] = {Attributes, Loads} /\ Header[3] = {Results}
      /\ First[1] = StaticTables /\ First[2] = {Attributes, Boundary}
      /\ First[3] = {Results} /\ First[4] = {Check[4]}
  OBVIOUS
<1>0. /\ 1..4 = {1, 2, 3, 4}
      /\ Check[1] = "pulled static gis resources"
      /\ Check[2] = "update tmnt and refresh LGU tables"
      /\ Check[3] = "update results" /\ Check[4] = "finalize task"
  OBVIOUS
<1> HIDE DEF Header, First, Check
<1>3. \A i \in 1..4 : Check[i] \notin TableTask /\ Check[i] \notin {One, All}
  BY <1>0, WorkflowAssumption DEF TableTask, Attributes, Boundary, Loads, Results, One, All
<1>8. \A i, j \in 1..4 : Check[i] = Check[j] => i = j
  BY <1>0
<1>9. \A n \in TableTask : n \notin {One, All}
  BY WorkflowAssumption DEF TableTask, Attributes, Boundary, Loads, Results, One, All
<1>5. \A s \in StaticTables : s \notin {Attributes, Boundary, Loads, Results}
  BY WorkflowAssumption DEF Attributes, Boundary, Loads, Results
<1>6. TableTask \subseteq Steps /\ {Attributes, Boundary, Loads, Results} \union StaticTables = TableTask
  BY DEF TableTask, Steps
<1>4. Steps = TableTask \union {Check[i] : i \in 1..4}
  BY <1>1 DEF Steps
<1>7. /\ \A i \in 1..3 : Header[i] \subseteq TableTask
      /\ \A i \in 1..4 : First[i] \subseteq Steps
  <2>1. 1..3 = {1, 2, 3} /\ 1..4 = {1, 2, 3, 4}
    OBVIOUS
  <2> QED
    BY <1>2, <1>3, <1>4, <1>6, <2>1
<1> QED
  BY <1>1, <1>2, <1>3, <1>4, <1>5, <1>6, <1>7, <1>8, <1>9

LEMMA GroupNumbers ==
  ASSUME NEW w \in Run
  PROVE  /\ Groups(w) \in {{1}, {2}, {3}, 1..4}
         /\ Start(w) \in Groups(w) /\ Start(w) - 1 \notin Groups(w)
<1>1. Groups(w) \in {{1}, {2}, {3}, 1..4}
  BY WorkflowAssumption DEF Groups
<1>2. \E i \in Groups(w) : i - 1 \notin Groups(w)
  BY <1>1
<1> QED
  BY <1>1, <1>2 DEF Start

LEMMA StepTasks ==
  /\ \A n \in Steps, w \in Run : <<n, w>> \in Task
  /\ \A t \in Task : t = <<t[1], t[2]>>
  /\ \A t \in Task : t[1] \in Steps => t[2] \in Run \/ (t[1] = Results /\ t[2] \in Page)
  /\ \A u \in Page : <<Results, u>> \in Task
  /\ \A p \in Submission : <<All, p>> \in Task /\ Children(p) \subseteq Task
  /\ \A r \in Single : <<One, <<One, r>>>> \in Task
<1>1. \A t \in {Results} \X Page : t = <<t[1], t[2]>> /\ t[1] = Results /\ t[2] \in Page
  OBVIOUS
<1>2. \A t \in {All} \X Submission : t = <<t[1], t[2]>> /\ t[1] = All
  OBVIOUS
<1>3. \A p \in Submission : \A t \in Children(p) : t = <<t[1], t[2]>> /\ t[1] = One
  BY DEF Children
<1>4. \A n \in Steps, w \in Run : <<n, w>> \in Task
  BY DEF Task
<1>5. \A u \in Page : <<Results, u>> \in Task
  BY DEF Task
<1>6. \A p \in Submission : <<All, p>> \in Task /\ Children(p) \subseteq Task
  BY DEF Task
<1>7. \A r \in Single : <<One, <<One, r>>>> \in Task
  BY DEF Task
<1>8. ASSUME NEW t \in Task
      PROVE  /\ t = <<t[1], t[2]>>
             /\ t[1] \in Steps => t[2] \in Run \/ (t[1] = Results /\ t[2] \in Page)
  <2>1. CASE t \in Steps \X Run
    BY <2>1
  <2>2. CASE t \in {Results} \X Page
    BY <2>2, <1>1
  <2>3. CASE t \in {All} \X Submission
    BY <2>3, <1>2, Names
  <2>4. CASE t \in UNION {Children(p) : p \in Submission}
    BY <2>4, <1>3, Names
  <2>5. CASE t \in {<<One, <<One, r>>>> : r \in Single}
    BY <2>5, Names
  <2> QED
    BY <2>1, <2>2, <2>3, <2>4, <2>5 DEF Task
<1> QED
  BY <1>4, <1>5, <1>6, <1>7, <1>8

-----------------------------------------------------------------------------
(* What a step does to the tasks. *)

(* Submission of tasks that were never submitted before. *)
Submits(ts) ==
  /\ \A t \in ts : status[t] = "none" /\ status'[t] \in {"queued", "duplicate"}
  /\ \A t \in Task \ ts : status'[t] = status[t]

LEMMA SubmittedTypes ==
  ASSUME NEW st \in [Task -> Status], NEW ts \in SUBSET Task
  PROVE  /\ Submitted(st, ts) \in [Task -> Status]
         /\ \A t \in ts : Submitted(st, ts)[t] \in {"queued", "duplicate"}
         /\ \A t \in Task \ ts : Submitted(st, ts)[t] = st[t]
  BY DEF Submitted, Status

LEMMA AnswerTask ==
  ASSUME NEW t \in Task, NEW st
  PROVE  /\ Answer(st, t) \in Task
         /\ Answer(st, t) # t => Answer(st, t) \in Holding(st, t)
<1>1. Holding(st, t) # {} => (CHOOSE u \in Holding(st, t) : TRUE) \in Holding(st, t)
  OBVIOUS
<1>2. Holding(st, t) \subseteq Task
  BY DEF Holding
<1> QED
  BY <1>1, <1>2 DEF Answer

(* No task that was not in a slot gets into one. *)
LEMMA SlotsKept ==
  ASSUME InSlots, \A t \in Task : status'[t] \in {"running", "waiting"} =>
                                    status[t] \in {"running", "waiting"}
  PROVE  InSlots'
<1>1. Busy' \subseteq Busy
  BY DEF Busy
<1>2. IsFiniteSet(Busy') /\ Cardinality(Busy') <= Cardinality(Busy)
  BY <1>1, FS_Subset DEF InSlots
<1>3. Cardinality(Busy) \in Nat /\ Cardinality(Busy') \in Nat /\ Slots \in Nat
  BY <1>2, FS_CardinalityType, WorkflowAssumption DEF InSlots
<1> QED
  BY <1>2, <1>3 DEF InSlots

(* A step that lets every step of a refresh be submitted, returned and
   successful as before disturbs no order.                                 *)
LEMMA OrderKept ==
  ASSUME NEW w \in Run, Ordered(w), Passed(w),
         \A n \in Steps :
           \/ status'[<<n, w>>] = status[<<n, w>>]
           \/ /\ status[<<n, w>>] \notin {"none", "true", "false"}
              /\ status'[<<n, w>>] \notin {"none", "true", "false"}
  PROVE  Ordered(w)' /\ Passed(w)'
<1>1. \A n \in Steps :
        /\ status'[<<n, w>>] = "none" <=> status[<<n, w>>] = "none"
        /\ status'[<<n, w>>] = "true" <=> status[<<n, w>>] = "true"
        /\ status'[<<n, w>>] = "false" <=> status[<<n, w>>] = "false"
  OBVIOUS
<1>2. \A i \in 1..4 : First[i] \subseteq Steps /\ Check[i] \in Steps
  BY Names
<1>3. \A i \in 1..3 : Header[i] \subseteq Steps /\ Check[i] \in Steps
  BY Names
<1>4. Loads \in Steps /\ Boundary \in Steps
  BY DEF Steps, TableTask
<1>5. \A i \in 1..4 : i - 1 \in Groups(w) => Check[i - 1] \in Steps
  BY <1>2, GroupNumbers
<1>6. Ordered(w)'
  BY <1>1, <1>2, <1>3, <1>4, <1>5 DEF Ordered, Returned
<1>7. Passed(w)'
  BY <1>1, <1>2, <1>3, <1>4 DEF Passed
<1> QED
  BY <1>6, <1>7

LEMMA FollowedKept ==
  ASSUME NEW u \in Page, Followed(u), page'[u] = page[u],
         \A t \in {Results} \X (Run \union Page) :
           \/ status[t] = "none"
           \/ status'[t] = status[t]
           \/ status'[t] \notin {"none", "raised", "duplicate"}
  PROVE  Followed(u)'
  BY DEF Followed
(* The tasks that follow one that runs have not been submitted. *)
LEMMA FollowersNew ==
  ASSUME Shape, NEW w \in Run, Ordered(w), NEW n \in Steps, NEW st,
         status[<<n, w>>] \notin {"none", "true", "false"}
  PROVE  /\ Followers(st, <<n, w>>) \subseteq Task
         /\ \A f \in Followers(st, <<n, w>>) : status[f] = "none"
<1>1. Followers(st, <<n, w>>) \subseteq Steps \X {w}
  BY DEF Followers
<1>2. Followers(st, <<n, w>>) \subseteq Task
  BY <1>1, StepTasks
<1>3. ASSUME NEW m \in Steps, <<m, w>> \in Followers(st, <<n, w>>)
      PROVE  status[<<m, w>>] = "none"
  <2>1. CASE n = Boundary /\ m = Loads
    BY <2>1 DEF Ordered, Returned
  <2>2. ASSUME NEW i \in 1..3, n \in Header[i], m = Check[i]
        PROVE  status[<<m, w>>] = "none"
    BY <2>2 DEF Ordered, Returned
  <2>3. ASSUME NEW i \in 1..3, n = Check[i], i + 1 \in Groups(w), m \in First[i + 1]
        PROVE  status[<<m, w>>] = "none"
    <3>1. i \in Groups(w)
      BY <2>3 DEF Ordered
    <3>2. i + 1 \in 1..4 /\ (i + 1) - 1 = i
      OBVIOUS
    <3>3. status[<<m, w>>] # "none" => status[<<Check[(i + 1) - 1], w>>] = "true"
      BY <2>3, <3>1, <3>2 DEF Ordered
    <3> QED
      BY <2>3, <3>2, <3>3
  <2> QED
    BY <1>3, <2>1, <2>2, <2>3, Names DEF Followers
<1> QED
  BY <1>1, <1>2, <1>3

(* What the end of a task does to the statuses. *)
LEMMA EndedStatus ==
  ASSUME Shape, \A w \in Run : Ordered(w),
         NEW t \in Task, status[t] \in {"running", "waiting"},
         NEW outcome \in {"true", "false", "raised"}, Ended(t, outcome)
  PROVE  /\ status' \in [Task -> Status]
         /\ status'[t] = outcome
         /\ \A x \in Task \ {t} :
              \/ status'[x] = status[x]
              \/ /\ status[x] = "none" /\ status'[x] \in {"queued", "duplicate"}
                 /\ t[1] \in Steps /\ t[2] \in Run /\ outcome \in {"true", "false"}
                 /\ x \in Followers([status EXCEPT ![t] = outcome], t)
<1> DEFINE st == [status EXCEPT ![t] = outcome]
<1>1. /\ st \in [Task -> Status]
      /\ st[t] = outcome
      /\ \A x \in Task \ {t} : st[x] = status[x]
  BY DEF Shape, Status
<1>2. CASE t[1] \in Steps /\ t[2] \in Run /\ outcome \in {"true", "false"}
  <2>1. t = <<t[1], t[2]>>
    BY StepTasks
  <2>2. /\ Followers(st, t) \subseteq Task
        /\ \A f \in Followers(st, t) : status[f] = "none"
    BY <1>2, <2>1, FollowersNew
  <2>3. status' = Submitted(st, Followers(st, t))
    BY <1>2 DEF Ended
  <2> HIDE DEF st
  <2>4. /\ status' \in [Task -> Status]
        /\ \A x \in Followers(st, t) : status'[x] \in {"queued", "duplicate"}
        /\ \A x \in Task \ Followers(st, t) : status'[x] = st[x]
    BY <1>1, <2>2, <2>3, SubmittedTypes
  <2> QED
    BY <1>1, <1>2, <2>2, <2>4 DEF st
<1>3. CASE ~(t[1] \in Steps /\ t[2] \in Run /\ outcome \in {"true", "false"})
  BY <1>1, <1>3 DEF Ended
<1> QED
  BY <1>2, <1>3

(* The order is kept by the end of a task, as long as a check succeeds only
   if its group has, and the loads only after the boundary.                *)
LEMMA EndedOrder ==
  ASSUME Shape, NEW w \in Run, \A v \in Run : Ordered(v) /\ Passed(v),
         NEW t \in Task, status[t] \in {"running", "waiting"},
         NEW outcome \in {"true", "false", "raised"}, Ended(t, outcome),
         \A i \in 1..4 : t = <<Check[i], w>> => outcome # "false",
         \A i \in 1..3 : t = <<Check[i], w>> /\ outcome = "true" =>
           \A m \in Header[i] : status[<<m, w>>] = "true",
         t = <<Loads, w>> /\ outcome = "true" => status[<<Boundary, w>>] = "true"
  PROVE  Ordered(w)' /\ Passed(w)'
<1>1. CASE t[2] # w \/ t[1] \notin Steps \/ outcome = "raised"
  <2>1. ASSUME NEW n \in Steps
        PROVE  \/ status'[<<n, w>>] = status[<<n, w>>]
               \/ /\ status[<<n, w>>] \notin {"none", "true", "false"}
                  /\ status'[<<n, w>>] \notin {"none", "true", "false"}
    <3>1. <<n, w>> \in Task
      BY StepTasks
    <3>2. CASE <<n, w>> = t
      BY <3>2, <1>1, EndedStatus
    <3>3. CASE <<n, w>> # t
      <4>1. <<n, w>> \in Followers([status EXCEPT ![t] = outcome], t) => w = t[2]
        BY DEF Followers
      <4> QED
        BY <3>1, <3>3, <4>1, <1>1, EndedStatus
    <3> QED
      BY <3>2, <3>3
  <2> QED
    BY <2>1, OrderKept
<1>2. CASE t[2] = w /\ t[1] \in Steps /\ outcome \in {"true", "false"}
  <2> DEFINE n == t[1]
             st == [status EXCEPT ![t] = outcome]
             S(m) == status[<<m, w>>]
             T(m) == status'[<<m, w>>]
  <2>1. t = <<n, w>> /\ n \in Steps
    BY <1>2, StepTasks
  <2>2. /\ S(n) \in {"running", "waiting"} /\ T(n) = outcome
        /\ \A m \in Steps \ {n} :
             \/ T(m) = S(m)
             \/ /\ S(m) = "none" /\ T(m) \in {"queued", "duplicate"}
                /\ <<m, w>> \in Followers(st, <<n, w>>)
    <3>1. S(n) \in {"running", "waiting"} /\ T(n) = outcome
      BY <2>1, EndedStatus
    <3>2. ASSUME NEW m \in Steps \ {n}
          PROVE  \/ T(m) = S(m)
                 \/ /\ S(m) = "none" /\ T(m) \in {"queued", "duplicate"}
                    /\ <<m, w>> \in Followers(st, <<n, w>>)
      <4>1. <<m, w>> \in Task \ {t}
        BY <2>1, StepTasks
      <4>2. \/ status'[<<m, w>>] = status[<<m, w>>]
            \/ /\ status[<<m, w>>] = "none" /\ status'[<<m, w>>] \in {"queued", "duplicate"}
               /\ <<m, w>> \in Followers(st, t)
        BY <4>1, EndedStatus
      <4> QED
        BY <2>1, <4>2
    <3> QED
      BY <3>1, <3>2
  <2>3. ASSUME NEW m \in Steps, <<m, w>> \in Followers(st, <<n, w>>)
        PROVE  \/ n = Boundary /\ m = Loads
               \/ \E i \in 1..3 : n \in Header[i] /\ m = Check[i]
                                 /\ \A x \in Header[i] \ {n} : Returned(<<x, w>>)
               \/ \E i \in 1..3 : n = Check[i] /\ i + 1 \in Groups(w) /\ m \in First[i + 1]
    <3>1. \A i \in 1..3 : \A x \in Header[i] : <<x, w>> \in Task
      BY Names, StepTasks
    <3>2. \A i \in 1..3 : \A x \in Header[i] \ {n} : st[<<x, w>>] = status[<<x, w>>]
      BY <2>1, <3>1 DEF Shape
    <3>3. \/ n = Boundary /\ m = Loads
          \/ \E i \in 1..3 : n \in Header[i] /\ m = Check[i]
                            /\ \A x \in Header[i] : HasReturned(st, <<x, w>>)
          \/ \E i \in 1..3 : n = Check[i] /\ i + 1 \in Groups(w) /\ m \in First[i + 1]
      BY <2>3, Names DEF Followers
    <3> HIDE DEF st
    <3> QED
      BY <3>2, <3>3 DEF HasReturned, Returned
  <2> HIDE DEF n, st, S, T
  <2>4. Ordered(w) /\ Passed(w)
    OBVIOUS
  <2>5. ASSUME NEW i \in 1..4, NEW m \in First[i], T(m) # "none"
        PROVE  i \in Groups(w) /\ (i - 1 \in Groups(w) => T(Check[i - 1]) = "true")
    <3>1. m \in Steps
      BY Names
    <3>2. CASE S(m) # "none"
      <4>1. i \in Groups(w) /\ (i - 1 \in Groups(w) => S(Check[i - 1]) = "true")
        BY <3>2, <2>4 DEF Ordered, S
      <4>2. i - 1 \in Groups(w) => Check[i - 1] \in Steps
        BY Names, GroupNumbers
      <4> QED
        BY <4>1, <4>2, <2>2
    <3>3. CASE S(m) = "none"
      <4>1. <<m, w>> \in Followers(st, <<n, w>>)
        BY <3>1, <3>3, <2>2, <2>5
      <4>2. m # Loads /\ \A j \in 1..3 : m # Check[j]
        BY Names, <2>5 DEF TableTask, Loads, Attributes, Boundary, Results
      <4>3. PICK j \in 1..3 : n = Check[j] /\ j + 1 \in Groups(w) /\ m \in First[j + 1]
        BY <3>1, <4>1, <4>2, <2>3
      <4>4. i = j + 1
        BY <4>3, Names, <2>5 DEF TableTask, Attributes, Boundary, Results
      <4>5. T(Check[j]) = "true"
        BY <4>3, <2>1, <2>2, <1>2
      <4> QED
        BY <4>3, <4>4, <4>5
    <3> QED
      BY <3>2, <3>3
  <2>6. ASSUME T(Loads) # "none"
        PROVE  T(Boundary) \in {"true", "false"}
    <3>1. Loads \in Steps /\ Boundary \in Steps /\ Loads # Boundary
      BY DEF Steps, TableTask, Loads, Boundary
    <3>2. CASE S(Loads) # "none"
      BY <3>1, <3>2, <2>2, <2>4 DEF Ordered, Returned, S
    <3>3. CASE S(Loads) = "none"
      <4>1. <<Loads, w>> \in Followers(st, <<n, w>>)
        BY <3>1, <3>3, <2>2, <2>6
      <4>2. \A j \in 1..3 : Loads # Check[j] /\ Loads \notin First[j + 1]
        BY Names DEF TableTask, Loads, Attributes, Boundary, Results
      <4>3. n = Boundary
        BY <3>1, <4>1, <4>2, <2>3
      <4> QED
        BY <4>3, <2>2, <1>2
    <3> QED
      BY <3>2, <3>3
  <2>7. ASSUME NEW i \in 1..3, T(Check[i]) # "none"
        PROVE  i \in Groups(w) /\ \A m \in Header[i] : T(m) \in {"true", "false"}
    <3>1. Check[i] \in Steps /\ Header[i] \subseteq Steps
      BY Names
    <3>2. CASE S(Check[i]) # "none"
      BY <3>1, <3>2, <2>2, <2>4 DEF Ordered, Returned, S
    <3>3. CASE S(Check[i]) = "none"
      <4>1. <<Check[i], w>> \in Followers(st, <<n, w>>)
        BY <3>1, <3>3, <2>2, <2>7
      <4>2. Check[i] # Loads /\ \A j \in 1..3 : Check[i] \notin First[j + 1]
        BY Names DEF TableTask, Loads, Attributes, Boundary, Results
      <4>3. PICK j \in 1..3 : n \in Header[j] /\ Check[i] = Check[j]
                            /\ \A x \in Header[j] \ {n} : Returned(<<x, w>>)
        BY <3>1, <4>1, <4>2, <2>3
      <4>4. i = j
        BY <4>3, Names
      <4>5. \A m \in Header[i] : T(m) \in {"true", "false"}
        BY <3>1, <4>3, <4>4, <2>2, <1>2 DEF Returned, S
      <4>6. i \in Groups(w)
        <5>1. CASE n = Loads
          <6>1. i = 2
            BY <4>3, <4>4, <5>1, Names DEF Loads, Results
          <6>2. S(Boundary) # "none" /\ Boundary \in First[2]
            <7>1. S(Loads) # "none"
              BY <5>1, <2>2
            <7> QED
              BY <7>1, <2>4, Names DEF Ordered, Returned, S
          <6>3. 2 \in 1..4
            OBVIOUS
          <6> QED
            BY <6>1, <6>2, <6>3, <2>4 DEF Ordered, S
        <5>2. CASE n # Loads
          <6>1. n \in First[i]
            BY <4>3, <4>4, <5>2, Names
          <6>2. S(n) # "none" /\ i \in 1..4
            BY <2>2
          <6> QED
            BY <6>1, <6>2, <2>4 DEF Ordered, S
        <5> QED
          BY <5>1, <5>2
      <4> QED
        BY <4>5, <4>6
    <3> QED
      BY <3>2, <3>3
  <2>8. Ordered(w)'
    BY <2>5, <2>6, <2>7 DEF Ordered, Returned, T
  <2>9. ASSUME NEW i \in 1..3, T(Check[i]) = "true"
        PROVE  \A m \in Header[i] : T(m) = "true"
    <3>1. Check[i] \in Steps /\ Header[i] \subseteq Steps
      BY Names
    <3>2. \A m \in Header[i] : S(m) = "true"
      <4>1. CASE Check[i] = n
        BY <4>1, <2>1, <2>2, <2>9 DEF S
      <4>2. CASE Check[i] # n
        BY <4>2, <3>1, <2>2, <2>4, <2>9 DEF Passed, S
      <4> QED
        BY <4>1, <4>2
    <3> QED
      BY <3>1, <3>2, <2>2
  <2>10. ASSUME NEW i \in 1..4
         PROVE  T(Check[i]) # "false"
    <3>1. Check[i] \in Steps
      BY Names
    <3>2. S(Check[i]) # "false"
      BY <2>4 DEF Passed, S
    <3>3. CASE Check[i] = n
      BY <3>3, <2>1, <2>2
    <3>4. CASE Check[i] # n
      BY <3>1, <3>2, <3>4, <2>2
    <3> QED
      BY <3>3, <3>4
  <2>11. T(Loads) = "true" => T(Boundary) = "true"
    <3>1. Loads \in Steps /\ Boundary \in Steps /\ Loads # Boundary
      BY DEF Steps, TableTask, Loads, Boundary
    <3> QED
      BY <3>1, <2>1, <2>2, <2>4 DEF Passed, S
  <2>12. Passed(w)'
    BY <2>9, <2>10, <2>11 DEF Passed, T
  <2> QED
    BY <2>8, <2>12
<1> QED
  BY <1>1, <1>2
LEMMA EndedInv ==
  ASSUME IInv, NEW t \in Task, status[t] \in {"running", "waiting"},
         NEW outcome \in {"true", "false", "raised"}, Ended(t, outcome),
         \A i \in 1..4 : t[1] = Check[i] => outcome # "false",
         \A i \in 1..3 : t[1] = Check[i] /\ outcome = "true" =>
           \A m \in Header[i] : status[<<m, t[2]>>] = "true",
         t[1] = Loads /\ outcome = "true" => status[<<Boundary, t[2]>>] = "true",
         t[1] = Results => outcome # "raised",
         UNCHANGED page
  PROVE  IInv'
<1>1. /\ status' \in [Task -> Status] /\ status'[t] = outcome
      /\ \A x \in Task \ {t} :
           \/ status'[x] = status[x]
           \/ status[x] = "none" /\ status'[x] \in {"queued", "duplicate"}
  BY EndedStatus DEF IInv
<1>2. Shape'
  BY <1>1 DEF IInv, Shape
<1>3. InSlots'
  BY <1>1, SlotsKept DEF IInv
<1>4. ASSUME NEW w \in Run
      PROVE  Ordered(w)' /\ Passed(w)'
  <2>1. ASSUME NEW n, t = <<n, w>>
        PROVE  t[1] = n /\ t[2] = w
    BY <2>1
  <2> QED
    BY <2>1, EndedOrder DEF IInv
<1>5. ASSUME NEW u \in Page
      PROVE  Followed(u)'
  <2>1. ASSUME NEW x \in {Results} \X (Run \union Page)
        PROVE  \/ status[x] = "none"
               \/ status'[x] = status[x]
               \/ status'[x] \notin {"none", "raised", "duplicate"}
    <3>1. x \in Task /\ x[1] = Results
      BY StepTasks DEF Steps, TableTask
    <3> QED
      BY <3>1, <1>1
  <2> QED
    BY <2>1, FollowedKept DEF IInv
<1> QED
  BY <1>2, <1>3, <1>4, <1>5 DEF IInv

(* Steps that concern no order and start no task. *)
LEMMA QuietInv ==
  ASSUME IInv, Shape', page' = page,
         \A t \in Task : status'[t] \in {"running", "waiting"} =>
                         status[t] \in {"running", "waiting"},
         \A n \in Steps, w \in Run :
           \/ status'[<<n, w>>] = status[<<n, w>>]
           \/ /\ status[<<n, w>>] \notin {"none", "true", "false"}
              /\ status'[<<n, w>>] \notin {"none", "true", "false"},
         \A t \in {Results} \X (Run \union Page) :
           \/ status[t] = "none"
           \/ status'[t] = status[t]
           \/ status'[t] \notin {"none", "raised", "duplicate"}
  PROVE  IInv'
<1>1. InSlots'
  BY SlotsKept DEF IInv
<1>2. \A w \in Run : Ordered(w)' /\ Passed(w)'
  BY OrderKept DEF IInv
<1>3. \A u \in Page : Followed(u)'
  BY FollowedKept DEF IInv
<1> QED
  BY <1>1, <1>2, <1>3 DEF IInv

LEMMA StartRunInv ==
  ASSUME IInv, NEW w \in Run, StartRun(w)
  PROVE  IInv'
<1> DEFINE ts == First[Start(w)] \X {w}
<1>1. Start(w) \in 1..4 /\ First[Start(w)] \subseteq Steps
  BY GroupNumbers, Names
<1>2. ts \subseteq Task /\ \A t \in ts : status[t] = "none"
  BY <1>1, StepTasks DEF StartRun
<1>3. status' = Submitted(status, ts)
  BY DEF StartRun
<1> HIDE DEF ts
<1>4. /\ status' \in [Task -> Status]
      /\ \A t \in ts : status'[t] \in {"queued", "duplicate"}
      /\ \A t \in Task \ ts : status'[t] = status[t]
  BY <1>2, <1>3, SubmittedTypes DEF IInv, Shape
<1>5. Shape'
  BY <1>4 DEF IInv, Shape, StartRun
<1>6. InSlots'
  BY <1>2, <1>4, SlotsKept DEF IInv
<1>7. ASSUME NEW v \in Run \ {w}
      PROVE  Ordered(v)' /\ Passed(v)'
  <2>1. \A n \in Steps : status'[<<n, v>>] = status[<<n, v>>]
    BY <1>4, StepTasks DEF ts
  <2> QED
    BY <2>1, OrderKept DEF IInv
<1>8. Ordered(w)' /\ Passed(w)'
  <2> DEFINE F == First[Start(w)]
  <2>1. /\ \A n \in F : status[<<n, w>>] = "none" /\ status'[<<n, w>>] \in {"queued", "duplicate"}
        /\ \A n \in Steps \ F : status'[<<n, w>>] = status[<<n, w>>]
    BY <1>2, <1>4, StepTasks DEF ts
  <2>2. \A n \in Steps : status[<<n, w>>] # "none" =>
          n \notin F /\ status'[<<n, w>>] = status[<<n, w>>]
    BY <2>1
  <2>3. Start(w) # 4
    BY GroupNumbers
  <2>4. Loads \notin F /\ \A i \in 1..3 : Check[i] \notin F
    BY <1>1, <2>3, Names DEF TableTask, Loads, Attributes, Boundary, Results
  <2>5. \A i \in 1..4 : \A n \in First[i] : n \in F => i = Start(w)
    BY <1>1, Names DEF TableTask, Loads, Attributes, Boundary, Results
  <2>6. Start(w) \in Groups(w) /\ Start(w) - 1 \notin Groups(w)
    BY GroupNumbers
  <2>7. /\ \A i \in 1..4 : First[i] \subseteq Steps /\ Check[i] \in Steps
        /\ \A i \in 1..3 : Header[i] \subseteq Steps
        /\ Loads \in Steps /\ Boundary \in Steps
        /\ \A i \in 1..4 : i - 1 \in Groups(w) => Check[i - 1] \in Steps
    BY Names, GroupNumbers DEF Steps, TableTask
  <2> HIDE DEF F
  <2>8. Ordered(w) /\ Passed(w)
    BY DEF IInv
  <2>9. ASSUME NEW i \in 1..4, NEW n \in First[i], status'[<<n, w>>] # "none"
        PROVE  i \in Groups(w) /\ (i - 1 \in Groups(w) => status'[<<Check[i - 1], w>>] = "true")
    <3>1. CASE n \in F
      BY <3>1, <2>5, <2>6
    <3>2. CASE n \notin F
      BY <3>2, <2>1, <2>2, <2>7, <2>8, <2>9 DEF Ordered
    <3> QED
      BY <3>1, <3>2
  <2>10. Ordered(w)'
    BY <2>1, <2>2, <2>4, <2>7, <2>8, <2>9 DEF Ordered, Returned
  <2>11. Passed(w)'
    <3>1. \A n \in Steps : status'[<<n, w>>] \in {"true", "false"} =>
            status'[<<n, w>>] = status[<<n, w>>]
      BY <2>1
    <3> QED
      BY <2>2, <2>7, <2>8, <3>1 DEF Passed
  <2> QED
    BY <2>10, <2>11
<1>9. ASSUME NEW u \in Page
      PROVE  Followed(u)'
  <2>1. \A x \in {Results} \X (Run \union Page) :
          x \in Task /\ (status[x] = "none" \/ status'[x] = status[x])
    BY <1>2, <1>4, StepTasks DEF Steps, TableTask
  <2> QED
    BY <2>1, FollowedKept DEF IInv, StartRun
<1> QED
  BY <1>5, <1>6, <1>7, <1>8, <1>9 DEF IInv

(* Requests to solve scenarios submit no step of a refresh. *)
LEMMA SolvesInv ==
  ASSUME IInv, NEW ts \in SUBSET Task,
         \A t \in ts : t[1] \in {One, All},
         status' = Submitted(status, ts), UNCHANGED page
  PROVE  IInv'
<1>1. /\ status' \in [Task -> Status]
      /\ \A t \in ts : status'[t] \in {"queued", "duplicate"}
      /\ \A t \in Task \ ts : status'[t] = status[t]
  BY SubmittedTypes DEF IInv, Shape
<1>2. Shape'
  BY <1>1 DEF IInv, Shape
<1>3. ASSUME NEW t \in Task, status'[t] \in {"running", "waiting"}
      PROVE  status[t] \in {"running", "waiting"}
  BY <1>1, <1>3
<1>4. ASSUME NEW t \in Task, t[1] \in Steps
      PROVE  status'[t] = status[t]
  BY <1>1, <1>4, Names
<1>5. \A n \in Steps, w \in Run : <<n, w>> \in Task /\ <<n, w>>[1] = n
  BY StepTasks
<1>6. \A t \in {Results} \X (Run \union Page) : t \in Task /\ t[1] \in Steps
  BY StepTasks DEF Steps, TableTask
<1> QED
  BY <1>2, <1>3, <1>4, <1>5, <1>6, QuietInv

LEMMA SolveInv ==
  ASSUME IInv,
         \/ \E p \in Submission : SolveAll(p)
         \/ \E r \in Single : SolveSingle(r)
  PROVE  IInv'
<1>1. ASSUME NEW p \in Submission, SolveAll(p) PROVE IInv'
  <2>1. {<<All, p>>} \in SUBSET Task /\ <<All, p>>[1] = All
    BY StepTasks
  <2> QED
    BY <1>1, <2>1, SolvesInv DEF SolveAll
<1>2. ASSUME NEW r \in Single, SolveSingle(r) PROVE IInv'
  <2>1. {<<One, <<One, r>>>>} \in SUBSET Task /\ <<One, <<One, r>>>>[1] = One
    BY StepTasks
  <2> QED
    BY <1>2, <2>1, SolvesInv DEF SolveSingle
<1> QED
  BY <1>1, <1>2

LEMMA CallGroupInv ==
  ASSUME IInv, NEW p \in Submission, CallGroup(p)
  PROVE  IInv'
<1> DEFINE t == <<All, p>>
<1>1. t \in Task /\ t[1] = All /\ Children(p) \subseteq Task
  BY StepTasks
<1>2. \A x \in Children(p) : x[1] = One
  BY DEF Children
<1>3. t \notin Children(p)
  BY <1>1, <1>2 DEF One, All
<1>4. /\ status' = [Submitted(status, Children(p)) EXCEPT ![t] = "waiting"]
      /\ status[t] = "running" /\ page' = page
  BY DEF CallGroup
<1> HIDE DEF t
<1>5. /\ Submitted(status, Children(p)) \in [Task -> Status]
      /\ \A x \in Children(p) : Submitted(status, Children(p))[x] \in {"queued", "duplicate"}
      /\ \A x \in Task \ Children(p) : Submitted(status, Children(p))[x] = status[x]
  BY <1>1, SubmittedTypes DEF IInv, Shape
<1>6. /\ status' \in [Task -> Status] /\ status'[t] = "waiting"
      /\ \A x \in Children(p) : status'[x] \in {"queued", "duplicate"}
      /\ \A x \in Task \ (Children(p) \union {t}) : status'[x] = status[x]
  BY <1>1, <1>3, <1>4, <1>5 DEF Status
<1>7. Shape'
  BY <1>4, <1>6 DEF IInv, Shape
<1>8. ASSUME NEW x \in Task, status'[x] \in {"running", "waiting"}
       PROVE  status[x] \in {"running", "waiting"}
  BY <1>4, <1>6, <1>8
<1>9. ASSUME NEW x \in Task, x[1] \in Steps
       PROVE  status'[x] = status[x]
  BY <1>1, <1>2, <1>6, <1>9, Names
<1>10. \A n \in Steps, w \in Run : <<n, w>> \in Task /\ <<n, w>>[1] = n
  BY StepTasks
<1>11. \A x \in {Results} \X (Run \union Page) : x \in Task /\ x[1] \in Steps
  BY StepTasks DEF Steps, TableTask
<1> QED
  BY <1>4, <1>7, <1>8, <1>9, <1>10, <1>11, QuietInv

LEMMA TakeInv ==
  ASSUME IInv, NEW t \in Task, Take(t)
  PROVE  IInv'
<1>1. /\ status[t] = "queued" /\ Cardinality(Busy) < Slots
      /\ status' \in [Task -> Status] /\ status'[t] = "running"
      /\ \A x \in Task \ {t} : status'[x] = status[x]
  BY DEF Take, MayTake, IInv, Shape, Status
<1>2. Shape' /\ page' = page
  BY <1>1 DEF Take, IInv, Shape
<1>3. InSlots'
  <2>1. Busy' = Busy \union {t} /\ t \notin Busy
    BY <1>1 DEF Busy
  <2>2. IsFiniteSet(Busy') /\ Cardinality(Busy') = Cardinality(Busy) + 1
    BY <2>1, FS_AddElement DEF IInv, InSlots
  <2>3. Cardinality(Busy) \in Nat /\ Slots \in Nat
    BY FS_CardinalityType, WorkflowAssumption DEF IInv, InSlots
  <2> QED
    BY <1>1, <2>2, <2>3 DEF InSlots
<1>4. ASSUME NEW w \in Run
      PROVE  Ordered(w)' /\ Passed(w)'
  <2>1. \A n \in Steps :
           \/ status'[<<n, w>>] = status[<<n, w>>]
           \/ /\ status[<<n, w>>] \notin {"none", "true", "false"}
              /\ status'[<<n, w>>] \notin {"none", "true", "false"}
    BY <1>1, StepTasks
  <2> QED
    BY <2>1, OrderKept DEF IInv
<1>5. ASSUME NEW u \in Page
      PROVE  Followed(u)'
  <2>1. \A x \in {Results} \X (Run \union Page) : x \in Task
    BY StepTasks DEF Steps, TableTask
  <2>2. \A x \in {Results} \X (Run \union Page) :
           status'[x] = status[x] \/ status'[x] \notin {"none", "raised", "duplicate"}
    BY <1>1, <2>1
  <2> QED
    BY <1>2, <2>2, FollowedKept DEF IInv
<1> QED
  BY <1>2, <1>3, <1>4, <1>5 DEF IInv

(* The process of a task is lost, or its lock afterwards. *)
LEMMA LostInv ==
  ASSUME IInv, NEW t \in Task,
         (Killed(t) /\ t \in Busy) \/ LockGone(t)
  PROVE  IInv'
<1>1. /\ status[t] \in {"running", "waiting", "killed"}
      /\ status' \in [Task -> Status] /\ status'[t] \in {"killed", "expired"}
      /\ \A x \in Task \ {t} : status'[x] = status[x]
      /\ UNCHANGED page
  BY DEF Killed, LockGone, Busy, IInv, Shape, Status
<1>2. Shape' /\ page' = page
  BY <1>1 DEF IInv, Shape
<1>3. \A n \in Steps, w \in Run :
           \/ status'[<<n, w>>] = status[<<n, w>>]
           \/ /\ status[<<n, w>>] \notin {"none", "true", "false"}
              /\ status'[<<n, w>>] \notin {"none", "true", "false"}
  BY <1>1, StepTasks
<1>4. \A x \in {Results} \X (Run \union Page) : x \in Task
  BY StepTasks DEF Steps, TableTask
<1>5. \A x \in {Results} \X (Run \union Page) :
         status'[x] = status[x] \/ status'[x] \notin {"none", "raised", "duplicate"}
  BY <1>1, <1>4
<1>6. \A x \in Task : status'[x] \in {"running", "waiting"} =>
                       status[x] \in {"running", "waiting"}
  BY <1>1
<1> QED
  BY <1>2, <1>3, <1>5, <1>6, QuietInv
LEMMA ResultsTasks ==
  ASSUME NEW u \in Page, NEW st
  PROVE  /\ Answer(st, <<Results, u>>) \in {Results} \X (Run \union Page)
         /\ Answer(st, <<Results, u>>) # <<Results, u>> =>
              st[Answer(st, <<Results, u>>)] \in {"queued", "running", "waiting", "killed"}
<1> DEFINE t == <<Results, u>>
           a == Answer(st, t)
<1>1. t \in Task /\ t[1] = Results /\ Results \in Steps
  BY StepTasks DEF Steps, TableTask
<1>2. a \in Task /\ (a # t => a \in Holding(st, t))
  BY <1>1, AnswerTask
<1>3. CASE a = t
  BY <1>3
<1>4. CASE a # t
  <2>1. /\ Key(a) = Key(t) /\ IsSingleton(a)
        /\ st[a] \in {"queued", "running", "waiting", "killed"}
    BY <1>2, <1>4 DEF Holding
  <2>2. Key(t)[1] = Results /\ (a[1] = Results => Key(a)[1] = Results)
    BY <1>1 DEF Key
  <2>3. a[1] = Results
    BY <1>1, <2>1, <2>2 DEF Key, IsSingleton, Results, One, All
  <2>4. a = <<a[1], a[2]>> /\ a[2] \in Run \union Page
    BY <1>1, <1>2, <2>3, StepTasks
  <2> QED
    BY <1>4, <2>1, <2>3, <2>4
<1> QED
  BY <1>3, <1>4

LEMMA ClickInv ==
  ASSUME IInv, NEW u \in Page, Click(u)
  PROVE  IInv'
<1> DEFINE t == <<Results, u>>
           a == Answer(status, t)
<1>1. t \in Task /\ status[t] = "none" /\ page[u].state = "enabled"
  BY StepTasks DEF Click
<1>2. a \in {Results} \X (Run \union Page)
  BY ResultsTasks
<1>3. a \in Task
  BY <1>1, AnswerTask
<1>4. status' = Submitted(status, {t})
      /\ page' = [page EXCEPT ![u] = [state |-> "asked", task |-> a]]
  BY DEF Click
<1>5. /\ status' \in [Task -> Status] /\ status'[t] \in {"queued", "duplicate"}
      /\ \A x \in Task \ {t} : status'[x] = status[x]
  <2>1. {t} \in SUBSET Task /\ status \in [Task -> Status]
    BY <1>1 DEF IInv, Shape
  <2> QED
    BY <1>4, <2>1, SubmittedTypes
<1>6. a = t => status'[t] = "queued"
  BY <1>1, <1>4 DEF Submitted
<1>7. a # t => status[a] \in {"queued", "running", "waiting", "killed"}
  BY ResultsTasks
<1> HIDE DEF a
<1>8. Shape'
  BY <1>3, <1>4, <1>5 DEF IInv, Shape
<1>9. InSlots'
  BY <1>5, SlotsKept DEF IInv
<1>10. ASSUME NEW w \in Run
       PROVE  Ordered(w)' /\ Passed(w)'
  <2>1. \A n \in Steps : <<n, w>> \in Task \ {t}
    BY StepTasks, WorkflowAssumption
  <2> QED
    BY <1>5, <2>1, OrderKept DEF IInv
<1>11. Followed(u)'
  <2>1. page'[u] = [state |-> "asked", task |-> a]
    BY <1>4 DEF IInv, Shape
  <2>2. status'[a] \notin {"none", "raised", "duplicate"}
    BY <1>3, <1>5, <1>6, <1>7
  <2> QED
    BY <1>2, <2>1, <2>2 DEF Followed
<1>12. ASSUME NEW v \in Page \ {u}
       PROVE  Followed(v)'
  <2>1. page'[v] = page[v]
    BY <1>4 DEF IInv, Shape
  <2>2. \A x \in {Results} \X (Run \union Page) :
           x \in Task /\ (status[x] = "none" \/ status'[x] = status[x])
    BY <1>1, <1>5, StepTasks DEF Steps, TableTask
  <2> QED
    BY <2>1, <2>2, FollowedKept DEF IInv
<1> QED
  BY <1>8, <1>9, <1>10, <1>11, <1>12 DEF IInv

LEMMA PageInv ==
  ASSUME IInv, NEW u \in Page, Respond(u) \/ Poll(u)
  PROVE  IInv'
<1>1. /\ page[u].state # "enabled" /\ page'[u].task = page[u].task
      /\ page' \in [Page -> [state : {"enabled", "asked", "polling", "threw"}, task : Task]]
      /\ \A v \in Page \ {u} : page'[v] = page[v]
      /\ UNCHANGED status
  BY DEF Respond, Poll, IInv, Shape
<1>2. Shape' /\ InSlots'
  BY <1>1 DEF IInv, Shape, InSlots, Busy
<1>3. \A w \in Run : Ordered(w)' /\ Passed(w)'
  BY <1>1 DEF IInv, Ordered, Passed, Returned
<1>4. \A v \in Page : Followed(v)'
  BY <1>1 DEF IInv, Followed
<1> QED
  BY <1>2, <1>3, <1>4 DEF IInv

(* The ends of tasks. *)
LEMMA WorkerInv ==
  ASSUME IInv,
         \/ \E t \in Busy : RunInChain(t) \/ CheckResults(t) \/ UpdateScenario(t)
         \/ \E p \in Submission : GetResults(p)
  PROVE  IInv'
<1>1. ASSUME NEW t \in Busy, RunInChain(t) PROVE IInv'
  <2>1. t \in Task /\ status[t] \in {"running", "waiting"} /\ t[1] \in TableTask
        /\ UNCHANGED page
    BY <1>1 DEF Busy, RunInChain
  <2>2. PICK outcome \in {"true", "false", "raised"} :
          /\ Ended(t, outcome)
          /\ outcome = "raised" <=> ~ContinueChain(t)
    BY <1>1 DEF RunInChain
  <2>3. \A i \in 1..4 : t[1] # Check[i]
    BY <2>1, Names
  <2>4. t[1] = Loads /\ outcome = "true" => status[<<Boundary, t[2]>>] = "true"
    BY <2>2 DEF ContinueChain
  <2>5. t[1] = Results => outcome # "raised"
    BY <2>2 DEF ContinueChain, Results, Loads
  <2> QED
    BY <2>1, <2>2, <2>3, <2>4, <2>5, EndedInv
<1>2. ASSUME NEW t \in Busy, CheckResults(t) PROVE IInv'
  <2>1. t \in Task /\ status[t] \in {"running", "waiting"} /\ UNCHANGED page
    BY <1>2 DEF Busy, CheckResults
  <2>2. PICK i \in 1..4, outcome \in {"true", "raised"} :
          /\ t[1] = Check[i] /\ Ended(t, outcome)
          /\ i # 4 /\ outcome = "true" => \A n \in Header[i] : status[<<n, t[2]>>] = "true"
    <3>1. CASE t[1] = Check[4] /\ Ended(t, "true")
      BY <3>1
    <3>2. ASSUME NEW i \in DOMAIN Header, t[1] = Check[i],
                 Ended(t, IF \A n \in Header[i] : status[<<n, t[2]>>] = "true"
                          THEN "true" ELSE "raised")
          PROVE  \E j \in 1..4, outcome \in {"true", "raised"} :
                   /\ t[1] = Check[j] /\ Ended(t, outcome)
                   /\ j # 4 /\ outcome = "true" =>
                        \A n \in Header[j] : status[<<n, t[2]>>] = "true"
      <4>1. i \in 1..3
        BY Names
      <4>2. CASE \A n \in Header[i] : status[<<n, t[2]>>] = "true"
        BY <3>2, <4>1, <4>2
      <4>3. CASE ~\A n \in Header[i] : status[<<n, t[2]>>] = "true"
        BY <3>2, <4>1, <4>3
      <4> QED
        BY <4>2, <4>3
    <3> QED
      BY <1>2, <3>1, <3>2 DEF CheckResults
  <2>3. \A j \in 1..3 : t[1] = Check[j] /\ outcome = "true" =>
           \A m \in Header[j] : status[<<m, t[2]>>] = "true"
    <3>1. \A j \in 1..3 : t[1] = Check[j] => i = j /\ i # 4
      <4>1. \A j \in 1..3 : j \in 1..4 /\ j # 4
        OBVIOUS
      <4> QED
        BY <4>1, <2>2, Names
    <3> QED
      BY <2>2, <3>1
  <2>4. t[1] \notin {Loads, Results}
    BY <2>2, Names DEF TableTask
  <2> QED
    BY <2>1, <2>2, <2>3, <2>4, EndedInv
<1>3. ASSUME NEW t \in Busy, UpdateScenario(t) PROVE IInv'
  <2>1. /\ t \in Task /\ status[t] \in {"running", "waiting"} /\ UNCHANGED page
        /\ t[1] = One
        /\ \E outcome \in {"true", "raised"} : Ended(t, outcome)
    BY <1>3 DEF Busy, UpdateScenario
  <2>2. One \notin Steps
    BY Names
  <2>3. /\ \A i \in 1..4 : t[1] # Check[i]
        /\ \A i \in 1..3 : t[1] # Check[i]
        /\ t[1] # Loads /\ t[1] # Results
    BY <2>1, <2>2, Names DEF Steps, TableTask
  <2> QED
    BY <2>1, <2>3, EndedInv
<1>4. ASSUME NEW p \in Submission, GetResults(p) PROVE IInv'
  <2> DEFINE t == <<All, p>>
  <2>1. /\ t \in Task /\ status[t] \in {"running", "waiting"} /\ UNCHANGED page
        /\ t[1] = All
        /\ \E outcome \in {"true", "raised"} : Ended(t, outcome)
    BY <1>4, StepTasks DEF GetResults
  <2>2. All \notin Steps
    BY Names
  <2> HIDE DEF t
  <2>3. /\ \A i \in 1..4 : t[1] # Check[i]
        /\ \A i \in 1..3 : t[1] # Check[i]
        /\ t[1] # Loads /\ t[1] # Results
    BY <2>1, <2>2, Names DEF Steps, TableTask
  <2> QED
    BY <2>1, <2>3, EndedInv
<1> QED
  BY <1>1, <1>2, <1>3, <1>4

LEMMA InitInv ==
  Init => IInv
<1> SUFFICES ASSUME Init PROVE IInv
  OBVIOUS
<1>1. \A t \in Task : status[t] = "none"
  BY DEF Init
<1>2. Shape
  BY StepTasks DEF Init, Shape, Status
<1>3. InSlots
  <2>1. Busy = {}
    BY <1>1 DEF Busy
  <2> QED
    BY <2>1, FS_EmptySet, WorkflowAssumption DEF InSlots
<1>4. ASSUME NEW w \in Run
      PROVE  Ordered(w) /\ Passed(w)
  <2>1. \A n \in Steps : status[<<n, w>>] = "none"
    BY <1>1, StepTasks
  <2>2. /\ \A i \in 1..4 : First[i] \subseteq Steps /\ Check[i] \in Steps
        /\ \A i \in 1..3 : Check[i] \in Steps
        /\ Loads \in Steps
    BY Names DEF Steps, TableTask
  <2> QED
    BY <2>1, <2>2 DEF Ordered, Passed
<1>5. \A u \in Page : Followed(u)
  BY DEF Init, Followed
<1> QED
  BY <1>2, <1>3, <1>4, <1>5 DEF IInv

LEMMA NextInv ==
  IInv /\ [Next]_vars => IInv'
<1> SUFFICES ASSUME IInv, [Next]_vars PROVE IInv'
  OBVIOUS
<1>1. CASE \E t \in Queued : Take(t)
  BY <1>1, TakeInv DEF Queued
<1>2. CASE \/ \E t \in Busy : RunInChain(t) \/ CheckResults(t) \/ UpdateScenario(t)
           \/ \E p \in Submission : GetResults(p)
  BY <1>2, WorkerInv
<1>3. CASE \E p \in Submission : CallGroup(p)
  BY <1>3, CallGroupInv
<1>4. CASE \E u \in Page : Respond(u) \/ Poll(u)
  BY <1>4, PageInv
<1>5. CASE \E w \in Run : StartRun(w)
  BY <1>5, StartRunInv
<1>6. CASE (\E p \in Submission : SolveAll(p)) \/ (\E r \in Single : SolveSingle(r))
  BY <1>6, SolveInv
<1>7. CASE \E u \in Page : Click(u)
  BY <1>7, ClickInv
<1>8. CASE (\E t \in Busy : Killed(t)) \/ (\E t \in Task : LockGone(t))
  BY <1>8, LostInv DEF Busy
<1>9. CASE UNCHANGED vars
  BY <1>9 DEF vars, IInv, Shape, InSlots, Busy, Ordered, Passed, Returned, Followed
<1> QED
  BY <1>1, <1>2, <1>3, <1>4, <1>5, <1>6, <1>7, <1>8, <1>9 DEF Next, Work, Event

-----------------------------------------------------------------------------
(* The strengthening: each step of a refresh was submitted after the step
   before it had returned, and succeeded only if that one had.             *)
THEOREM Strengthening == Spec => []IInv
<1>1. Init => IInv
  BY InitInv
<1>2. IInv /\ [Next]_vars => IInv'
  BY NextInv
<1> QED
  BY <1>1, <1>2, PTL DEF Spec

Counted == requests \in 0..MaxRequests

LEMMA RequestsStep ==
  Counted /\ [Next]_vars => Counted'
<1> SUFFICES ASSUME Counted, [Next]_vars PROVE Counted'
  OBVIOUS
<1>1. requests' = requests \/ Requested
  BY DEF Next, Work, Event, vars, Take, RunInChain, CheckResults, UpdateScenario, CallGroup,
         GetResults, Respond, Poll, StartRun, SolveAll, SolveSingle, Click, Killed, LockGone
<1> QED
  BY <1>1, WorkflowAssumption DEF Requested, Counted

(* Statuses and pages are what they should be, and the worker never runs
   more tasks than it has slots.                                           *)
THEOREM TypeCorrect == Spec => []TypeOK
<1>1. IInv /\ Counted => TypeOK
  BY DEF Counted, IInv, Shape, InSlots, TypeOK
<1>2. Init => Counted
  BY WorkflowAssumption DEF Init, Counted
<1> QED
  BY <1>1, <1>2, RequestsStep, Strengthening, PTL DEF Spec

(* What the steps of a refresh write and read, for the steps that may run
   at the same time.                                                       *)
LEMMA WrittenUsed ==
  /\ Written[Attributes] = {"tmnt_facility_attribute"}
  /\ Written[Boundary] = {"lgu_boundary"} /\ Written[Loads] = {"lgu_load"}
  /\ Used(Attributes) = {"tmnt_facility_attribute", "tmnt_facility", "subbasin"}
  /\ Used(Boundary) = {"lgu_boundary", "tmnt_facility", "tmnt_facility_delineation", "subbasin"}
  /\ Used(Loads) = {"lgu_load", "lgu_boundary"}
  /\ \A m, n \in StaticTables : m # n => Written[m] \intersect Used(n) = {}
<1> USE DEF Attributes, Boundary, Loads, Results
<1>1. /\ {Attributes, Boundary, Loads} \subseteq TableTask /\ StaticTables \subseteq TableTask
  BY DEF TableTask
<1>2. /\ Written[Attributes] = {"tmnt_facility_attribute"}
      /\ Written[Boundary] = {"lgu_boundary"} /\ Written[Loads] = {"lgu_load"}
  BY <1>1 DEF Written
<1>3. /\ DOMAIN Inputs = {"lgu_boundary", "tmnt_facility_attribute", "lgu_load",
                          "tmnt_source_control_upstream_load_reduced",
                          "lgu_load_to_structural", "graph_edge", "result_blob",
                          "load_to_ds_src_ctrl",
                          "tmnt_source_control_downstream_load_reduced", "subbasin_result"}
      /\ Inputs["lgu_boundary"] = {"tmnt_facility", "tmnt_facility_delineation", "subbasin"}
      /\ Inputs["tmnt_facility_attribute"] = {"tmnt_facility", "subbasin"}
      /\ Inputs["lgu_load"] = {"lgu_boundary"}
  BY DEF Inputs, BoundaryInputs, AttributeInputs, LoadInputs
<1>4. \A n \in TableTask : \A x : Written[n] = {x} =>
        /\ x \in DOMAIN Inputs => Used(n) = {x} \union Inputs[x]
        /\ x \notin DOMAIN Inputs => Used(n) = {x}
  BY DEF Used
<1> HIDE DEF Inputs
<1>5. /\ Used(Attributes) = {"tmnt_facility_attribute", "tmnt_facility", "subbasin"}
      /\ Used(Boundary) =
           {"lgu_boundary", "tmnt_facility", "tmnt_facility_delineation", "subbasin"}
      /\ Used(Loads) = {"lgu_load", "lgu_boundary"}
  BY <1>1, <1>2, <1>3, <1>4
<1>6. ASSUME NEW m \in StaticTables, NEW n \in StaticTables, m # n
      PROVE  Written[m] \intersect Used(n) = {}
  <2>1. ASSUME NEW x \in StaticTables
        PROVE  Written[x] =
                 IF x = "delete_and_refresh_static_reference_tables" THEN {"met"}
                 ELSE IF x = "delete_and_refresh_tmnt_facility_table" THEN {"tmnt_facility"}
                 ELSE IF x = "delete_and_refresh_tmnt_facility_delineation_table"
                   THEN {"tmnt_facility_delineation"}
                 ELSE {"subbasin"}
    BY <1>1, WorkflowAssumption DEF Written
  <2>2. ASSUME NEW x \in StaticTables
        PROVE  Used(x) = Written[x]
    <3>1. \E y \in {"met", "tmnt_facility", "tmnt_facility_delineation", "subbasin"} :
             Written[x] = {y}
      BY <2>1
    <3> QED
      BY <1>1, <1>3, <1>4, <3>1
  <2>3. Written[m] # Written[n] /\ \E y, z : Written[m] = {y} /\ Written[n] = {z}
    <3>1. \A x \in StaticTables :
             x \in {"delete_and_refresh_static_reference_tables",
                    "delete_and_refresh_tmnt_facility_table",
                    "delete_and_refresh_tmnt_facility_delineation_table",
                    "delete_and_refresh_subbasin_table"}
      BY WorkflowAssumption
    <3> QED
      BY <1>6, <2>1, <3>1
  <2> QED
    BY <2>2, <2>3
<1> QED
  BY <1>2, <1>5, <1>6

(* No task of a group is submitted before every task of the groups before
   it has succeeded, and the loads are not computed over a boundary that
   was not (check_results and run_in_chain of bg_worker.py).               *)
THEOREM GroupsInOrder == Spec => []OnlyAfterSuccess
<1>1. IInv => OnlyAfterSuccess
  <2> SUFFICES ASSUME IInv, NEW w \in Run
               PROVE  /\ \A i, j \in Groups(w) :
                           i < j /\ (\E n \in First[j] : status[<<n, w>>] # "none") =>
                             \A n \in Header[i] : status[<<n, w>>] = "true"
                      /\ status[<<Loads, w>>] = "true" => status[<<Boundary, w>>] = "true"
    BY DEF OnlyAfterSuccess
  <2>1. Ordered(w) /\ Passed(w)
    BY DEF IInv
  <2>2. ASSUME NEW i \in Groups(w), NEW j \in Groups(w), i < j,
               NEW n \in First[j], status[<<n, w>>] # "none"
        PROVE  \A m \in Header[i] : status[<<m, w>>] = "true"
    <3>1. Groups(w) = 1..4
      BY <2>2, GroupNumbers
    <3>2. ASSUME NEW k \in 2..4, \E m \in First[k] : status[<<m, w>>] # "none"
          PROVE  \A m \in Header[k - 1] : status[<<m, w>>] = "true"
      <4>1. k \in 1..4 /\ k - 1 \in 1..3
        OBVIOUS
      <4>2. status[<<Check[k - 1], w>>] = "true"
        BY <2>1, <3>1, <3>2, <4>1 DEF Ordered
      <4> QED
        BY <2>1, <4>1, <4>2 DEF Passed
    <3>3. ASSUME NEW k \in 2..3, \A m \in Header[k] : status[<<m, w>>] = "true"
          PROVE  \E m \in First[k] : status[<<m, w>>] # "none"
      <4>1. k = 2 \/ k = 3
        OBVIOUS
      <4> QED
        BY <4>1, <3>3, Names
    <3>4. j \in 2..4 /\ i \in 1..3
      BY <3>1, <2>2
    <3>5. \A m \in Header[j - 1] : status[<<m, w>>] = "true"
      BY <3>2, <3>4, <2>2
    <3>6. j > 2 => \A m \in Header[j - 2] : status[<<m, w>>] = "true"
      <4>1. ASSUME j > 2
            PROVE  j - 1 \in 2..3 /\ j - 1 \in 2..4 /\ (j - 1) - 1 = j - 2
        BY <3>4, <4>1
      <4> QED
        BY <3>2, <3>3, <3>5, <4>1
    <3>7. j > 3 => \A m \in Header[j - 3] : status[<<m, w>>] = "true"
      <4>1. ASSUME j > 3
            PROVE  j - 2 \in 2..3 /\ j - 2 \in 2..4 /\ (j - 2) - 1 = j - 3 /\ j > 2
        BY <3>4, <4>1
      <4> QED
        BY <3>2, <3>3, <3>6, <4>1
    <3>8. i = j - 1 \/ (i = j - 2 /\ j > 2) \/ (i = j - 3 /\ j > 3)
      BY <2>2, <3>4
    <3> QED
      BY <3>5, <3>6, <3>7, <3>8
  <2> QED
    BY <2>1, <2>2 DEF Passed
<1> QED
  BY <1>1, Strengthening, PTL

(* Two steps of one refresh that are in slots at the same time are steps of
   one group, and not the boundary and the loads.                          *)
LEMMA InSlotsTogether ==
  ASSUME IInv, NEW w \in Run, NEW m \in TableTask, NEW n \in TableTask, m # n,
         {<<m, w>>, <<n, w>>} \subseteq Busy
  PROVE  \/ m \in StaticTables /\ n \in StaticTables
         \/ {m, n} \subseteq {Attributes, Boundary, Loads} /\ {m, n} # {Boundary, Loads}
<1> DEFINE S(x) == status[<<x, w>>]
<1>1. Ordered(w) /\ Passed(w)
  BY DEF IInv
<1>2. S(m) \in {"running", "waiting"} /\ S(n) \in {"running", "waiting"}
  BY DEF Busy
<1>3. /\ \A x \in StaticTables : S(x) # "none" => 1 \in Groups(w)
      /\ S(Attributes) # "none" => /\ 2 \in Groups(w)
                                   /\ 1 \in Groups(w) => S(Check[1]) = "true"
      /\ S(Boundary) # "none" => /\ 2 \in Groups(w)
                                 /\ 1 \in Groups(w) => S(Check[1]) = "true"
      /\ S(Loads) # "none" => S(Boundary) \in {"true", "false"}
      /\ S(Results) # "none" => /\ 3 \in Groups(w)
                                /\ 2 \in Groups(w) => S(Check[2]) = "true"
  <2>1. ASSUME NEW i \in 1..3, NEW x \in First[i], S(x) # "none"
        PROVE  i \in Groups(w) /\ (i - 1 \in Groups(w) => S(Check[i - 1]) = "true")
    <3>1. i \in 1..4
      OBVIOUS
    <3> QED
      BY <1>1, <2>1, <3>1 DEF Ordered
  <2>2. 1 \in 1..3 /\ 2 \in 1..3 /\ 3 \in 1..3 /\ 2 - 1 = 1 /\ 3 - 1 = 2
    OBVIOUS
  <2> QED
    BY <1>1, <2>1, <2>2, Names DEF Ordered, Returned
<1>4. /\ S(Check[1]) = "true" => \A x \in StaticTables : S(x) = "true"
      /\ S(Check[2]) = "true" => S(Attributes) = "true" /\ S(Loads) = "true"
      /\ S(Loads) = "true" => S(Boundary) = "true"
  BY <1>1, Names DEF Passed
<1>5. \A x \in TableTask : x \in StaticTables \/ x \in {Attributes, Boundary, Loads, Results}
  BY DEF TableTask
<1>6. Groups(w) \in {{1}, {2}, {3}, 1..4}
  BY GroupNumbers
<1>7. 3 \in Groups(w) /\ (1 \in Groups(w) \/ 2 \in Groups(w)) => Groups(w) = 1..4
  BY <1>6
<1>8. 1 \in Groups(w) /\ 2 \in Groups(w) => Groups(w) = 1..4
  BY <1>6
<1> HIDE DEF S
<1>9. ~(Results \in {m, n})
  <2> SUFFICES ASSUME Results \in {m, n} PROVE FALSE
    OBVIOUS
  <2>1. 3 \in Groups(w) /\ (2 \in Groups(w) => S(Check[2]) = "true")
    BY <1>2, <1>3
  <2>2. 1 \in Groups(w) \/ 2 \in Groups(w)
    BY <1>2, <1>3, <1>5
  <2>3. S(Check[2]) = "true" /\ S(Check[1]) = "true"
    BY <1>3, <1>4, <1>7, <2>1, <2>2
  <2> QED
    BY <1>2, <1>4, <1>5, <2>3
<1>10. ASSUME NEW x \in {m, n}, NEW y \in {m, n},
              x \in StaticTables, y \in {Attributes, Boundary, Loads}
       PROVE  FALSE
  <2>1. 1 \in Groups(w) /\ (S(Boundary) # "none" \/ S(Attributes) # "none")
    BY <1>2, <1>3, <1>10
  <2>2. S(Check[1]) = "true"
    BY <1>2, <1>3, <1>10, <2>1
  <2> QED
    BY <1>2, <1>4, <1>10, <2>2
<1>11. {m, n} # {Boundary, Loads}
  BY <1>2, <1>3
<1> QED
  BY <1>5, <1>9, <1>10, <1>11

(* Tasks of one refresh that are in slots at the same time are independent:
   neither uses a table that the other one replaces.                       *)
THEOREM ParallelTasks == Spec => []ParallelTasksIndependent
<1>1. IInv => ParallelTasksIndependent
  <2> SUFFICES ASSUME IInv, NEW w \in Run, NEW m \in TableTask, NEW n \in TableTask,
                      m # n, {<<m, w>>, <<n, w>>} \subseteq Busy
               PROVE  Written[m] \intersect Used(n) = {}
    BY DEF ParallelTasksIndependent
  <2>1. CASE m \in StaticTables /\ n \in StaticTables
    BY <2>1, WrittenUsed
  <2>2. CASE {m, n} \subseteq {Attributes, Boundary, Loads} /\ {m, n} # {Boundary, Loads}
    BY <2>2, WrittenUsed
  <2> QED
    BY <2>1, <2>2, InSlotsTogether
<1> QED
  BY <1>1, Strengthening, PTL

(* A page gives up only when the task that it asks about is still queued or
   was lost with its process: it was given a task that exists, and that
   ends with a result (initiateResultsSolve, generate_task_response).      *)
THEOREM PageThrows == Spec => ThrowsOnlyForQueueOrLoss
<1>1. IInv /\ [Next]_vars =>
        [\A u \in Page : page[u].state # "threw" /\ page'[u].state = "threw" =>
           status[page[u].task] \in {"queued", "killed", "expired"}]_vars
  <2> SUFFICES ASSUME IInv, Next, NEW u \in Page,
                      page[u].state # "threw", page'[u].state = "threw"
               PROVE  status[page[u].task] \in {"queued", "killed", "expired"}
    BY DEF vars
  <2>1. PICK v \in Page : Click(v) \/ Respond(v) \/ Poll(v)
    <3>1. page' # page
      OBVIOUS
    <3> QED
      BY <3>1 DEF Next, Work, Event, Take, RunInChain, CheckResults, UpdateScenario,
                  CallGroup, GetResults, StartRun, SolveAll, SolveSingle, Killed, LockGone
  <2>2. Respond(u)
    BY <2>1 DEF Click, Respond, Poll, IInv, Shape
  <2>3. ~IsStarted(page[u].task) /\ ~IsSuccess(page[u].task) /\ page[u].state # "enabled"
    BY <2>2 DEF Respond, IInv, Shape
  <2>4. status[page[u].task] \in Status \ {"none", "raised", "duplicate"}
    BY <2>3 DEF IInv, Followed, Shape
  <2> QED
    BY <2>3, <2>4 DEF IsStarted, IsSuccess, HasReturned, Status
<1> QED
  BY <1>1, Strengthening, PTL DEF Spec, ThrowsOnlyForQueueOrLoss
=============================================================================
