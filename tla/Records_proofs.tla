---------------------------- MODULE Records_proofs ----------------------------
(***************************************************************************)
(* The records that users edit: what a download of facilities and edits    *)
(* leave behind (Facilities), for any service, any size of the pages and   *)
(* any number of processes; what patches, calculations and settings do to  *)
(* costs (Costs), for any number of facilities and clients; in what order  *)
(* source controls are applied (SourceControls), for any orders that       *)
(* clients send; and all of the records together (MCRecords).              *)
(***************************************************************************)
EXTENDS MCRecords, Computations_proofs

-----------------------------------------------------------------------------
(* Facilities.                                                             *)

(* As long as nothing went wrong, what has not been got yet is on a page
   that is still to come.                                                  *)
Complete ==
  download # Nothing /\ download.sound =>
    /\ download.got \subseteq {server[i] : i \in DOMAIN server}
    /\ \A i \in DOMAIN server :
         \/ server[i] \in download.got
         \/ \E offset \in download.pages : i \in offset + 1 .. offset + ChunkSize

FacilitiesIInv ==
  /\ FacilitiesTypeOK
  /\ download \in Download \union {Nothing}
  /\ Complete

-----------------------------------------------------------------------------
(* The pages that are asked for. *)

LEMMA Division ==
  ASSUME NEW n \in Nat, NEW c \in Nat \ {0}
  PROVE  n \div c \in Nat /\ (n \div c) * c <= n /\ n < (n \div c) * c + c
  OBVIOUS

LEMMA PagesCover ==
  ASSUME NEW n \in Nat
  PROVE  /\ \A offset \in Pages(n) : offset \in Nat /\ offset <= n
         /\ \A i \in 1..n : \E offset \in Pages(n) : i \in offset + 1 .. offset + ChunkSize
<1>1. ChunkSize \in Nat \ {0}
  BY FacilitiesAssumption
<1>2. n \div ChunkSize \in Nat /\ (n \div ChunkSize) * ChunkSize <= n
  BY <1>1, Division
<1>3. ASSUME NEW k \in 0..(n \div ChunkSize)
      PROVE  k * ChunkSize \in Nat /\ k * ChunkSize <= n
  <2> DEFINE q == n \div ChunkSize
  <2>1. q \in Nat /\ q * ChunkSize <= n
    BY <1>2
  <2> HIDE DEF q
  <2>2. ASSUME NEW x \in Nat, NEW y \in Nat, NEW c \in Nat, x <= y
        PROVE  x * c \in Nat /\ x * c <= y * c
    BY <2>2
  <2>3. k \in Nat /\ k <= q
    BY <2>1 DEF q
  <2>4. k * ChunkSize \in Nat /\ k * ChunkSize <= q * ChunkSize /\ q * ChunkSize \in Nat
    BY <1>1, <2>1, <2>2, <2>3
  <2> QED
    BY <2>1, <2>4
<1>4. ASSUME NEW i \in 1..n
      PROVE  \E offset \in Pages(n) : i \in offset + 1 .. offset + ChunkSize
  <2> DEFINE k == (i - 1) \div ChunkSize
  <2>1. k \in Nat /\ k * ChunkSize <= i - 1 /\ i - 1 < k * ChunkSize + ChunkSize
    BY <1>1, Division
  <2>2. k <= n \div ChunkSize
    <3> DEFINE q == n \div ChunkSize
    <3>1. q \in Nat /\ n < q * ChunkSize + ChunkSize
      BY <1>1, Division
    <3>2. SUFFICES ASSUME q < k PROVE FALSE
      BY <2>1, <3>1
    <3> HIDE DEF q, k
    <3>3. ASSUME NEW x \in Nat, NEW y \in Nat, NEW c \in Nat, x < y
          PROVE  x * c + c <= y * c
      BY <3>3
    <3>4. q * ChunkSize + ChunkSize <= k * ChunkSize
      BY <1>1, <2>1, <3>1, <3>2, <3>3
    <3>5. q * ChunkSize \in Nat /\ k * ChunkSize \in Nat
      BY <1>1, <2>1, <3>1
    <3> QED
      BY <1>1, <2>1, <3>1, <3>4, <3>5
  <2> HIDE DEF k
  <2>3. k * ChunkSize \in Pages(n)
    BY <1>2, <2>1, <2>2 DEF Pages
  <2>4. k * ChunkSize \in Nat
    BY <1>1, <2>1
  <2>5. i \in k * ChunkSize + 1 .. k * ChunkSize + ChunkSize
    BY <1>1, <2>1, <2>4
  <2> QED
    BY <2>3, <2>5
<1> QED
  BY <1>3, <1>4 DEF Pages

LEMMA RemoveAtType ==
  ASSUME NEW S, NEW s \in Seq(S), NEW i \in 1..Len(s)
  PROVE  RemoveAt(s, i) \in Seq(S) /\ Len(RemoveAt(s, i)) = Len(s) - 1
<1> DEFINE front == SubSeq(s, 1, i - 1)
           back == SubSeq(s, i + 1, Len(s))
<1>1. front \in Seq(S) /\ Len(front) = i - 1
  OBVIOUS
<1>2. back \in Seq(S) /\ Len(back) = Len(s) - i
  OBVIOUS
<1>3. RemoveAt(s, i) = front \o back
  BY DEF RemoveAt
<1> HIDE DEF front, back
<1>4. front \o back \in Seq(S) /\ Len(front \o back) = Len(front) + Len(back)
  BY <1>1, <1>2
<1> QED
  BY <1>1, <1>2, <1>3, <1>4

-----------------------------------------------------------------------------
(* The invariant, action by action. *)

LEMMA FacilitiesInitInv ==
  FacilitiesInit => FacilitiesIInv
<1> SUFFICES ASSUME FacilitiesInit PROVE FacilitiesIInv
  OBVIOUS
<1>1. server \in Seq(Feature) /\ Len(server) <= MaxFeatures /\ Range(server) \subseteq Feature
  <2>1. CASE server = << >>
    BY <2>1, FacilitiesAssumption DEF Range
  <2>2. ASSUME NEW f \in Feature, server = <<f>>
        PROVE  /\ server \in Seq(Feature) /\ Len(server) <= MaxFeatures
               /\ Range(server) \subseteq Feature
    <3>1. server \in Seq(Feature) /\ Len(server) = 1 /\ DOMAIN server = {1} /\ server[1] = f
      BY <2>2
    <3> QED
      BY <3>1, FacilitiesAssumption DEF Range
  <2> QED
    BY <2>1, <2>2 DEF FacilitiesInit
<1>2. facility \subseteq Feature
  BY <1>1 DEF FacilitiesInit
<1>3. FacilitiesTypeOK
  BY <1>1, <1>2, FacilitiesAssumption DEF FacilitiesInit, FacilitiesTypeOK
<1> QED
  BY <1>3 DEF FacilitiesInit, FacilitiesIInv, Complete

LEMMA ServerChangesInv ==
  ASSUME FacilitiesIInv, ServerChanges
  PROVE  FacilitiesIInv'
<1>1. server' \in Seq(Feature) /\ Len(server') <= MaxFeatures
  <2>1. ASSUME NEW f \in Feature, Len(server) < MaxFeatures, server' = Append(server, f)
        PROVE  server' \in Seq(Feature) /\ Len(server') <= MaxFeatures
    BY <2>1, FacilitiesAssumption DEF FacilitiesIInv, FacilitiesTypeOK
  <2>2. ASSUME NEW i \in DOMAIN server, server' = RemoveAt(server, i)
        PROVE  server' \in Seq(Feature) /\ Len(server') <= MaxFeatures
    <3>1. server \in Seq(Feature) /\ Len(server) <= MaxFeatures /\ MaxFeatures \in Nat
      BY FacilitiesAssumption DEF FacilitiesIInv, FacilitiesTypeOK
    <3>2. server' \in Seq(Feature) /\ Len(server') = Len(server) - 1
      BY <2>2, <3>1, RemoveAtType
    <3> QED
      BY <3>1, <3>2
  <2> QED
    BY <2>1, <2>2 DEF ServerChanges
<1>2. /\ download' \in Download \union {Nothing}
      /\ download' # Nothing => /\ download # Nothing /\ ~download'.sound
                                /\ download'.pages = download.pages
                                /\ download'.got = download.got
  BY DEF ServerChanges, FacilitiesIInv, Download
<1>3. changes' \in 0..MaxChanges
  BY FacilitiesAssumption DEF ServerChanges, FacilitiesIInv, FacilitiesTypeOK
<1>4. UNCHANGED <<facility, attribute, update>>
  BY DEF ServerChanges
<1>5. FacilitiesTypeOK'
  BY <1>1, <1>2, <1>3, <1>4 DEF FacilitiesIInv, FacilitiesTypeOK
<1> QED
  BY <1>2, <1>5 DEF FacilitiesIInv, Complete

LEMMA CountRecordsInv ==
  ASSUME FacilitiesIInv, CountRecords
  PROVE  FacilitiesIInv'
<1>1. Len(server) \in Nat /\ Len(server) <= MaxFeatures /\ DOMAIN server = 1..Len(server)
  BY DEF FacilitiesIInv, FacilitiesTypeOK
<1>2. /\ \A offset \in Pages(Len(server)) : offset \in Nat /\ offset <= Len(server)
      /\ \A i \in 1..Len(server) :
           \E offset \in Pages(Len(server)) : i \in offset + 1 .. offset + ChunkSize
  BY <1>1, PagesCover
<1>3. Pages(Len(server)) \subseteq 0..(MaxFeatures + ChunkSize)
  BY <1>1, <1>2, FacilitiesAssumption
<1>4. /\ download' = [pages |-> Pages(Len(server)), got |-> {}, sound |-> TRUE]
      /\ UNCHANGED <<server, facility, attribute, update, changes>>
  BY DEF CountRecords
<1>5. download' \in Download
  BY <1>2, <1>4 DEF Download
<1>6. FacilitiesTypeOK'
  BY <1>3, <1>4 DEF FacilitiesIInv, FacilitiesTypeOK
<1>7. Complete'
  BY <1>1, <1>2, <1>4 DEF Complete
<1> QED
  BY <1>5, <1>6, <1>7 DEF FacilitiesIInv

(* A page comes, with its features or without. *)
LEMMA PageInv ==
  ASSUME FacilitiesIInv, download # Nothing, NEW offset \in download.pages,
         GetPage(offset) \/ PageWithoutFeatures(offset)
  PROVE  FacilitiesIInv'
<1> DEFINE page == {server[i] : i \in (offset + 1 .. offset + ChunkSize) \intersect DOMAIN server}
<1>1. download \in Download /\ UNCHANGED <<server, facility, attribute, update, changes>>
  BY DEF FacilitiesIInv, GetPage, PageWithoutFeatures
<1>2. page \subseteq Feature
  BY DEF FacilitiesIInv, FacilitiesTypeOK
<1>3. CASE GetPage(offset)
  <2>1. /\ download' \in Download
        /\ download'.pages = download.pages \ {offset}
        /\ download'.got = download.got \union page
        /\ download'.sound = download.sound
    BY <1>1, <1>2, <1>3 DEF GetPage, Download
  <2>2. FacilitiesTypeOK'
    BY <1>1, <1>2, <2>1 DEF FacilitiesIInv, FacilitiesTypeOK
  <2>3. Complete'
    <3> SUFFICES ASSUME download'.sound
                 PROVE  /\ download'.got \subseteq {server[i] : i \in DOMAIN server}
                        /\ \A i \in DOMAIN server :
                             \/ server[i] \in download'.got
                             \/ \E o \in download'.pages : i \in o + 1 .. o + ChunkSize
      BY <1>1 DEF Complete
    <3>1. /\ download.got \subseteq {server[i] : i \in DOMAIN server}
          /\ \A i \in DOMAIN server :
               \/ server[i] \in download.got
               \/ \E o \in download.pages : i \in o + 1 .. o + ChunkSize
      BY <2>1 DEF FacilitiesIInv, Complete
    <3> QED
      BY <2>1, <3>1
  <2> QED
    BY <2>1, <2>2, <2>3 DEF FacilitiesIInv
<1>4. CASE PageWithoutFeatures(offset)
  <2>1. /\ download' \in Download
        /\ download'.pages = download.pages \ {offset}
        /\ download'.got = download.got
        /\ ~download'.sound
    BY <1>1, <1>4 DEF PageWithoutFeatures, Download
  <2>2. FacilitiesTypeOK'
    BY <1>1, <2>1 DEF FacilitiesIInv, FacilitiesTypeOK
  <2> QED
    BY <2>1, <2>2 DEF FacilitiesIInv, Complete
<1> QED
  BY <1>3, <1>4

LEMMA ReplaceInv ==
  ASSUME FacilitiesIInv, download # Nothing, DownloadFails \/ ReplaceFacilities
  PROVE  FacilitiesIInv'
<1>1. download' = Nothing /\ UNCHANGED <<server, attribute, update, changes>>
  BY DEF DownloadFails, ReplaceFacilities
<1>2. facility' \subseteq Feature
  BY DEF DownloadFails, ReplaceFacilities, FacilitiesIInv, FacilitiesTypeOK
<1> QED
  BY <1>1, <1>2 DEF FacilitiesIInv, FacilitiesTypeOK, Complete

LEMMA AttributesInv ==
  ASSUME FacilitiesIInv,
         \/ \E u \in Updater : ReadFacilities(u) \/ ReadExisting(u) \/ InsertAttributes(u)
         \/ \E a \in Altid : EditAttributes(a)
  PROVE  FacilitiesIInv'
<1>1. UNCHANGED <<server, download, facility, changes>>
  BY DEF ReadFacilities, ReadExisting, InsertAttributes, EditAttributes
<1> DEFINE Read == [facilities : SUBSET Altid, existing : {Nothing} \union SUBSET Altid]
<1>2. update \in [Updater -> Read \union {Nothing}]
  BY DEF FacilitiesIInv, FacilitiesTypeOK
<1>3. attribute \in [Altid -> {Nothing, "default", "edited"}]
  BY DEF FacilitiesIInv, FacilitiesTypeOK
<1>4. /\ update' \in [Updater -> Read \union {Nothing}]
      /\ attribute' \in [Altid -> {Nothing, "default", "edited"}]
  <2>1. ASSUME NEW u \in Updater, ReadFacilities(u)
        PROVE  update' \in [Updater -> Read \union {Nothing}] /\ attribute' = attribute
    <3> DEFINE ids == {f.altid : f \in facility}
               new == [facilities |-> ids, existing |-> Nothing]
    <3>1. ids \in SUBSET Altid
      BY DEF FacilitiesIInv, FacilitiesTypeOK, Altid
    <3>2. update' = [update EXCEPT ![u] = new] /\ attribute' = attribute
      BY <2>1 DEF ReadFacilities
    <3> HIDE DEF ids
    <3>3. ids \in SUBSET Altid /\ Nothing \in {Nothing} \union SUBSET Altid
      BY <3>1
    <3>4. new \in Read
      BY <3>3
    <3> HIDE DEF new
    <3> QED
      BY <1>2, <3>2, <3>4
  <2>2. ASSUME NEW u \in Updater, ReadExisting(u)
        PROVE  update' \in [Updater -> Read \union {Nothing}] /\ attribute' = attribute
    <3>1. Existing \in SUBSET Altid /\ update[u] \in Read
      BY <1>2, <2>2 DEF Existing, ReadExisting
    <3>2. [update[u] EXCEPT !.existing = Existing] \in Read
      BY <3>1
    <3>3. update' = [update EXCEPT ![u] = [update[u] EXCEPT !.existing = Existing]]
      BY <1>2, <2>2 DEF ReadExisting
    <3> QED
      BY <1>2, <2>2, <3>2, <3>3 DEF ReadExisting
  <2>3. ASSUME NEW u \in Updater, InsertAttributes(u)
        PROVE  /\ update' \in [Updater -> Read \union {Nothing}]
               /\ attribute' \in [Altid -> {Nothing, "default", "edited"}]
    BY <1>2, <1>3, <2>3 DEF InsertAttributes
  <2>4. ASSUME NEW a \in Altid, EditAttributes(a)
        PROVE  /\ update' = update
               /\ attribute' \in [Altid -> {Nothing, "default", "edited"}]
    BY <1>3, <2>4 DEF EditAttributes
  <2> QED
    BY <1>2, <1>3, <2>1, <2>2, <2>3, <2>4
<1> QED
  BY <1>1, <1>4 DEF FacilitiesIInv, FacilitiesTypeOK, Complete

LEMMA FacilitiesNextInv ==
  FacilitiesIInv /\ [FacilitiesNext]_facilityVars => FacilitiesIInv'
<1> SUFFICES ASSUME FacilitiesIInv, [FacilitiesNext]_facilityVars PROVE FacilitiesIInv'
  OBVIOUS
<1>1. CASE UNCHANGED facilityVars
  BY <1>1 DEF facilityVars, FacilitiesIInv, FacilitiesTypeOK, Complete
<1> QED
  BY <1>1, ServerChangesInv, CountRecordsInv, PageInv, ReplaceInv, AttributesInv
     DEF FacilitiesNext

-----------------------------------------------------------------------------
(* The strengthening: pages that are still to come have all that is missing. *)
THEOREM FacilitiesStrengthening == FacilitiesSpec => []FacilitiesIInv
<1>1. FacilitiesInit => FacilitiesIInv
  BY FacilitiesInitInv
<1>2. FacilitiesIInv /\ [FacilitiesNext]_facilityVars => FacilitiesIInv'
  BY FacilitiesNextInv
<1> QED
  BY <1>1, <1>2, PTL DEF FacilitiesSpec

(* The pages asked for are pages of the service, the tables hold what it
   had, and a process inserts only what it has read.                       *)
THEOREM FacilitiesTypeCorrect == FacilitiesSpec => []FacilitiesTypeOK
<1>1. FacilitiesIInv => FacilitiesTypeOK
  BY DEF FacilitiesIInv
<1> QED
  BY <1>1, FacilitiesStrengthening, PTL

LEMMA DownloadStep ==
  FacilitiesIInv /\ [FacilitiesNext]_facilityVars =>
    [facility' # facility /\ download.sound => facility' = Range(server)]_facilityVars
<1> SUFFICES ASSUME FacilitiesIInv, FacilitiesNext, facility' # facility, download.sound
             PROVE  facility' = Range(server)
  OBVIOUS
<1>1. download # Nothing /\ ReplaceFacilities
  BY DEF FacilitiesNext, ServerChanges, CountRecords, GetPage, PageWithoutFeatures,
         DownloadFails, ReadFacilities, ReadExisting, InsertAttributes, EditAttributes
<1>2. download.pages = {} /\ facility' = download.got
  BY <1>1 DEF ReplaceFacilities
<1>3. download.got = {server[i] : i \in DOMAIN server}
  BY <1>1, <1>2 DEF FacilitiesIInv, Complete
<1> QED
  BY <1>2, <1>3 DEF Range

(* The table gets all the facilities of the service, whatever the size of
   the pages and in whatever order they come, when no page was lost and the
   service did not change (build_esri_geojson_urls, get_features).         *)
THEOREM AllPages == FacilitiesSpec => DownloadComplete
BY DownloadStep, FacilitiesStrengthening, PTL DEF FacilitiesSpec, DownloadComplete

LEMMA EditsStep ==
  FacilitiesIInv /\ [FacilitiesNext]_facilityVars =>
    [\A a \in Altid : attribute[a] = "edited" => attribute'[a] = "edited"]_facilityVars
<1> SUFFICES ASSUME FacilitiesIInv, FacilitiesNext, NEW a \in Altid, attribute[a] = "edited"
             PROVE  attribute'[a] = "edited"
  OBVIOUS
<1>1. attribute \in [Altid -> {Nothing, "default", "edited"}]
  BY DEF FacilitiesIInv, FacilitiesTypeOK
<1>2. ASSUME NEW b \in Altid, EditAttributes(b) PROVE attribute'[a] = "edited"
  BY <1>1, <1>2 DEF EditAttributes
<1>3. ASSUME NEW u \in Updater, InsertAttributes(u) PROVE attribute'[a] = "edited"
  <2>1. a \in Existing
    BY FacilitiesAssumption DEF Existing
  <2> QED
    BY <1>3, <2>1 DEF InsertAttributes, Overwrite_attributes
<1>4. CASE attribute' = attribute
  BY <1>4
<1> QED
  BY <1>2, <1>3, <1>4
     DEF FacilitiesNext, ServerChanges, CountRecords, GetPage, PageWithoutFeatures,
         DownloadFails, ReplaceFacilities, ReadFacilities, ReadExisting

(* No refresh takes back a row that a user has edited, though what exists
   is read before the transaction that inserts (update_tmnt_attributes).   *)
THEOREM EditsKept == FacilitiesSpec => EditsSurvive
BY EditsStep, FacilitiesStrengthening, PTL DEF FacilitiesSpec, EditsSurvive

-----------------------------------------------------------------------------
(* Costs.                                                                  *)

Field == {"cost", "year", "setting", "pv"}

(* Fields that may be written into a row; a present value comes with all
   that it was computed from.                                              *)
UpdateOK(u) ==
  /\ DOMAIN u \subseteq Field
  /\ "cost" \in DOMAIN u => u.cost \in Cost \union {None}
  /\ "year" \in DOMAIN u => u.year \in Year \union {None}
  /\ "setting" \in DOMAIN u => u.setting \in Setting
  /\ "pv" \in DOMAIN u /\ u.pv \in Value \union {None}
  /\ u.pv # None =>
       /\ "cost" \in DOMAIN u /\ u.pv.cost = u.cost
       /\ u.pv.year = IF "year" \in DOMAIN u THEN u.year ELSE None
       /\ "setting" \in DOMAIN u /\ u.pv.setting = u.setting

(* A request, q, as far as it matters. *)
ReqOK(q) ==
  /\ q.at \in {"idle", "answered", "patch", "upsert", "read", "write"}
  /\ q.at = "patch" =>
       /\ q.node \in Node
       /\ "type" \in DOMAIN q.patch => q.patch.type \in Type
       /\ q.update # None => UpdateOK(q.update)
  /\ q.at = "upsert" =>
       /\ q.node \in Node /\ UpdateOK(q.update)
       /\ q.found => row[q.node] # None
  /\ q.at \in {"read", "write"} =>
       /\ DOMAIN q.todo \subseteq Node
       /\ \A n \in DOMAIN q.todo : q.todo[n] \in CostRow /\ row[n] # None
  /\ q.at = "write" =>
       q.node \in DOMAIN q.todo /\ \E s \in Setting : q.update = Inputs(q.todo[q.node], s)

Fits(n) ==
  row[n] # None /\ row[n].pv # None =>
    /\ row[n].pv.setting = row[n].setting
    /\ n \notin raced => /\ row[n].pv.cost = row[n].cost
                         /\ row[n].pv.year \in {row[n].year, None}

Current(n) ==
  row[n] # None => setting # Garbled /\ row[n].pv = Compute(row[n], setting)

(* How far a calculation of all present values has come, if nobody else has
   written in the meantime.                                                *)
Fresh(q) ==
  /\ q.at \in {"read", "write"} /\ q.all =>
       /\ \A n \in Node \ DOMAIN q.todo : Current(n)
       /\ \A n \in DOMAIN q.todo : row[n] = q.todo[n]
  /\ q.at = "write" /\ q.all => setting # Garbled /\ q.update = Inputs(q.todo[q.node], setting)
  /\ q = Answered("success") => setting # Garbled /\ \A n \in Node : Current(n)

Shape ==
  /\ row \in [Node -> CostRow \union {None}]
  /\ type \in [Node -> Type \union {None}]
  /\ setting \in Setting \union {Garbled}
  /\ DOMAIN request = Client
  /\ raced \subseteq {n \in Node : row[n] # None}
  /\ sole \subseteq Client
  /\ requests \in 0..MaxRequests

CostsIInv ==
  /\ Shape
  /\ \A c \in Client : ReqOK(request[c])
  /\ \A n \in Node : Fits(n)
  /\ \A c \in sole : Fresh(request[c])

-----------------------------------------------------------------------------
(* Rows and what is written into them. *)

LEMMA RowType ==
  ASSUME NEW r, r = [f \in Field |-> r[f]],
         r.cost \in Cost \union {None}, r.year \in Year \union {None},
         r.setting \in Setting \union {None}, r.pv \in Value \union {None}
  PROVE  r \in CostRow
  BY DEF CostRow, Field

LEMMA RowFields ==
  ASSUME NEW r \in CostRow
  PROVE  /\ DOMAIN r = Field
         /\ r.cost \in Cost \union {None} /\ r.year \in Year \union {None}
         /\ r.setting \in Setting \union {None} /\ r.pv \in Value \union {None}
  BY DEF CostRow, Field

LEMMA ValueFields ==
  ASSUME NEW k \in Cost, NEW y \in Year \union {None}, NEW s \in Setting
  PROVE  [cost |-> k, year |-> y, setting |-> s] \in Value
  BY DEF Value

(* What the patch of a facility writes. *)
LEMMA MaybeUpdateOK ==
  ASSUME NEW p \in Patches, NEW s \in Setting, MaybeUpdate(p, s) # None
  PROVE  UpdateOK(MaybeUpdate(p, s))
<1> DEFINE costs == Restrict(p, DOMAIN p \intersect {"cost", "year"})
<1>1. /\ DOMAIN costs = DOMAIN p \intersect {"cost", "year"}
      /\ "cost" \in DOMAIN costs => costs.cost \in Cost \union {None}
      /\ "year" \in DOMAIN costs => costs.year \in Year \union {None}
  BY CostsAssumption DEF Restrict
<1> HIDE DEF costs
<1>2. CASE Validates(costs)
  <2> DEFINE u == Valued(costs, s)
             v == Compute(costs, s)
  <2>1. "cost" \in DOMAIN costs /\ costs.cost \in Cost
    BY <1>1, <1>2 DEF Validates
  <2>2. /\ v \in Value /\ v.cost = costs.cost /\ v.setting = s
        /\ v.year = IF "year" \in DOMAIN costs THEN costs.year ELSE None
    BY <1>1, <2>1 DEF Compute, Value
  <2>3. u = [f \in DOMAIN costs \union {"setting", "pv"} |->
               CASE f = "setting" -> s [] f = "pv" -> v [] OTHER -> costs[f]]
    BY DEF Valued
  <2> HIDE DEF v, u
  <2>4. /\ DOMAIN u = DOMAIN costs \union {"setting", "pv"}
        /\ u.setting = s /\ u.pv = v
        /\ u.cost = costs.cost
        /\ "year" \in DOMAIN costs => u.year = costs.year
    BY <1>1, <2>1, <2>3
  <2>5. UpdateOK(u)
    BY <1>1, <2>1, <2>2, <2>4 DEF UpdateOK, Field
  <2>6. DOMAIN costs # {}
    BY <2>1
  <2>7. MaybeUpdate(p, s) = u
    BY <1>2, <2>6 DEF MaybeUpdate, costs, u
  <2> QED
    BY <2>5, <2>7
<1>3. CASE ~Validates(costs) /\ DOMAIN costs # {}
  <2> DEFINE u == [f \in DOMAIN costs \union {"pv"} |-> IF f = "pv" THEN None ELSE costs[f]]
  <2>1. MaybeUpdate(p, s) = u
    BY <1>3 DEF MaybeUpdate, costs
  <2>2. /\ DOMAIN u = DOMAIN costs \union {"pv"} /\ u.pv = None
        /\ "cost" \in DOMAIN costs => u.cost = costs.cost
        /\ "year" \in DOMAIN costs => u.year = costs.year
    BY <1>1
  <2> HIDE DEF u
  <2>3. UpdateOK(u)
    BY <1>1, <2>2 DEF UpdateOK, Field
  <2> QED
    BY <2>1, <2>3
<1>4. CASE DOMAIN costs = {}
  <2>1. ~Validates(costs)
    BY <1>4 DEF Validates
  <2> QED
    BY <1>4, <2>1 DEF MaybeUpdate, costs
<1> QED
  BY <1>2, <1>3, <1>4

(* What a calculation writes. *)
LEMMA InputsOK ==
  ASSUME NEW r \in CostRow, NEW s \in Setting
  PROVE  LET u == Inputs(r, s)
         IN  /\ u.pv # None => /\ DOMAIN u = {"setting", "pv"} /\ u.setting = s
                               /\ u.pv \in Value /\ u.pv = Compute(r, s)
                               /\ u.pv.cost = r.cost /\ u.pv.year = r.year
                               /\ u.pv.setting = s
             /\ u.pv = None => DOMAIN u = {"pv"}
<1>1. DOMAIN r = Field /\ r.cost \in Cost \union {None} /\ r.year \in Year \union {None}
  BY RowFields
<1>2. CASE Validates(r)
  <2> DEFINE v == Compute(r, s)
  <2>1. v = [cost |-> r.cost, year |-> r.year, setting |-> s] /\ r.cost \in Cost
    BY <1>1, <1>2 DEF Compute, Validates, Field
  <2>2. v \in Value /\ v.cost = r.cost /\ v.year = r.year /\ v.setting = s
    BY <1>1, <2>1, ValueFields
  <2>3. Inputs(r, s) = Restrict(Valued(r, s), {"setting", "pv"})
    BY <1>2 DEF Inputs
  <2>4. Valued(r, s) = [f \in DOMAIN r \union {"setting", "pv"} |->
                          CASE f = "setting" -> s [] f = "pv" -> v [] OTHER -> r[f]]
    BY DEF Valued
  <2> HIDE DEF v
  <2>5. /\ DOMAIN Inputs(r, s) = {"setting", "pv"}
        /\ Inputs(r, s).setting = s /\ Inputs(r, s).pv = v
    BY <2>3, <2>4 DEF Restrict
  <2>6. v # None
    BY <2>2, NoneAssumption
  <2> QED
    BY <2>2, <2>5, <2>6 DEF v
<1>3. CASE ~Validates(r)
  BY <1>3 DEF Inputs
<1> QED
  BY <1>2, <1>3

LEMMA Overwritten ==
  ASSUME NEW r \in CostRow, NEW u, DOMAIN u \subseteq Field,
         "cost" \in DOMAIN u => u.cost \in Cost \union {None},
         "year" \in DOMAIN u => u.year \in Year \union {None},
         "setting" \in DOMAIN u => u.setting \in Setting,
         "pv" \in DOMAIN u => u.pv \in Value \union {None}
  PROVE  LET o == Overwrite(r, u)
         IN  /\ o \in CostRow
             /\ o.cost = IF "cost" \in DOMAIN u THEN u.cost ELSE r.cost
             /\ o.year = IF "year" \in DOMAIN u THEN u.year ELSE r.year
             /\ o.setting = IF "setting" \in DOMAIN u THEN u.setting ELSE r.setting
             /\ o.pv = IF "pv" \in DOMAIN u THEN u.pv ELSE r.pv
<1> DEFINE o == Overwrite(r, u)
<1>1. /\ DOMAIN r = Field
      /\ r.cost \in Cost \union {None} /\ r.year \in Year \union {None}
      /\ r.setting \in Setting \union {None} /\ r.pv \in Value \union {None}
  BY RowFields
<1>2. o = [f \in Field |-> IF f \in DOMAIN u THEN u[f] ELSE r[f]]
  BY <1>1 DEF Overwrite
<1>3. o = [f \in Field |-> o[f]]
  BY <1>2
<1>4. /\ o.cost = IF "cost" \in DOMAIN u THEN u.cost ELSE r.cost
      /\ o.year = IF "year" \in DOMAIN u THEN u.year ELSE r.year
      /\ o.setting = IF "setting" \in DOMAIN u THEN u.setting ELSE r.setting
      /\ o.pv = IF "pv" \in DOMAIN u THEN u.pv ELSE r.pv
  BY <1>2 DEF Field
<1> HIDE DEF o
<1>5. o \in CostRow
  BY <1>1, <1>3, <1>4, RowType
<1> QED
  BY <1>4, <1>5 DEF o

-----------------------------------------------------------------------------
(* The invariant, action by action.  Most steps concern one request. *)

LEMMA QuietStep ==
  ASSUME CostsIInv, NEW c \in Client, NEW q, request' = [request EXCEPT ![c] = q],
         ReqOK(q), c \in sole' => Fresh(q),
         UNCHANGED <<row, setting, raced>>, sole' \subseteq sole \union {c},
         type' \in [Node -> Type \union {None}], requests' \in 0..MaxRequests
  PROVE  CostsIInv'
<1>1. DOMAIN request' = Client /\ request'[c] = q
      /\ \A d \in Client \ {c} : request'[d] = request[d]
  BY DEF CostsIInv, Shape
<1>2. Shape'
  BY <1>1 DEF CostsIInv, Shape
<1>3. ASSUME NEW d \in Client
      PROVE  ReqOK(request[d])'
  <2>1. ReqOK(request'[d])
    BY <1>1 DEF CostsIInv
  <2> QED
    BY <2>1 DEF ReqOK
<1>4. ASSUME NEW d \in sole'
      PROVE  Fresh(request[d])'
  <2>1. Fresh(request'[d])
    BY <1>1 DEF CostsIInv, Shape
  <2> QED
    BY <2>1 DEF Fresh, Current
<1>5. \A n \in Node : Fits(n)'
  BY DEF CostsIInv, Fits
<1> QED
  BY <1>2, <1>3, <1>4, <1>5 DEF CostsIInv

(* An answer other than the success of a calculation of all values. *)
LEMMA AnswerOK ==
  ASSUME NEW status, status # "success"
  PROVE  ReqOK(Answered(status)) /\ Fresh(Answered(status))
<1>1. Answered(status).at = "answered" /\ Answered(status) # Answered("success")
  <2>1. Answered(status).status = status /\ Answered("success").status = "success"
    BY DEF Answered
  <2> QED
    BY <2>1 DEF Answered
<1> QED
  BY <1>1 DEF ReqOK, Fresh

LEMMA SubmitPatchInv ==
  ASSUME CostsIInv, NEW c \in Client, NEW n \in Node, NEW p \in Patches, SubmitPatch(c, n, p)
  PROVE  CostsIInv'
<1> DEFINE q == [at |-> "patch", node |-> n, patch |-> p, update |-> MaybeUpdate(p, setting)]
<1>1. /\ UNCHANGED <<row, type, setting, raced>> /\ sole' = sole \union {c}
      /\ requests' \in 0..MaxRequests
      /\ request' = [request EXCEPT ![c] = IF Rejected(p) THEN Answered("422") ELSE q]
  BY CostsAssumption DEF SubmitPatch, Begin, CostsIInv, Shape
<1>2. type' \in [Node -> Type \union {None}]
  BY <1>1 DEF CostsIInv, Shape
<1>3. CASE Rejected(p)
  BY <1>1, <1>2, <1>3, AnswerOK, QuietStep
<1>4. CASE ~Rejected(p)
  <2>1. setting \in Setting /\ ("type" \in DOMAIN p => p.type \in Type)
    BY <1>4, CostsAssumption DEF Rejected, CostsIInv, Shape
  <2>2. MaybeUpdate(p, setting) # None => UpdateOK(MaybeUpdate(p, setting))
    BY <2>1, MaybeUpdateOK
  <2>3. /\ q.at = "patch" /\ q.node = n /\ q.patch = p /\ q.update = MaybeUpdate(p, setting)
        /\ q # Answered("success")
    <3>1. q.at # Answered("success").at
      BY DEF Answered
    <3> QED
      BY <3>1
  <2>4. request' = [request EXCEPT ![c] = q]
    BY <1>1, <1>4
  <2> HIDE DEF q
  <2>5. ReqOK(q) /\ Fresh(q)
    BY <2>1, <2>2, <2>3 DEF ReqOK, Fresh
  <2> QED
    BY <1>1, <1>2, <2>4, <2>5, QuietStep
<1> QED
  BY <1>3, <1>4

LEMMA PatchAttributesInv ==
  ASSUME CostsIInv, NEW c \in Client, PatchAttributes(c)
  PROVE  CostsIInv'
<1> DEFINE q == request[c]
           n == q.node
           more == type[n] # None /\ q.update # None
           r == [at |-> "upsert", node |-> n, update |-> q.update,
                 found |-> more /\ row[n] # None]
<1>1. /\ q.at = "patch" /\ ReqOK(q)
      /\ UNCHANGED <<row, setting, raced, sole, requests>>
      /\ type' = IF type[n] # None /\ "type" \in DOMAIN q.patch
                   THEN [type EXCEPT ![n] = q.patch.type] ELSE type
      /\ request' = [request EXCEPT ![c] =
                      IF more THEN r ELSE Answered(IF type[n] = None THEN "404" ELSE "200")]
  BY DEF PatchAttributes, Become, CostsIInv
<1>2. type' \in [Node -> Type \union {None}] /\ requests' \in 0..MaxRequests
  BY <1>1 DEF ReqOK, CostsIInv, Shape
<1>3. CASE more
  <2>1. /\ r.at = "upsert" /\ r.node = n /\ r.update = q.update
        /\ r.found => row[n] # None
        /\ r # Answered("success")
    <3>1. r.at # Answered("success").at
      BY DEF Answered
    <3> QED
      BY <3>1
  <2>2. request' = [request EXCEPT ![c] = r]
    BY <1>1, <1>3
  <2>3. n \in Node /\ UpdateOK(q.update)
    BY <1>1, <1>3 DEF ReqOK
  <2> HIDE DEF r
  <2>4. ReqOK(r) /\ Fresh(r)
    BY <2>1, <2>3 DEF ReqOK, Fresh
  <2> QED
    BY <1>1, <1>2, <2>2, <2>4, QuietStep
<1>4. CASE ~more
  <2>1. PICK status \in {"404", "200"} : request' = [request EXCEPT ![c] = Answered(status)]
    BY <1>1, <1>4
  <2> QED
    BY <1>1, <1>2, <2>1, AnswerOK, QuietStep
<1> QED
  BY <1>3, <1>4

LEMMA StartCalculationInv ==
  ASSUME CostsIInv, NEW c \in Client, NEW nodes \in SUBSET Node, NEW all \in BOOLEAN,
         all => nodes = Node, StartCalculation(c, nodes, all)
  PROVE  CostsIInv'
<1> DEFINE found == {n \in nodes : row[n] # None}
           q == [at |-> "read", all |-> all, todo |-> Restrict(row, found)]
<1>1. /\ UNCHANGED <<row, type, setting, raced>> /\ sole' = sole \union {c}
      /\ requests' \in 0..MaxRequests
      /\ request' = [request EXCEPT ![c] = IF found = {} THEN Answered("404") ELSE q]
  BY CostsAssumption DEF StartCalculation, Begin, CostsIInv, Shape
<1>2. type' \in [Node -> Type \union {None}]
  BY <1>1 DEF CostsIInv, Shape
<1>3. CASE found = {}
  BY <1>1, <1>2, <1>3, AnswerOK, QuietStep
<1>4. CASE found # {}
  <2>1. q.at = "read" /\ q.all = all /\ q.todo = Restrict(row, found) /\ q # Answered("success")
    <3>1. q.at # Answered("success").at
      BY DEF Answered
    <3> QED
      BY <3>1
  <2>2. /\ DOMAIN q.todo = found
        /\ \A n \in found : q.todo[n] = row[n] /\ row[n] \in CostRow /\ row[n] # None
    BY <2>1 DEF Restrict, CostsIInv, Shape
  <2>3. request' = [request EXCEPT ![c] = q]
    BY <1>1, <1>4
  <2>4. all => \A n \in Node \ found : row[n] = None
    OBVIOUS
  <2>5. found \subseteq Node
    OBVIOUS
  <2> HIDE DEF q, found
  <2>6. ReqOK(q)
    BY <2>1, <2>2, <2>5 DEF ReqOK
  <2>7. Fresh(q)
    BY <2>1, <2>2, <2>4 DEF Fresh, Current
  <2> QED
    BY <1>1, <1>2, <2>3, <2>6, <2>7, QuietStep
<1> QED
  BY <1>3, <1>4

LEMMA ReadSettingsInv ==
  ASSUME CostsIInv, NEW c \in Client, ReadSettings(c)
  PROVE  CostsIInv'
<1> DEFINE q == request[c]
           r(n) == [at |-> "write", all |-> q.all, todo |-> q.todo,
                    node |-> n, update |-> Inputs(q.todo[n], setting)]
<1>1. /\ q.at = "read" /\ ReqOK(q) /\ UNCHANGED <<row, type, setting, raced, sole, requests>>
      /\ type' \in [Node -> Type \union {None}] /\ requests' \in 0..MaxRequests
  BY DEF ReadSettings, Become, CostsIInv, Shape
<1>2. CASE request' = [request EXCEPT ![c] = Answered("500")]
  BY <1>1, <1>2, AnswerOK, QuietStep
<1>3. ASSUME setting # Garbled, NEW n \in DOMAIN q.todo, request' = [request EXCEPT ![c] = r(n)]
      PROVE  CostsIInv'
  <2> DEFINE w == r(n)
  <2>1. setting \in Setting
    BY <1>3 DEF CostsIInv, Shape
  <2>2. /\ w.at = "write" /\ w.all = q.all /\ w.todo = q.todo /\ w.node = n
        /\ w.update = Inputs(q.todo[n], setting) /\ w # Answered("success")
    <3>1. w.at # Answered("success").at
      BY DEF Answered
    <3> QED
      BY <3>1
  <2>3. request' = [request EXCEPT ![c] = w]
    BY <1>3
  <2> HIDE DEF w
  <2>4. ReqOK(w)
    BY <1>1, <1>3, <2>1, <2>2 DEF ReqOK
  <2>5. c \in sole => Fresh(w)
    <3>1. c \in sole => Fresh(q)
      BY DEF CostsIInv
    <3> QED
      BY <1>1, <1>3, <2>2, <3>1 DEF Fresh
  <2> QED
    BY <1>1, <2>3, <2>4, <2>5, QuietStep
<1> QED
  BY <1>1, <1>2, <1>3 DEF ReadSettings, Become
(* A row is written, and no other request is sole any more. *)
LEMMA WriteStep ==
  ASSUME CostsIInv, NEW c \in Client, NEW q, request' = [request EXCEPT ![c] = q], ReqOK(q),
         NEW n \in Node, NEW new \in CostRow, row' = [row EXCEPT ![n] = new],
         raced' \in {raced \ {n}, raced \union {n}},
         new.pv # None =>
           /\ new.pv.setting = new.setting
           /\ n \notin raced' => new.pv.cost = new.cost /\ new.pv.year \in {new.year, None},
         sole' = sole \intersect {c}, c \in sole' => Fresh(request[c])',
         UNCHANGED <<type, setting, requests>>
  PROVE  CostsIInv'
<1>1. DOMAIN request' = Client /\ request'[c] = q
      /\ \A d \in Client \ {c} : request'[d] = request[d]
  BY DEF CostsIInv, Shape
<1>2. /\ row' \in [Node -> CostRow \union {None}] /\ row'[n] = new /\ new # None
      /\ \A m \in Node \ {n} : row'[m] = row[m]
  BY NoneAssumption DEF CostsIInv, Shape
<1>3. Shape'
  BY <1>1, <1>2 DEF CostsIInv, Shape
<1>4. ASSUME NEW d \in Client
      PROVE  ReqOK(request[d])'
  <2>1. ReqOK(request'[d])
    BY <1>1 DEF CostsIInv
  <2>2. \A m \in Node : row[m] # None => row'[m] # None
    BY <1>2
  <2> QED
    BY <2>1, <2>2 DEF ReqOK
<1>5. ASSUME NEW m \in Node
      PROVE  Fits(m)'
  <2>1. CASE m = n
    BY <1>2, <2>1 DEF Fits
  <2>2. CASE m # n
    <3>1. m \in raced' <=> m \in raced
      BY <2>2
    <3> QED
      BY <1>2, <2>2, <3>1 DEF Fits, CostsIInv
  <2> QED
    BY <2>1, <2>2
<1>6. ASSUME NEW d \in sole'
      PROVE  Fresh(request[d])'
  <2>1. d = c /\ c \in sole'
    OBVIOUS
  <2> QED
    BY <2>1
<1> QED
  BY <1>3, <1>4, <1>5, <1>6 DEF CostsIInv

LEMMA UpsertCostsInv ==
  ASSUME CostsIInv, NEW c \in Client, UpsertCosts(c)
  PROVE  CostsIInv'
<1> DEFINE q == request[c]
           n == q.node
           old == IF row[n] = None THEN EmptyRow ELSE row[n]
           new == Overwrite(old, q.update)
<1>1. q.at = "upsert" /\ n \in Node /\ UpdateOK(q.update) /\ ReqOK(q)
      /\ UNCHANGED <<type, setting, requests>>
  BY DEF UpsertCosts, Become, CostsIInv, ReqOK
<1>2. type' \in [Node -> Type \union {None}] /\ requests' \in 0..MaxRequests
  BY <1>1 DEF CostsIInv, Shape
<1>3. CASE request' = [request EXCEPT ![c] = Answered("500")] /\ UNCHANGED <<row, raced, sole>>
  BY <1>1, <1>2, <1>3, AnswerOK, QuietStep
<1>4. CASE /\ row' = [row EXCEPT ![n] = new]
           /\ raced' = raced \ {n} /\ sole' = sole \intersect {c}
           /\ request' = [request EXCEPT ![c] = Answered("200")]
  <2> DEFINE u == q.update
  <2>1. EmptyRow \in CostRow
    BY DEF EmptyRow, CostRow
  <2>2. old \in CostRow
    BY <1>1, <2>1 DEF CostsIInv, Shape
  <2> HIDE DEF old, u
  <2>3. /\ new \in CostRow
        /\ new.cost = IF "cost" \in DOMAIN u THEN u.cost ELSE old.cost
        /\ new.year = IF "year" \in DOMAIN u THEN u.year ELSE old.year
        /\ new.setting = IF "setting" \in DOMAIN u THEN u.setting ELSE old.setting
        /\ new.pv = IF "pv" \in DOMAIN u THEN u.pv ELSE old.pv
    BY <1>1, <2>2, Overwritten DEF UpdateOK, u
  <2>4. new.pv # None => /\ new.pv.setting = new.setting /\ new.pv.cost = new.cost
                         /\ new.pv.year \in {new.year, None}
    BY <1>1, <2>3 DEF UpdateOK, u
  <2> HIDE DEF new, n
  <2>5. ReqOK(Answered("200")) /\ Fresh(Answered("200"))'
    <3>1. Answered("200").at = "answered" /\ Answered("200") # Answered("success")
      <4>1. Answered("200").status = "200" /\ Answered("success").status = "success"
        BY DEF Answered
      <4> QED
        BY <4>1 DEF Answered
    <3> QED
      BY <3>1, AnswerOK DEF Fresh
  <2>6. request'[c] = Answered("200")
    BY <1>1, <1>4 DEF CostsIInv, Shape
  <2>7. Fresh(request[c])'
    BY <2>5, <2>6 DEF Fresh
  <2> QED
    BY <1>1, <1>4, <2>3, <2>4, <2>5, <2>7, WriteStep
<1> QED
  BY <1>3, <1>4 DEF UpsertCosts, Become, Wrote

LEMMA WriteValueInv ==
  ASSUME CostsIInv, NEW c \in Client, WriteValue(c)
  PROVE  CostsIInv'
<1>20. PICK q, n, u, rest :
         q = request[c] /\ n = q.node /\ u = q.update /\ rest = DOMAIN q.todo \ {n}
  OBVIOUS
<1>21. PICK seen, new : seen = q.todo[n] /\ new = Overwrite(row[n], u)
  OBVIOUS
<1>22. PICK again : again = [at |-> "read", all |-> q.all, todo |-> Restrict(q.todo, rest)]
  OBVIOUS
<1>23. PICK r : r = IF ~(u.pv # None) THEN Answered("404")
                    ELSE IF rest # {} THEN again ELSE Answered(IF q.all THEN "success" ELSE "200")
  OBVIOUS
<1> USE <1>20, <1>21
<1>24. /\ u.pv = None => r = Answered("404")
       /\ u.pv # None /\ rest # {} => r = again
       /\ u.pv # None /\ rest = {} => r = Answered(IF q.all THEN "success" ELSE "200")
  BY <1>23
<1>1. /\ q.at = "write" /\ ReqOK(q) /\ (c \in sole => Fresh(q))
      /\ row' = [row EXCEPT ![n] = new]
      /\ raced' \in {raced \ {n}, raced \union {n}}
      /\ u.pv # None /\ n \notin raced' => row[n].cost = seen.cost /\ row[n].year = seen.year
      /\ sole' = sole \intersect {c}
      /\ request' = [request EXCEPT ![c] = r]
      /\ UNCHANGED <<type, setting, requests>>
  <2>1. q.at = "write" /\ row' = [row EXCEPT ![n] = new] /\ sole' = sole \intersect {c}
        /\ UNCHANGED <<type, setting, requests>>
    BY DEF WriteValue, Become, Wrote
  <2>2. ReqOK(q) /\ (c \in sole => Fresh(q)) /\ n \in DOMAIN row
    BY <2>1 DEF CostsIInv, ReqOK, Shape
  <2>3. raced' = IF u.pv # None /\ <<row[n].cost, row[n].year>> # <<seen.cost, seen.year>>
                   THEN raced \union {n} ELSE raced \ {n}
    BY DEF WriteValue
  <2>4. request' = [request EXCEPT ![c] = r]
    BY <1>22, <1>23 DEF WriteValue, Become
  <2> QED
    BY <2>1, <2>2, <2>3, <2>4
<1>2. /\ DOMAIN q.todo \subseteq Node /\ n \in DOMAIN q.todo /\ n \in Node
      /\ \A m \in DOMAIN q.todo : q.todo[m] \in CostRow /\ row[m] # None
  BY <1>1 DEF ReqOK
<1>3. row[n] \in CostRow /\ seen \in CostRow
  BY <1>2 DEF CostsIInv, Shape
<1>4. PICK s \in Setting : u = Inputs(seen, s)
  BY <1>1 DEF ReqOK
<1>5. /\ u.pv # None => /\ DOMAIN u = {"setting", "pv"} /\ u.setting = s
                  /\ u.pv \in Value /\ u.pv.setting = s
                  /\ u.pv.cost = seen.cost /\ u.pv.year = seen.year
      /\ u.pv = None => DOMAIN u = {"pv"} /\ u.pv = None
  BY <1>3, <1>4, InputsOK
<1>6. /\ new \in CostRow /\ new.cost = row[n].cost /\ new.year = row[n].year
      /\ new.pv = u.pv
      /\ u.pv # None => new.setting = s
  <2>1. DOMAIN u \subseteq Field /\ "pv" \in DOMAIN u /\ "cost" \notin DOMAIN u
        /\ "year" \notin DOMAIN u /\ u.pv \in Value \union {None}
        /\ ("setting" \in DOMAIN u => u.setting \in Setting)
    BY <1>5 DEF Field
  <2>2. /\ new \in CostRow /\ new.cost = row[n].cost /\ new.year = row[n].year
        /\ new.pv = u.pv
        /\ new.setting = IF "setting" \in DOMAIN u THEN u.setting ELSE row[n].setting
    BY <1>3, <2>1, Overwritten
  <2> QED
    BY <1>5, <2>2
<1>7. new.pv # None =>
           /\ new.pv.setting = new.setting
           /\ n \notin raced' => new.pv.cost = new.cost /\ new.pv.year \in {new.year, None}
  BY <1>1, <1>5, <1>6
<1>8. again.at = "read" /\ again.all = q.all /\ again.todo = Restrict(q.todo, rest)
      /\ DOMAIN again.todo = rest /\ (\A m \in rest : again.todo[m] = q.todo[m])
      /\ again # Answered("success")
  <2>1. again.at # Answered("success").at
    BY <1>22 DEF Answered
  <2> QED
    BY <1>22, <2>1 DEF Restrict
<1>9. \A status : Answered(status).at = "answered" /\ Answered(status).status = status
  BY DEF Answered
<1>10. ReqOK(r)
  <2>1. ReqOK(again)
    BY <1>2, <1>8 DEF ReqOK
  <2>2. \A status : ReqOK(Answered(status))
    BY <1>9 DEF ReqOK
  <2> QED
    BY <1>24, <2>1, <2>2
<1>11. /\ row'[n] = new /\ \A m \in Node \ {n} : row'[m] = row[m]
  BY <1>1, <1>2 DEF CostsIInv, Shape
<1>12. ASSUME c \in sole'
       PROVE  Fresh(r)'
  <2>1. c \in sole /\ Fresh(q)
    BY <1>1, <1>12
  <2>2. ASSUME q.all, (u.pv # None)
        PROVE  /\ \A m \in Node \ DOMAIN q.todo : Current(m)'
               /\ Current(n)'
               /\ \A m \in rest : row'[m] = q.todo[m]
               /\ setting # Garbled
    <3>1. /\ \A m \in Node \ DOMAIN q.todo : Current(m)
          /\ \A m \in DOMAIN q.todo : row[m] = q.todo[m]
          /\ setting # Garbled /\ u = Inputs(seen, setting)
      BY <1>1, <2>1, <2>2 DEF Fresh
    <3>2. setting \in Setting
      BY <3>1 DEF CostsIInv, Shape
    <3>3. u.pv = Compute(seen, setting)
      BY <1>3, <2>2, <3>1, <3>2, InputsOK
    <3>4. DOMAIN new = Field /\ DOMAIN seen = Field /\ seen = row[n]
      BY <1>2, <1>3, <1>6, <3>1, RowFields
    <3>5. Compute(new, setting) = Compute(seen, setting)
      BY <1>6, <3>4 DEF Compute
    <3>6. Current(n)'
      BY <1>1, <1>6, <1>11, <3>1, <3>3, <3>5 DEF Current
    <3>7. \A m \in Node \ DOMAIN q.todo : Current(m)'
      BY <1>1, <1>2, <1>11, <3>1 DEF Current
    <3> QED
      BY <1>2, <1>11, <3>1, <3>6, <3>7
  <2>3. CASE u.pv = None
    <3>1. r = Answered("404") /\ r # Answered("success") /\ r.at = "answered"
      BY <1>9, <1>24, <2>3
    <3> QED
      BY <3>1 DEF Fresh
  <2>4. CASE u.pv # None /\ rest # {}
    <3>1. r = again
      BY <1>24, <2>4
    <3>2. \A m \in Node \ rest : q.all => Current(m)'
      BY <2>2, <2>4
    <3> QED
      BY <1>8, <2>2, <2>4, <3>1, <3>2 DEF Fresh
  <2>5. CASE u.pv # None /\ rest = {}
    <3>1. r = Answered(IF q.all THEN "success" ELSE "200") /\ r.at = "answered"
      BY <1>9, <1>24, <2>5
    <3>2. r = Answered("success") => q.all
      BY <1>9, <3>1
    <3>3. \A m \in Node : q.all => Current(m)'
      BY <2>2, <2>5
    <3> QED
      BY <1>1, <2>2, <2>5, <3>1, <3>2, <3>3 DEF Fresh
  <2> QED
    BY <2>3, <2>4, <2>5
<1>13. c \in sole' => Fresh(request[c])'
  <2>1. request'[c] = r
    BY <1>1 DEF CostsIInv, Shape
  <2> QED
    BY <1>12, <2>1 DEF Fresh
<1>14. n \in Node /\ new \in CostRow
  BY <1>2, <1>6
<1> QED
  BY <1>1, <1>7, <1>10, <1>13, <1>14, WriteStep, ZenonT(60)

LEMMA PatchSettingInv ==
  ASSUME CostsIInv, NEW c \in Client, NEW s \in Setting \union {Garbled}, PatchSetting(c, s)
  PROVE  CostsIInv'
<1> DEFINE q == Answered("200")
<1>1. /\ request' = [request EXCEPT ![c] = q] /\ requests' \in 0..MaxRequests
      /\ setting' = s /\ sole' = {c} /\ UNCHANGED <<row, type, raced>>
  BY CostsAssumption DEF PatchSetting, Begin, CostsIInv, Shape
<1>2. DOMAIN request' = Client /\ request'[c] = q
      /\ \A d \in Client \ {c} : request'[d] = request[d]
  BY <1>1 DEF CostsIInv, Shape
<1>3. Shape'
  BY <1>1, <1>2 DEF CostsIInv, Shape
<1>4. q.at = "answered" /\ q # Answered("success")
  <2>1. q.status = "200" /\ Answered("success").status = "success"
    BY DEF Answered
  <2> QED
    BY <2>1 DEF Answered
<1> HIDE DEF q
<1>5. \A d \in Client : ReqOK(request[d])'
  <2>1. \A d \in Client : ReqOK(request'[d])
    BY <1>2, <1>4 DEF CostsIInv, ReqOK
  <2> QED
    BY <1>1, <2>1 DEF ReqOK
<1>6. \A n \in Node : Fits(n)'
  BY <1>1 DEF CostsIInv, Fits
<1>7. \A d \in sole' : Fresh(request[d])'
  BY <1>1, <1>2, <1>4 DEF Fresh
<1> QED
  BY <1>3, <1>5, <1>6, <1>7 DEF CostsIInv

LEMMA CostsInitInv ==
  CostsInit => CostsIInv
<1> SUFFICES ASSUME CostsInit PROVE CostsIInv
  OBVIOUS
<1> DEFINE R(k) == [cost |-> k, year |-> None, setting |-> setting,
                    pv |-> [cost |-> k, year |-> None, setting |-> setting]]
<1>1. setting \in Setting /\ row \in [Node -> {None} \union {R(k) : k \in Cost}]
  BY DEF CostsInit
<1>2. ASSUME NEW k \in Cost
      PROVE  /\ R(k) \in CostRow
             /\ R(k).pv.setting = R(k).setting /\ R(k).pv.cost = R(k).cost /\ R(k).pv.year = None
  <2>1. [cost |-> k, year |-> None, setting |-> setting] \in Value
    BY <1>1 DEF Value
  <2> QED
    BY <1>1, <2>1 DEF CostRow
<1> HIDE DEF R
<1>3. row \in [Node -> CostRow \union {None}]
  BY <1>1, <1>2
<1>4. Shape
  BY <1>1, <1>3, CostsAssumption DEF CostsInit, Shape
<1>5. ASSUME NEW n \in Node PROVE Fits(n)
  <2>1. row[n] # None => \E k \in Cost : row[n] = R(k)
    BY <1>1
  <2> QED
    BY <1>2, <2>1 DEF Fits
<1>6. \A c \in Client : ReqOK(request[c])
  BY DEF CostsInit, ReqOK, Idle
<1>7. \A c \in sole : Fresh(request[c])
  BY DEF CostsInit
<1> QED
  BY <1>4, <1>5, <1>6, <1>7 DEF CostsIInv

LEMMA CostsNextInv ==
  CostsIInv /\ [CostsNext]_costVars => CostsIInv'
<1> SUFFICES ASSUME CostsIInv, [CostsNext]_costVars PROVE CostsIInv'
  OBVIOUS
<1>1. CASE UNCHANGED costVars
  BY <1>1 DEF costVars, CostsIInv, Shape, ReqOK, Fits, Fresh, Current
<1>2. ASSUME NEW c \in Client, NEW n \in Node, StartCalculation(c, {n}, FALSE) PROVE CostsIInv'
  <2>1. {n} \in SUBSET Node
    OBVIOUS
  <2> QED
    BY <1>2, <2>1, StartCalculationInv
<1>3. ASSUME NEW c \in Client, StartCalculation(c, Node, TRUE) PROVE CostsIInv'
  BY <1>3, StartCalculationInv
<1> QED
  BY <1>1, <1>2, <1>3, SubmitPatchInv, PatchAttributesInv, UpsertCostsInv, ReadSettingsInv,
     WriteValueInv, PatchSettingInv
     DEF CostsNext

-----------------------------------------------------------------------------
(* The strengthening: whatever a request carries over an await fits the
   row that it will be written into, or makes the facility raced.          *)
THEOREM CostsStrengthening == CostsSpec => []CostsIInv
<1>1. CostsInit => CostsIInv
  BY CostsInitInv
<1>2. CostsIInv /\ [CostsNext]_costVars => CostsIInv'
  BY CostsNextInv
<1> QED
  BY <1>1, <1>2, PTL DEF CostsSpec

(* Rows keep their shape through patches of some fields, insertions and
   calculations; a present value has all the inputs it needs.              *)
THEOREM CostsTypeCorrect == CostsSpec => []CostsTypeOK
<1>1. CostsIInv => CostsTypeOK
  BY DEF CostsIInv, Shape, ReqOK, CostsTypeOK
<1> QED
  BY <1>1, CostsStrengthening, PTL

(* A facility never shows a present value of costs that it does not have,
   but for the two exceptions that PresentValueFits names
   (maybe_update_pv_params, calculate_pv_for_existing_tmnt_in_db).         *)
THEOREM ValuesFit == CostsSpec => []PresentValueFits
<1>1. CostsIInv => PresentValueFits
  BY DEF CostsIInv, Fits, PresentValueFits
<1> QED
  BY <1>1, CostsStrengthening, PTL

(* After the answer that all values were recalculated they are those of the
   rows and of the present settings, if nobody else has written.           *)
THEOREM AllRefreshed == CostsSpec => []RefreshedAll
<1>1. CostsIInv => RefreshedAll
  BY DEF CostsIInv, Fresh, Current, RefreshedAll
<1> QED
  BY <1>1, CostsStrengthening, PTL

-----------------------------------------------------------------------------
(* The orders of well numbered rows. *)

LEMMA Bounded ==
  ASSUME NEW S \in SUBSET Nat, IsFiniteSet(S)
  PROVE  \E b \in Nat : \A x \in S : x < b
<1> DEFINE Wrong == {t \in SUBSET S : ~ \E b \in Nat : \A x \in t : x < b}
<1>1. SUFFICES ASSUME Wrong # {} PROVE FALSE
  OBVIOUS
<1>2. PICK t \in Wrong : \A x \in t : t \ {x} \notin Wrong
  <2>1. Wrong \in SUBSET (SUBSET S)
    OBVIOUS
  <2> HIDE DEF Wrong
  <2> QED
    BY <1>1, <2>1, Smallest
<1>3. PICK x \in t : TRUE
  OBVIOUS
<1>4. PICK b \in Nat : \A y \in t \ {x} : y < b
  BY <1>2, <1>3
<1>5. x \in Nat /\ t \subseteq Nat
  OBVIOUS
<1>6. CASE x < b
  BY <1>2, <1>4, <1>6
<1>7. CASE ~(x < b)
  <2>1. \A y \in t : y < x + 1
    BY <1>4, <1>5, <1>7
  <2>2. x + 1 \in Nat
    BY <1>5
  <2> QED
    BY <1>2, <2>1, <2>2
<1> QED
  BY <1>6, <1>7

(* From zero and without a gap. *)
LEMMA FirstNumbers ==
  ASSUME NEW S \in SUBSET Nat, IsFiniteSet(S), S # {} => 0 \in S,
         \A a, b \in S : a..b \subseteq S
  PROVE  \E n \in Nat : S = 0..(n - 1)
<1> DEFINE Bound == {b \in Nat : \A x \in S : x < b}
<1>1. PICK n \in Bound : \A b \in Bound : n <= b
  <2>1. Bound \in SUBSET Nat /\ Bound # {}
    BY Bounded
  <2> HIDE DEF Bound
  <2> QED
    BY <2>1, Minimum
<1>2. n \in Nat /\ \A x \in S : x < n
  OBVIOUS
<1>3. CASE n = 0
  <2>1. S = {} /\ 0..(n - 1) = {}
    BY <1>2, <1>3
  <2> QED
    BY <1>2, <2>1
<1>4. CASE n # 0
  <2>1. n - 1 \in Nat /\ ~(n <= n - 1)
    BY <1>2, <1>4
  <2>2. n - 1 \notin Bound
    BY <1>1, <2>1
  <2>3. PICK x \in S : ~(x < n - 1)
    BY <2>1, <2>2
  <2>4. x = n - 1
    BY <1>2, <2>1, <2>3
  <2>5. 0 \in S
    BY <2>3
  <2>6. 0..(n - 1) \subseteq S
    BY <2>4, <2>5
  <2>7. S = 0..(n - 1)
    <3>1. \A y \in S : y \in 0..(n - 1)
      BY <1>2
    <3> QED
      BY <2>6, <3>1
  <2> QED
    BY <1>2, <2>7
<1> QED
  BY <1>2, <1>3, <1>4

(* There is one way to sort the first numbers. *)
LEMMA Increasing ==
  ASSUME NEW n \in Nat, NEW f \in [1..n -> 0..(n - 1)],
         \A i, j \in 1..n : i < j => f[i] < f[j]
  PROVE  \A i \in 1..n : f[i] = i - 1
<1>1. \A i \in 1..n : f[i] \in Nat /\ f[i] <= n - 1
  OBVIOUS
<1>2. ASSUME NEW i \in 1..n PROVE f[i] >= i - 1
  <2> DEFINE Wrong == {k \in 1..n : f[k] < k - 1}
  <2>0. SUFFICES ASSUME Wrong # {} PROVE FALSE
    <3>1. Wrong = {} => ~(f[i] < i - 1)
      OBVIOUS
    <3> HIDE DEF Wrong
    <3> QED
      BY <1>1, <3>1
  <2>1. PICK m \in Wrong : \A k \in Wrong : m <= k
    <3>1. Wrong \in SUBSET Nat
      OBVIOUS
    <3> HIDE DEF Wrong
    <3> QED
      BY <2>0, <3>1, Minimum
  <2>2. m \in 1..n /\ f[m] < m - 1
    OBVIOUS
  <2>3. m - 1 \in 1..n /\ ~(m <= m - 1) /\ m - 1 < m
    BY <1>1, <2>2
  <2>4. m - 1 \notin Wrong
    BY <2>1, <2>3
  <2>5. f[m - 1] >= m - 2
    BY <1>1, <2>2, <2>3, <2>4
  <2>6. f[m - 1] < f[m]
    BY <2>2, <2>3
  <2> QED
    BY <1>1, <2>2, <2>3, <2>5, <2>6
<1>3. ASSUME NEW i \in 1..n PROVE f[i] <= i - 1
  <2> DEFINE Wrong == {k \in 0..(n - 1) : f[n - k] > n - k - 1}
  <2>0. SUFFICES ASSUME Wrong # {} PROVE FALSE
    <3>1. n - i \in 0..(n - 1) /\ n - (n - i) = i
      OBVIOUS
    <3>2. Wrong = {} => ~(f[n - (n - i)] > n - (n - i) - 1)
      BY <3>1
    <3> HIDE DEF Wrong
    <3> QED
      BY <1>1, <3>1, <3>2
  <2>1. PICK m \in Wrong : \A k \in Wrong : m <= k
    <3>1. Wrong \in SUBSET Nat
      OBVIOUS
    <3> HIDE DEF Wrong
    <3> QED
      BY <2>0, <3>1, Minimum
  <2>2. m \in 0..(n - 1) /\ f[n - m] > n - m - 1 /\ n - m \in 1..n
    OBVIOUS
  <2>3. m # 0
    BY <1>1, <2>2
  <2>4. m - 1 \in 0..(n - 1) /\ ~(m <= m - 1) /\ n - m < n - (m - 1) /\ n - (m - 1) \in 1..n
    BY <2>2, <2>3
  <2>5. m - 1 \notin Wrong
    BY <2>1, <2>4
  <2>6. f[n - (m - 1)] <= n - (m - 1) - 1
    BY <1>1, <2>4, <2>5
  <2>7. f[n - m] < f[n - (m - 1)]
    BY <2>2, <2>4
  <2> QED
    BY <1>1, <2>2, <2>4, <2>6, <2>7
<1> QED
  BY <1>1, <1>2, <1>3

LEMMA OrdersSorted ==
  ASSUME NEW rows, NEW n \in Nat, {c.order : c \in rows} = 0..(n - 1)
  PROVE  Orders(rows) = [i \in 1..n |-> i - 1]
<1> DEFINE used == {c.order : c \in rows}
           Sorted(f) == \A i, j \in DOMAIN f : i < j => f[i] < f[j]
           g == [i \in 1..n |-> i - 1]
           o == CHOOSE f \in [1..n -> 0..(n - 1)] : Sorted(f)
<1>1. Cardinality(0..(n - 1)) = n
  BY FS_Interval
<1>2. Orders(rows) = o
  BY <1>1 DEF Orders
<1>3. g \in [1..n -> 0..(n - 1)] /\ Sorted(g)
  OBVIOUS
<1>4. o \in [1..n -> 0..(n - 1)] /\ Sorted(o)
  <2> HIDE DEF g, Sorted
  <2> QED
    BY <1>3
<1> HIDE DEF o
<1>5. \A i \in 1..n : o[i] = i - 1
  BY <1>4, Increasing
<1> QED
  BY <1>2, <1>4, <1>5

-----------------------------------------------------------------------------
(* The loop over the orders of well numbered rows. *)

(* What the activities of a subbasin are, up to an order. *)
UpTo(rows, s, k) ==
  {r.activity : r \in {q \in rows : q.subbasin = s /\ q.order <= k}}

(* The frame of an order, as it should be. *)
Frame(rows, k) ==
  {[subbasin |-> c.subbasin, order |-> c.order, applied |-> UpTo(rows, c.subbasin, c.order)] :
     c \in {r \in rows : r.order = k}}

Frames(rows, k) == [i \in 1..k |-> Frame(rows, i - 1)]

After(rows, k) == [df2 |-> Frames(rows, k), raised |-> FALSE]

Numbered(rows) ==
  /\ rows \subseteq Control /\ Unique(rows) /\ \A r \in rows : r.order \in Nat
  /\ \A a, b \in rows : a.subbasin = b.subbasin =>
       \A o \in a.order..b.order : \E c \in rows : c.subbasin = a.subbasin /\ c.order = o

LEMMA RowsAreRecords ==
  ASSUME NEW rows, rows \subseteq Control, NEW a \in rows, NEW b \in rows,
         a.subbasin = b.subbasin, a.order = b.order, Unique(rows)
  PROVE  a = b
BY DEF Unique

(* What the previous frame passes on to the row of a subbasin. *)
LEMMA PassedOn ==
  ASSUME NEW rows, Numbered(rows), NEW k \in Nat, NEW c \in rows, c.order = k + 1
  PROVE  UNION {f.applied : f \in {e \in Frame(rows, k) : e.subbasin = c.subbasin}}
           = UpTo(rows, c.subbasin, k)
<1> DEFINE found == {e \in Frame(rows, k) : e.subbasin = c.subbasin}
           all == {f.applied : f \in found}
<1>0. SUFFICES UNION all = UpTo(rows, c.subbasin, k)
  OBVIOUS
<1>1. \A e \in found : e.applied = UpTo(rows, c.subbasin, k)
  BY DEF Frame
<1>2. CASE found # {}
  <2>1. all = {UpTo(rows, c.subbasin, k)}
    BY <1>1, <1>2
  <2> HIDE DEF all
  <2> QED
    BY <2>1
<1>3. CASE found = {}
  <2>1. ASSUME NEW r \in rows, r.subbasin = c.subbasin, r.order <= k PROVE FALSE
    <3>1. r.order \in Nat /\ c.order \in Nat
      BY DEF Numbered
    <3>2. k \in r.order..c.order
      BY <2>1, <3>1
    <3>3. PICK q \in rows : q.subbasin = r.subbasin /\ q.order = k
      BY <2>1, <3>2 DEF Numbered
    <3>4. [subbasin |-> q.subbasin, order |-> q.order,
           applied |-> UpTo(rows, q.subbasin, q.order)] \in found
      BY <2>1, <3>3 DEF Frame
    <3> HIDE DEF found
    <3> QED
      BY <1>3, <3>4
  <2>2. UpTo(rows, c.subbasin, k) = {}
    BY <2>1 DEF UpTo
  <2>3. all = {}
    BY <1>3
  <2> HIDE DEF found, all
  <2> QED
    BY <2>2, <2>3
<1> QED
  BY <1>2, <1>3

(* The row itself, and what it has been passed. *)
LEMMA OneMore ==
  ASSUME NEW rows, Numbered(rows), NEW c \in rows
  PROVE  UpTo(rows, c.subbasin, c.order) = {c.activity} \union UpTo(rows, c.subbasin, c.order - 1)
<1>1. \A r \in rows : r.order \in Nat
  BY DEF Numbered
<1>2. \A r \in rows : r.subbasin = c.subbasin /\ r.order <= c.order <=>
                      r = c \/ (r.subbasin = c.subbasin /\ r.order <= c.order - 1)
  <2>1. ASSUME NEW r \in rows, r.subbasin = c.subbasin, r.order = c.order PROVE r = c
    BY <2>1, RowsAreRecords DEF Numbered
  <2> QED
    BY <1>1, <2>1
<1>3. {q \in rows : q.subbasin = c.subbasin /\ q.order <= c.order}
        = {c} \union {q \in rows : q.subbasin = c.subbasin /\ q.order <= c.order - 1}
  BY <1>2
<1> QED
  BY <1>3 DEF UpTo

LEMMA OrderAppended ==
  ASSUME NEW rows, Numbered(rows), NEW n \in Nat, NEW i \in 1..n
  PROVE  AppendOrder(Frames(rows, i - 1), rows, [j \in 1..n |-> j - 1], i) = Frames(rows, i)
<1> DEFINE orders == [j \in 1..n |-> j - 1]
           df2 == Frames(rows, i - 1)
           next == {[ subbasin |-> c.subbasin, order |-> c.order,
                      applied |-> {c.activity}
                        \union (IF i = 1 THEN {} ELSE Previous(df2, i - 2, c.subbasin)) ] :
                      c \in {r \in rows : r.order = i - 1}}
<1>1. orders[i] = i - 1 /\ (i # 1 => orders[i - 1] = i - 2)
  OBVIOUS
<1>2. AppendOrder(df2, rows, orders, i) = Append(df2, next)
  <2> HIDE DEF orders, df2
  <2> QED
    BY <1>1 DEF AppendOrder
<1>3. ASSUME NEW c \in rows, c.order = i - 1
      PROVE  {c.activity} \union (IF i = 1 THEN {} ELSE Previous(df2, i - 2, c.subbasin))
               = UpTo(rows, c.subbasin, c.order)
  <2>1. CASE i = 1
    <3>1. UpTo(rows, c.subbasin, c.order - 1) = {}
      BY <1>3, <2>1 DEF UpTo, Numbered
    <3> QED
      BY <2>1, <3>1, OneMore
  <2>2. CASE i # 1
    <3>1. Len(df2) = i - 1 /\ df2[i - 1] = Frame(rows, i - 2)
      BY <2>2 DEF Frames
    <3>2. Element(df2, i - 2) = Frame(rows, i - 2)
      <4>1. ~(i - 2 < 0) /\ i - 2 + 1 = i - 1
        BY <2>2
      <4> HIDE DEF df2
      <4> QED
        BY <3>1, <4>1 DEF Element
    <3>3. Previous(df2, i - 2, c.subbasin) = UpTo(rows, c.subbasin, i - 2)
      <4>1. i - 2 \in Nat /\ c.order = (i - 2) + 1
        BY <1>3, <2>2
      <4> HIDE DEF df2
      <4> QED
        BY <3>2, <4>1, PassedOn DEF Previous
    <3>4. c.order - 1 = i - 2
      BY <1>3
    <3> HIDE DEF df2
    <3> QED
      BY <2>2, <3>3, <3>4, OneMore
  <2> QED
    BY <2>1, <2>2
<1>4. next = Frame(rows, i - 1)
  <2> HIDE DEF df2
  <2> QED
    BY <1>3 DEF Frame
<1>5. Append(df2, Frame(rows, i - 1)) = Frames(rows, i)
  <2>1. Len(df2) = i - 1 /\ df2 \in Seq({Frame(rows, j) : j \in Nat})
    BY DEF Frames
  <2> QED
    BY <2>1 DEF Frames
<1> QED
  BY <1>2, <1>4, <1>5

LEMMA PassedAll ==
  ASSUME NEW rows, Numbered(rows), NEW n \in Nat, NEW i \in 1..n
  PROVE  Pass(After(rows, i - 1), rows, [j \in 1..n |-> j - 1], i) = After(rows, i)
<1> DEFINE orders == [j \in 1..n |-> j - 1]
           acc == After(rows, i - 1)
<1>1. acc.df2 = Frames(rows, i - 1) /\ acc.raised = FALSE
  BY DEF After
<1>2. i > 1 => orders[i - 1] = i - 2 /\ Len(Frames(rows, i - 1)) = i - 1
  BY DEF Frames
<1>3. i > 1 => InRange(acc.df2, orders[i - 1])
  <2> HIDE DEF orders, acc
  <2> QED
    BY <1>1, <1>2 DEF InRange
<1>4. Pass(acc, rows, orders, i) = [acc EXCEPT !.df2 = AppendOrder(@, rows, orders, i)]
  BY <1>1, <1>3 DEF Pass
<1>5. AppendOrder(Frames(rows, i - 1), rows, orders, i) = Frames(rows, i)
  BY OrderAppended
<1> QED
  BY <1>4, <1>5 DEF After


LEMMA LoopDone ==
  ASSUME NEW rows, Numbered(rows), NEW n \in Nat, Orders(rows) = [i \in 1..n |-> i - 1]
  PROVE  Reductions(rows) = [raised |-> FALSE, rows |-> UNION Range(Frames(rows, n))]
<1> DEFINE turns(f) ==
             [i \in 0..n |->
                IF i = 0 THEN [df2 |-> << >>, raised |-> ~NoDuplicates(rows)]
                         ELSE Pass(f[i - 1], rows, [j \in 1..n |-> j - 1], i)]
           after == CHOOSE f : f = turns(f)
           g == [i \in 0..n |-> After(rows, i)]
<1>1. NoDuplicates(rows)
  <2> SUFFICES ASSUME NEW c \in rows
               PROVE  Cardinality(InSubbasin(rows, c.subbasin, c.order)) <= 1
    BY DEF NoDuplicates
  <2>1. \A r \in rows : r.subbasin = c.subbasin /\ r.order = c.order <=> r = c
    BY RowsAreRecords DEF Numbered
  <2>2. InSubbasin(rows, c.subbasin, c.order) = {c}
    BY <2>1 DEF InSubbasin
  <2>3. Cardinality({c}) = 1
    BY FS_Singleton
  <2> QED
    BY <2>2, <2>3
<1>2. After(rows, 0) = [df2 |-> << >>, raised |-> ~NoDuplicates(rows)]
  <2>1. Frames(rows, 0) \in Seq({Frame(rows, j) : j \in Int}) /\ Len(Frames(rows, 0)) = 0
    BY DEF Frames
  <2>2. Frames(rows, 0) = << >>
    BY <2>1
  <2> QED
    BY <1>1, <2>2 DEF After
<1>3. g = turns(g)
  <2>1. ASSUME NEW i \in 0..n PROVE g[i] = turns(g)[i]
    <3>1. CASE i = 0
      BY <1>2, <3>1
    <3>2. CASE i # 0
      <4>1. i \in 1..n /\ i - 1 \in 0..n
        BY <3>2
      <4>2. g[i - 1] = After(rows, i - 1)
        BY <4>1
      <4>3. Pass(After(rows, i - 1), rows, [j \in 1..n |-> j - 1], i) = After(rows, i)
        BY <4>1, PassedAll
      <4> QED
        BY <3>2, <4>2, <4>3
    <3> QED
      BY <3>1, <3>2
  <2>2. g = [i \in 0..n |-> g[i]] /\ turns(g) = [i \in 0..n |-> turns(g)[i]]
    OBVIOUS
  <2> HIDE DEF g, turns
  <2> QED
    BY <2>1, <2>2
<1>4. after = turns(after)
  <2> HIDE DEF g, turns
  <2> QED
    BY <1>3
<1>5. Len(Orders(rows)) = n
  OBVIOUS
<1>6. Reductions(rows) =
        [raised |-> after[n].raised, rows |-> UNION Range(after[n].df2)]
  BY <1>5 DEF Reductions
<1> HIDE DEF after
<1>7. after[0] = After(rows, 0)
  BY <1>2, <1>4
<1>8. ASSUME NEW i \in 1..n, after[i - 1] = After(rows, i - 1) PROVE after[i] = After(rows, i)
  <2>1. after[i] = Pass(after[i - 1], rows, [j \in 1..n |-> j - 1], i)
    BY <1>4
  <2> QED
    BY <1>8, <2>1, PassedAll
<1>9. after[n] = After(rows, n)
  <2> DEFINE Wrong == {i \in 0..n : after[i] # After(rows, i)}
  <2>1. SUFFICES ASSUME Wrong # {} PROVE FALSE
    <3>1. n \notin Wrong => after[n] = After(rows, n)
      OBVIOUS
    <3> HIDE DEF Wrong
    <3> QED
      BY <3>1
  <2>2. PICK m \in Wrong : \A k \in Wrong : m <= k
    <3>1. Wrong \in SUBSET Nat
      OBVIOUS
    <3> HIDE DEF Wrong
    <3> QED
      BY <2>1, <3>1, Minimum
  <2>3. m # 0
    BY <1>7
  <2>4. m \in 1..n /\ m - 1 \in 0..n /\ ~(m <= m - 1)
    BY <2>3
  <2>5. after[m - 1] = After(rows, m - 1)
    BY <2>2, <2>4
  <2> QED
    BY <1>8, <2>4, <2>5
<1> QED
  BY <1>6, <1>9 DEF After

LEMMA NumberedInOrder ==
  ASSUME NEW rows, Numbered(rows), NEW n \in Nat, {c.order : c \in rows} = 0..(n - 1)
  PROVE  InOrder(rows)
<1> DEFINE wanted == {[ subbasin |-> c.subbasin, order |-> c.order,
                        applied |-> UpTo(rows, c.subbasin, c.order)] : c \in rows}
<1>1. Reductions(rows) = [raised |-> FALSE, rows |-> UNION Range(Frames(rows, n))]
  BY OrdersSorted, LoopDone
<1>2. Range(Frames(rows, n)) = {Frame(rows, i - 1) : i \in 1..n}
  BY DEF Range, Frames
<1>3. ASSUME NEW x \in UNION {Frame(rows, i - 1) : i \in 1..n} PROVE x \in wanted
  BY DEF Frame
<1>4. ASSUME NEW x \in wanted PROVE x \in UNION {Frame(rows, i - 1) : i \in 1..n}
  <2>1. PICK c \in rows : x = [ subbasin |-> c.subbasin, order |-> c.order,
                                applied |-> UpTo(rows, c.subbasin, c.order)]
    OBVIOUS
  <2>2. c.order \in 0..(n - 1)
    OBVIOUS
  <2>3. c.order + 1 \in 1..n /\ (c.order + 1) - 1 = c.order
    BY <2>2
  <2>4. x \in Frame(rows, c.order)
    BY <2>1 DEF Frame
  <2>5. Frame(rows, c.order) \in {Frame(rows, i - 1) : i \in 1..n}
    BY <2>3
  <2> QED
    BY <2>4, <2>5
<1>5. UNION Range(Frames(rows, n)) = wanted
  <2> HIDE DEF wanted
  <2> QED
    BY <1>2, <1>3, <1>4
<1> QED
  BY <1>1, <1>5 DEF InOrder, UpTo

-----------------------------------------------------------------------------
(* The table: no two rows of a subbasin with the same order, and a finite
   number of orders.                                                       *)

SourceControlsInv ==
  /\ SourceControlsTypeOK
  /\ Unique(controls)
  /\ IsFiniteSet({c.order : c \in controls})

LEMMA SourceControlsInitInv ==
  ASSUME SourceControlsInit
  PROVE  SourceControlsInv
<1>1. ASSUME NEW subbasins \in SUBSET Subbasin, NEW k \in 1..2,
             controls = {[subbasin |-> s, order |-> i - 1,
                          activity |-> IF i = 1 THEN sweeping ELSE dumping] :
                           s \in subbasins, i \in 1..k}
      PROVE  SourceControlsInv
  <2>1. SourceControlsTypeOK
    BY <1>1, SourceControlAssumption DEF SourceControlsTypeOK, Control
  <2>2. Unique(controls)
    <3> SUFFICES ASSUME NEW a \in controls, NEW b \in controls,
                        a # b, a.subbasin = b.subbasin
                 PROVE  a.order # b.order /\ a.activity # b.activity
      BY DEF Unique
    <3> DEFINE of(s, i) == [subbasin |-> s, order |-> i - 1,
                            activity |-> IF i = 1 THEN sweeping ELSE dumping]
    <3>0. \A x : x \in controls <=> \E s \in subbasins, i \in 1..k : x = of(s, i)
      <4>1. controls = {of(s, i) : s \in subbasins, i \in 1..k}
        BY <1>1
      <4> HIDE DEF of
      <4> QED
        BY <4>1
    <3>1. PICK s \in subbasins, i \in 1..k :
            a = [subbasin |-> s, order |-> i - 1,
                 activity |-> IF i = 1 THEN sweeping ELSE dumping]
      BY <3>0
    <3>2. PICK t \in subbasins, j \in 1..k :
            b = [subbasin |-> t, order |-> j - 1,
                 activity |-> IF j = 1 THEN sweeping ELSE dumping]
      BY <3>0
    <3>3. i \in {1, 2} /\ j \in {1, 2} /\ i # j
      BY <3>1, <3>2
    <3> QED
      BY <3>1, <3>2, <3>3, SourceControlAssumption
  <2>3. {c.order : c \in controls} \in SUBSET {0, 1}
    BY <1>1
  <2>4. IsFiniteSet({0} \union {1}) /\ {0} \union {1} = {0, 1}
    BY FS_Singleton, FS_AddElement
  <2> QED
    BY <2>1, <2>2, <2>3, <2>4, FS_Subset DEF SourceControlsInv
<1>2. CASE controls = Defaults(Subbasin, <<sweeping, dumping>>)
  <2>1. DOMAIN <<sweeping, dumping>> = 1..2
    OBVIOUS
  <2>2. \A i \in 1..2 : <<sweeping, dumping>>[i] = IF i = 1 THEN sweeping ELSE dumping
    OBVIOUS
  <2>3. controls = {[subbasin |-> s, order |-> i - 1,
                     activity |-> IF i = 1 THEN sweeping ELSE dumping] :
                      s \in Subbasin, i \in 1..2}
    BY <1>2, <2>1, <2>2 DEF Defaults
  <2> QED
    BY <1>1, <2>3
<1>3. CASE \E foss \in SUBSET Subbasin : controls = Defaults(foss, <<sweeping>>)
  <2>1. PICK foss \in SUBSET Subbasin : controls = Defaults(foss, <<sweeping>>)
    BY <1>3
  <2>2. DOMAIN <<sweeping>> = 1..1
    OBVIOUS
  <2>3. \A i \in 1..1 : <<sweeping>>[i] = IF i = 1 THEN sweeping ELSE dumping
    OBVIOUS
  <2>4. controls = {[subbasin |-> s, order |-> i - 1,
                     activity |-> IF i = 1 THEN sweeping ELSE dumping] :
                      s \in foss, i \in 1..1}
    BY <2>1, <2>2, <2>3 DEF Defaults
  <2> QED
    BY <1>1, <2>4
<1> QED
  BY <1>2, <1>3 DEF SourceControlsInit

LEMMA SourceControlsStepInv ==
  ASSUME SourceControlsInv, [SourceControlsNext]_controls
  PROVE  SourceControlsInv'
<1> DEFINE O == {c.order : c \in controls}
<1>1. ASSUME NEW new \in Control, controls' \subseteq controls \union {new}, Unique(controls')
      PROVE  SourceControlsInv'
  <2>1. SourceControlsTypeOK'
    BY <1>1 DEF SourceControlsInv, SourceControlsTypeOK
  <2>2. {c.order : c \in controls'} \in SUBSET (O \union {new.order})
    BY <1>1
  <2>3. IsFiniteSet(O \union {new.order})
    BY FS_AddElement DEF SourceControlsInv
  <2>4. IsFiniteSet({c.order : c \in controls'})
    BY <2>2, <2>3, FS_Subset
  <2> QED
    BY <1>1, <2>1, <2>4 DEF SourceControlsInv, Unique
<1>2. ASSUME NEW s \in Subbasin, NEW order \in Order, NEW a \in Activity, CreateControl(s, order, a)
      PROVE  SourceControlsInv'
  <2> DEFINE new == [subbasin |-> s, order |-> order, activity |-> a]
  <2>1. new \in Control
    BY DEF Control
  <2>2. Unique(controls') /\ controls' = controls \union {new}
    BY <1>2 DEF CreateControl, Store
  <2> QED
    BY <1>1, <2>1, <2>2
<1>3. ASSUME NEW old \in controls, NEW new \in Control, PatchControl(old, new)
      PROVE  SourceControlsInv'
  <2>1. Unique(controls') /\ controls' \subseteq controls \union {new}
    BY <1>3 DEF PatchControl, Store
  <2> QED
    BY <1>1, <2>1
<1>4. ASSUME NEW old \in controls, DeleteControl(old)
      PROVE  SourceControlsInv'
  <2>1. Unique(controls') /\ controls' \subseteq controls \union {old} /\ old \in Control
    BY <1>4 DEF DeleteControl, Unique, SourceControlsInv, SourceControlsTypeOK
  <2> QED
    BY <1>1, <2>1
<1>5. CASE UNCHANGED controls
  BY <1>5 DEF SourceControlsInv, SourceControlsTypeOK, Unique
<1> QED
  BY <1>2, <1>3, <1>4, <1>5 DEF SourceControlsNext, Control

LEMMA SourceControlsOrdered ==
  ASSUME SourceControlsInv
  PROVE  AppliedInOrder
<1> SUFFICES ASSUME WellNumbered(controls) PROVE InOrder(controls)
  BY DEF AppliedInOrder
<1> DEFINE all == {c.order : c \in controls}
<1>1. \A r \in controls : r.order \in Int /\ r.subbasin \in Subbasin
  BY SourceControlAssumption DEF SourceControlsInv, SourceControlsTypeOK, Control
<1>2. /\ \A a, b \in all : a..b \subseteq all
      /\ all # {} => 0 \in all
      /\ \A o \in all : o >= 0
  BY DEF WellNumbered
<1>3. all \in SUBSET Nat /\ IsFiniteSet(all)
  BY <1>1, <1>2 DEF SourceControlsInv
<1>4. PICK n \in Nat : all = 0..(n - 1)
  <2> HIDE DEF all
  <2> QED
    BY <1>2, <1>3, FirstNumbers
<1>5. Numbered(controls)
  <2>1. \A r \in controls : r.order \in Nat
    BY <1>3
  <2>2. ASSUME NEW a \in controls, NEW b \in controls, a.subbasin = b.subbasin,
               NEW o \in a.order..b.order
        PROVE  \E c \in controls : c.subbasin = a.subbasin /\ c.order = o
    <3> DEFINE used == {c.order : c \in {r \in controls : r.subbasin = a.subbasin}}
    <3>1. a.order \in used /\ b.order \in used
      BY <2>2
    <3>2. \A x, y \in used : x..y \subseteq used
      BY <1>1 DEF WellNumbered
    <3>3. o \in used
      <4> HIDE DEF used
      <4> QED
        BY <3>1, <3>2
    <3> QED
      BY <3>3
  <2> QED
    BY <2>1, <2>2 DEF Numbered, SourceControlsInv, SourceControlsTypeOK
<1> QED
  BY <1>4, <1>5, NumberedInOrder

(* The controls of a well-numbered table reduce the load of each subbasin
   one after the other, in their order, each on top of the ones before it,
   and none twice, whatever was created, patched and deleted in whatever
   order (calculate_src_ctrl_percent_reduction).                           *)
THEOREM ControlsAlwaysAppliedInOrder == SourceControlsSpec => []AppliedInOrder
<1>1. SourceControlsInit => SourceControlsInv
  BY SourceControlsInitInv
<1>2. SourceControlsInv /\ [SourceControlsNext]_controls => SourceControlsInv'
  BY SourceControlsStepInv
<1>3. SourceControlsInv => AppliedInOrder
  BY SourceControlsOrdered
<1> QED
  BY <1>1, <1>2, <1>3, PTL DEF SourceControlsSpec

-----------------------------------------------------------------------------
(* All of the records: parts that no step of another part touches.         *)

RecordsIInv ==
  /\ CostsIInv
  /\ AnswersRequest
  /\ SourceControlsInv
  /\ FacilitiesIInv
  /\ DefaultsFitModel
  /\ RankedOnce
  /\ WatershedInv

(* A part that is not active is in a state that satisfies its invariant. *)

LEMMA CostsRestInv ==
  ASSUME CostsRest
  PROVE  CostsIInv
<1>1. Shape
  BY RecordsAssumption, CostsAssumption DEF CostsRest, Shape
<1>2. \A c \in Client : ReqOK(request[c])
  BY DEF CostsRest, ReqOK, Idle
<1>3. \A n \in Node : Fits(n)
  BY DEF CostsRest, Fits
<1>4. \A c \in sole : Fresh(request[c])
  BY DEF CostsRest
<1> QED
  BY <1>1, <1>2, <1>3, <1>4 DEF CostsIInv

LEMMA FacilitiesRestInv ==
  ASSUME FacilitiesRest
  PROVE  FacilitiesIInv
<1>1. FacilitiesTypeOK
  BY FacilitiesAssumption DEF FacilitiesRest, FacilitiesTypeOK
<1> QED
  BY <1>1 DEF FacilitiesRest, FacilitiesIInv, Complete

LEMMA WatershedRestInv ==
  ASSUME WatershedRest
  PROVE  WatershedInv
<1>1. WatershedTypeOK
  <2>1. edits \in 0..MaxEdits
    BY WatershedAssumption DEF WatershedRest
  <2> QED
    BY <2>1 DEF WatershedRest, WatershedTypeOK
<1>2. BoundaryOfInputs /\ LoadOfBoundary /\ LoadsAccounted
  BY DEF WatershedRest, BoundaryOfInputs, LoadOfBoundary, LoadsAccounted
<1> QED
  BY <1>1, <1>2 DEF WatershedRest, WatershedInv

LEMMA ControlsRestInv ==
  ASSUME controls = {}
  PROVE  SourceControlsInv
<1>1. {c.order : c \in controls} = {}
  OBVIOUS
<1>2. IsFiniteSet({})
  BY FS_EmptySet
<1> QED
  BY <1>1, <1>2 DEF SourceControlsInv, SourceControlsTypeOK, Unique

LEMMA RecordsInitInv ==
  ASSUME Init
  PROVE  RecordsIInv
<1>1. CostsIInv
  <2>1. CostsInit \/ CostsRest
    BY DEF Init
  <2> QED
    BY <2>1, CostsInitInv, CostsRestInv
<1>2. AnswersRequest
  BY DEF Init, CostTableInit, AnswersRequest
<1>3. SourceControlsInv
  <2>1. SourceControlsInit \/ controls = {}
    BY DEF Init
  <2> QED
    BY <2>1, SourceControlsInitInv, ControlsRestInv
<1>4. FacilitiesIInv
  <2>1. FacilitiesInit \/ FacilitiesRest
    BY DEF Init
  <2> QED
    BY <2>1, FacilitiesInitInv, FacilitiesRestInv
<1>5. DefaultsFitModel
  <2>1. DefaultsInit \/ given = Defaults_of(OtherRest)
    BY DEF Init
  <2>2. OtherRest \in Kind
    BY DEF OtherRest, Kind, FacilityType, Infiltrated, Detail
  <2> QED
    BY <2>1, <2>2, DefaultsFit DEF DefaultsInit
<1>6. RankedOnce
  <2>1. PrioritizationInit \/ RankingRest
    BY DEF Init
  <2>2. RankingRest => RankedOnce
    BY DEF RankingRest, RankedOnce, Table
  <2> QED
    BY <2>1, <2>2, RankedOnceInit
<1>7. WatershedInv
  <2>1. WatershedInit \/ WatershedRest
    BY DEF Init
  <2> QED
    BY <2>1, WatershedInitInv, WatershedRestInv
<1> QED
  BY <1>1, <1>2, <1>3, <1>4, <1>5, <1>6, <1>7 DEF RecordsIInv

(* Each step is one of each part, that of the others a stutter. *)
LEMMA RecordsSteps ==
  ASSUME [Next]_vars
  PROVE  /\ [CostsNext]_costVars
         /\ [CostTableNext]_answer
         /\ [SourceControlsNext]_controls
         /\ [FacilitiesNext]_facilityVars
         /\ [DefaultsNext]_given
         /\ [PrioritizationNext]_rankingVars
         /\ [WatershedNext]_watershedVars
BY DEF Next, vars

LEMMA RecordsStepInv ==
  ASSUME RecordsIInv, [Next]_vars
  PROVE  RecordsIInv'
<1>1. CostsIInv'
  BY RecordsSteps, CostsNextInv DEF RecordsIInv
<1>2. AnswersRequest'
  BY RecordsSteps, AnswersRequestStep DEF RecordsIInv
<1>3. SourceControlsInv'
  BY RecordsSteps, SourceControlsStepInv DEF RecordsIInv
<1>4. FacilitiesIInv'
  BY RecordsSteps, FacilitiesNextInv DEF RecordsIInv
<1>5. DefaultsFitModel'
  BY RecordsSteps, DefaultsFitStep DEF RecordsIInv
<1>6. RankedOnce'
  BY RecordsSteps, RankedOnceStep DEF RecordsIInv
<1>7. WatershedInv'
  BY RecordsSteps, WatershedStepInv DEF RecordsIInv
<1> QED
  BY <1>1, <1>2, <1>3, <1>4, <1>5, <1>6, <1>7 DEF RecordsIInv

LEMMA RecordsAlways == Spec => []RecordsIInv
<1>1. Init => RecordsIInv
  BY RecordsInitInv
<1>2. RecordsIInv /\ [Next]_vars => RecordsIInv'
  BY RecordsStepInv
<1> QED
  BY <1>1, <1>2, PTL DEF Spec

(* Costs, source controls, facilities and results keep their types in every
   behaviour of the records: a present value has the inputs it needs, and
   the pages still to be asked for are pages of the service.               *)
THEOREM RecordsTypeCorrect == Spec => []RecordsTypeOK
<1>1. CostsIInv => CostsTypeOK
  BY DEF CostsIInv, Shape, ReqOK, CostsTypeOK
<1>2. RecordsIInv => RecordsTypeOK
  BY <1>1 DEF RecordsIInv, RecordsTypeOK, SourceControlsInv, FacilitiesIInv, WatershedInv
<1> QED
  BY <1>2, RecordsAlways, PTL

(* What the records promise together, in the specification that composes
   them: values of the present inputs, tables that add up, maintenance and
   replacements in the horizon, loads delivered as the land drains, controls
   in their order, and defaults that fit the model (PATCH
   /api/rest/tmnt_attr, calculate_npv, the results of the refresh,
   set_default_tmnt_attributes).                                           *)
THEOREM RecordsSound ==
  Spec => [](/\ PresentValueFits /\ RefreshedAll
             /\ TableAddsUp /\ MaintainedAfterInstallation
             /\ LoadsAccounted /\ AppliedInOrder /\ DefaultsFitModel)
<1>1. CostsIInv => PresentValueFits
  BY DEF CostsIInv, Fits, PresentValueFits
<1>2. CostsIInv => RefreshedAll
  BY DEF CostsIInv, Fresh, Current, RefreshedAll
<1>3. SourceControlsInv => AppliedInOrder
  BY SourceControlsOrdered
<1>4. WatershedInv => LoadsAccounted
  BY DEF WatershedInv
<1>5. RecordsIInv => /\ PresentValueFits /\ RefreshedAll
                     /\ TableAddsUp /\ MaintainedAfterInstallation
                     /\ LoadsAccounted /\ AppliedInOrder /\ DefaultsFitModel
  BY <1>1, <1>2, <1>3, <1>4, AnswersAddUp, AnswersMaintained DEF RecordsIInv
<1> QED
  BY <1>5, RecordsAlways, PTL

(* In the composition, too, downloads are complete and edits survive. *)
THEOREM RecordsDownloads == Spec => DownloadComplete /\ EditsSurvive
<1>1. RecordsIInv /\ [Next]_vars => FacilitiesIInv /\ [FacilitiesNext]_facilityVars
  BY RecordsSteps DEF RecordsIInv
<1> QED
  BY <1>1, DownloadStep, EditsStep, RecordsAlways, PTL DEF Spec, DownloadComplete, EditsSurvive
================================================================================
