------------------------------ MODULE Facilities ------------------------------
(***************************************************************************)
(* The facilities of the GIS service: the download in pages                *)
(* (connections/arcgis.py), the table that it replaces (src/tasks.py) and  *)
(* the attributes that are added for new facilities and edited by users    *)
(* (src/tmnt/default_attrs.py, api/endpoints/tmnt_attr.py).                *)
(*                                                                         *)
(* A feature is known by its altid and version: the same altid with other  *)
(* contents is another feature.                                            *)
(***************************************************************************)
EXTENDS Integers, Sequences, FiniteSets, SequencesExt

CONSTANTS
  Feature,          \* [altid, version], the ones that may come up
  Straddling,       \* facilities on the border of two subbasins
  Updater,          \* processes that add attributes
  ChunkSize,        \* 500
  Nothing,
  MaxFeatures, MaxChanges

ASSUME FacilitiesAssumption ==
  /\ ChunkSize \in Nat \ {0}
  /\ Nothing \notin {"default", "edited"}
  /\ MaxFeatures \in Nat \ {0} /\ MaxChanges \in Nat

Altid == {f.altid : f \in Feature}

VARIABLES
  server,      \* the features of the service, in the order of its pages
  download,    \* of the task in progress, or Nothing
  facility,    \* tmnt_facility
  attribute,   \* tmnt_facility_attribute: how each facility's row came to be
  update,      \* for each process, what it has read
  changes      \* changes of the service so far

facilityVars == <<server, download, facility, attribute, update, changes>>

(* sound: no page was lost and the service did not change. *)
Download == [pages : SUBSET Nat, got : SUBSET Feature, sound : BOOLEAN]

FacilitiesTypeOK ==
  /\ server \in Seq(Feature) /\ Len(server) <= MaxFeatures
  /\ download # Nothing => /\ download.pages \subseteq 0..(MaxFeatures + ChunkSize)
                           /\ download.got \subseteq Feature
  /\ facility \subseteq Feature
  /\ attribute \in [Altid -> {Nothing, "default", "edited"}]
  /\ update \in [Updater -> [facilities : SUBSET Altid, existing : {Nothing} \union SUBSET Altid]
                              \union {Nothing}]
  /\ changes \in 0..MaxChanges

(* An empty database, or one that has been refreshed from the service. *)
FacilitiesInit ==
  /\ server \in {<< >>} \union {<<f>> : f \in Feature}
  /\ facility \in {{}, Range(server)}
  /\ attribute = [a \in Altid |-> IF \E f \in facility : f.altid = a /\ a \notin Straddling
                                   THEN "default" ELSE Nothing]
  /\ download = Nothing
  /\ update = [u \in Updater |-> Nothing]
  /\ changes = 0

(* The GIS team edits its map: rows after the change move between pages. *)
ServerChanges ==
  /\ changes < MaxChanges
  /\ changes' = changes + 1
  /\ \/ \E f \in Feature : Len(server) < MaxFeatures /\ server' = Append(server, f)
     \/ \E i \in DOMAIN server : server' = RemoveAt(server, i)
  /\ download' = IF download = Nothing THEN Nothing ELSE [download EXCEPT !.sound = FALSE]
  /\ UNCHANGED <<facility, attribute, update>>

-----------------------------------------------------------------------------
(* Mutant: only full pages are asked for. *)
FullPages(records) == {i * ChunkSize : i \in 0..(records \div ChunkSize - 1)}

(* build_esri_geojson_urls: one page more than there are full ones. *)
Pages(records) == {i * ChunkSize : i \in 0..(records \div ChunkSize)}

(* An empty service is an error before anything is asked for. *)
CountRecords ==
  /\ download = Nothing
  /\ server # << >>
  /\ download' = [pages |-> Pages(Len(server)), got |-> {}, sound |-> TRUE]
  /\ UNCHANGED <<server, facility, attribute, update, changes>>

(* get_features: pages come in any order.  An answer without features, the
   form in which the service reports an error, counts as an empty page.    *)
GetPage(offset) ==
  /\ download' =
       [download EXCEPT
          !.pages = @ \ {offset},
          !.got = @ \union {server[i] : i \in (offset + 1 .. offset + ChunkSize)
                                             \intersect DOMAIN server}]
  /\ UNCHANGED <<server, facility, attribute, update, changes>>

PageWithoutFeatures(offset) ==
  /\ download' = [download EXCEPT !.pages = @ \ {offset}, !.sound = FALSE]
  /\ UNCHANGED <<server, facility, attribute, update, changes>>

(* A request, the answer's decoding, or the connection fails. *)
DownloadFails ==
  /\ download' = Nothing
  /\ UNCHANGED <<server, facility, attribute, update, changes>>

UniqueAltids(features) ==
  \A f, g \in features : f # g => f.altid # g.altid

(* delete_and_replace_postgis_table, without the exact duplicates; a frame
   without geometries, or an altid that comes twice, raises and leaves the
   table as it was.                                                        *)
ReplaceFacilities ==
  /\ download.pages = {}
  /\ facility' = IF download.got # {} /\ UniqueAltids(download.got)
                   THEN download.got ELSE facility
  /\ download' = Nothing
  /\ UNCHANGED <<server, attribute, update, changes>>

-----------------------------------------------------------------------------
(* Mutant: the default of the parameter. *)
OverwriteByDefault == TRUE

(* What update_tmnt_attributes passes on when its caller gives nothing. *)
Overwrite_attributes == FALSE

ReadFacilities(u) ==
  /\ update[u] = Nothing
  /\ update' = [update EXCEPT ![u] = [facilities |-> {f.altid : f \in facility},
                                      existing |-> Nothing]]
  /\ UNCHANGED <<server, download, facility, attribute, changes>>

Existing == {a \in Altid : attribute[a] # Nothing}

(* Read before the transaction begins. *)
ReadExisting(u) ==
  /\ update[u] # Nothing /\ update[u].existing = Nothing
  /\ update' = [update EXCEPT ![u].existing = Existing]
  /\ UNCHANGED <<server, download, facility, attribute, changes>>

(* One transaction.  The join gives a facility in two subbasins two rows;
   these, or rows that somebody else has inserted since, fail on the altid,
   and nothing of it stays.                                                *)
InsertAttributes(u) ==
  LET kept == IF Overwrite_attributes THEN {} ELSE update[u].existing
      new == update[u].facilities \ kept
      present == IF Overwrite_attributes THEN {} ELSE Existing
      fails == new \intersect (present \union Straddling) # {}
  IN  /\ update[u] # Nothing /\ update[u].existing # Nothing
      /\ attribute' =
           IF fails THEN attribute
           ELSE [a \in Altid |-> IF a \in new THEN "default"
                                 ELSE IF a \in present THEN attribute[a] ELSE Nothing]
      /\ update' = [update EXCEPT ![u] = Nothing]
      /\ UNCHANGED <<server, download, facility, changes>>

(* patch_tmnt_attr. *)
EditAttributes(a) ==
  /\ attribute[a] # Nothing
  /\ attribute' = [attribute EXCEPT ![a] = "edited"]
  /\ UNCHANGED <<server, download, facility, update, changes>>

FacilitiesNext ==
  \/ ServerChanges
  \/ CountRecords
  \/ /\ download # Nothing
     /\ \/ \E offset \in download.pages : GetPage(offset) \/ PageWithoutFeatures(offset)
        \/ DownloadFails
        \/ ReplaceFacilities
  \/ \E u \in Updater : ReadFacilities(u) \/ ReadExisting(u) \/ InsertAttributes(u)
  \/ \E a \in Altid : EditAttributes(a)

FacilitiesSpec == FacilitiesInit /\ [][FacilitiesNext]_facilityVars

-----------------------------------------------------------------------------
(* When no page was lost and the service did not change in between, the
   table gets all its facilities, in whatever order the pages came and
   whether or not the last page is full.                                   *)
DownloadComplete ==
  [][facility' # facility /\ download.sound => facility' = Range(server)]_facilityVars

(* A refresh adds attributes and never takes an edited row back: not for a
   facility that was replaced, that is gone from the service, that another
   process adds at the same time, or that came back.                       *)
EditsSurvive ==
  [][\A a \in Altid : attribute[a] = "edited" => attribute'[a] = "edited"]_facilityVars
=============================================================================
