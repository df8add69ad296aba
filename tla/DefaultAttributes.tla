-------------------------- MODULE DefaultAttributes --------------------------
(***************************************************************************)
(* set_default_tmnt_attributes (src/tmnt/default_attrs.py): the model type *)
(* and the share of the runoff that a facility captures and retains until  *)
(* somebody knows better, from the columns of the GIS service; and the     *)
(* types that the configuration recognizes                                 *)
(* (data/project_data/wa/tac/config.yml).                                  *)
(***************************************************************************)
EXTENDS Naturals

(* What the code tells apart in the columns; other stands for the rest.  Of
   values that are treated alike there is one: stormfilter for three
   cartridges, filterra for mws, and conveyance for an empty text.         *)
FacilityType ==
  {"Bioretention", "Media Filter", "Tank", "Pervious Pavement", "Pond", "Vault",
   "Vegetated Box", "Oil Water Separator", "Swirl Separator", "Swale", "Sand Filter",
   "Trench", "other"}
Infiltrated == {"partial", "full", "other"}
Detail ==
  {"stormfilter", "infiltration", "combined", "detention", "wetland", "conveyance",
   "silva cell", "filterra", "other"}

Kind == [ facilitytype : FacilityType, infiltrated : Infiltrated,
          facilitydetail : Detail, flowcontroltype : BOOLEAN ]

VARIABLE given    \* a facility's columns and the defaults it gets

(* Assignments that come later in the code are first here. *)
Bioretention(k) ==
  CASE k.infiltrated = "full" -> "bioretention_with_full_infiltration"
    [] k.infiltrated = "partial" -> "bioretention_with_partial_infiltration"
    [] OTHER -> "bioretention_with_no_infiltration"

Pond(k) ==
  IF k.facilitydetail = "wetland" THEN "wetland_pond"
  ELSE IF k.infiltrated # "full" /\ k.facilitydetail \in {"combined", "detention"}
    THEN "detention_pond"
  ELSE IF k.infiltrated = "full" \/ k.facilitydetail = "infiltration" THEN "infiltration_pond"
  ELSE "wet_pond"

Vault(k) ==
  CASE k.facilitydetail = "silva cell" -> "bioretention_with_full_infiltration"
    [] k.facilitydetail \in {"detention", "conveyance"} -> "dry_extended_detention"
    [] OTHER -> "wet_vault"

ModelType(k) ==
  CASE k.facilitytype = "Bioretention" -> Bioretention(k)
    [] k.facilitytype = "Media Filter" ->
         IF k.facilitydetail = "stormfilter" THEN "cartridge_media_filter" ELSE "media_filter"
    [] k.facilitytype = "Tank" ->
         IF k.flowcontroltype THEN "flow_duration_control_tank" ELSE "dry_extended_detention"
    [] k.facilitytype = "Pervious Pavement" ->
         IF k.infiltrated = "full" THEN "pervious_pavement_with_full_infiltration"
         ELSE "pervious_pavement_with_partial_infiltration"
    [] k.facilitytype = "Pond" -> Pond(k)
    [] k.facilitytype = "Vault" -> Vault(k)
    [] k.facilitytype = "Vegetated Box" ->
         IF k.facilitydetail = "filterra" THEN "vegetated_box_hrbf" ELSE "vegetated_box"
    [] k.facilitytype = "Oil Water Separator" -> "oil_water_separator"
    [] k.facilitytype = "Swirl Separator" -> "hydrodynamic_separator"
    [] k.facilitytype = "Swale" -> "vegetated_swale"
    [] k.facilitytype = "Sand Filter" -> "sand_filter"
    [] k.facilitytype = "Trench" -> "infiltration"
    [] OTHER -> "no_treatment"

-----------------------------------------------------------------------------
(* The validators of the configuration, for the types above. *)
ByValidator ==
  [ RetentionFacility |-> {"bioretention_with_full_infiltration", "infiltration",
                           "infiltration_pond", "pervious_pavement_with_full_infiltration"},
    BioInfFacility |-> {"bioretention_with_partial_infiltration"},
    RetAndTmntFacility |-> {"detention_pond", "dry_extended_detention",
                            "flow_duration_control_tank", "wet_vault",
                            "pervious_pavement_with_partial_infiltration"},
    FlowAndRetFacility |-> {"vegetated_swale"},
    TmntFacility |-> {"bioretention_with_no_infiltration", "cartridge_media_filter",
                      "media_filter", "sand_filter"},
    FlowFacility |-> {"hydrodynamic_separator", "oil_water_separator",
                      "vegetated_box", "vegetated_box_hrbf"},
    PermPoolFacility |-> {"wet_pond", "wetland_pond"},
    NTFacility |-> {"no_treatment"} ]

(* The same for the simple types, without their suffix. *)
BySimpleValidator ==
  [ SimpleRetFacility |-> {"bioretention_with_full_infiltration", "infiltration",
                           "infiltration_pond", "pervious_pavement_with_full_infiltration"},
    SimpleFacility |-> {"bioretention_with_partial_infiltration", "detention_pond",
                        "dry_extended_detention", "flow_duration_control_tank",
                        "pervious_pavement_with_partial_infiltration", "vegetated_swale",
                        "wet_vault"},
    SimpleTmntFacility |-> {"bioretention_with_no_infiltration", "cartridge_media_filter",
                            "hydrodynamic_separator", "media_filter", "oil_water_separator",
                            "sand_filter", "vegetated_box", "vegetated_box_hrbf",
                            "wet_pond", "wetland_pond"} ]

Validator(t) == CHOOSE v \in DOMAIN ByValidator : t \in ByValidator[v]

(* Mutant: swales are forgotten. *)
RetainsPartialNoSwale == {"BioInfFacility", "RetAndTmntFacility"}

RetainsPartial == {"BioInfFacility", "RetAndTmntFacility", "FlowAndRetFacility"}
RetainsFull == {"RetentionFacility"}

Captured == 91

Defaults_of(k) ==
  LET t == ModelType(k)
  IN  [ type |-> t,
        simple |-> t # "no_treatment",
        captured |-> Captured,
        retained |-> CASE Validator(t) \in RetainsPartial -> 20
                       [] Validator(t) \in RetainsFull -> Captured
                       [] OTHER -> 0 ]

DefaultsInit == \E k \in Kind : given = Defaults_of(k)
SetDefaults(k) == given' = Defaults_of(k)
DefaultsNext == \E k \in Kind : SetDefaults(k)

DefaultsSpec == DefaultsInit /\ [][DefaultsNext]_given

-----------------------------------------------------------------------------
(* The type a facility is given is one that the configuration recognizes,
   and what it retains agrees with the model that the simple type selects
   there: all that it captures, a part, or nothing.  The code derives the
   share from the validator of the detailed type, and stores the simple
   one.                                                                    *)
DefaultsFitModel ==
  IF ~given.simple THEN given.retained = 0
  ELSE \E v \in DOMAIN BySimpleValidator :
         /\ given.type \in BySimpleValidator[v]
         /\ CASE v = "SimpleRetFacility" -> given.retained = given.captured
              [] v = "SimpleFacility" -> 0 < given.retained /\ given.retained < given.captured
              [] v = "SimpleTmntFacility" -> given.retained = 0
=============================================================================
