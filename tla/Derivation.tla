----------------------------- MODULE Derivation -----------------------------
(* The claims of a relationship, derived from those of the two entity            *)
(* definitions it joins: model/derivation.py.  A definition is a record with the *)
(* fields                                                                        *)
(*   node, identity   the dataset it lies on, the logical entity it identifies   *)
(*   universe         "complete", "partial" or "unknown": how much of the        *)
(*                    entity's population its keys cover                         *)
(*   unique           "one" record per key, "many", or "unknown"                 *)
(*   total, conforms  "yes", "no" or "unknown": whether every record has a key,  *)
(*                    and whether every key belongs to the population            *)

(* derive_relationships: every two definitions of one logical entity *)
Joinable(source, target) == source.identity = target.identity

(* Mutated form: the multiplicity of the other direction. *)
DerivedMultiplicityReversed(source, target) ==
    IF "unknown" \in {source.unique, target.unique}
    THEN <<"unknown", "unknown">>
    ELSE <<target.unique, source.unique>>

(* derived_multiplicity of the directed edge from source to target:              *)
(* <<"many", "one">> for many-to-one                                             *)
DerivedMultiplicity(source, target) ==
    IF "unknown" \in {source.unique, target.unique}
    THEN <<"unknown", "unknown">>
    ELSE <<source.unique, target.unique>>

(* EntityDefinition.complete_must_conform *)
Accepted(d) == ~(d.universe = "complete" /\ d.conforms = "no")

(* EntityDefinition.conforming *)
Conforming(d) == IF d.universe = "complete" THEN "yes" ELSE d.conforms

(* contained: whether all keys of source are keys of target *)
Contained(source, target) ==
    IF Conforming(source) = "yes" /\ target.universe = "complete" THEN "yes"
    ELSE IF source.universe = "complete" /\ target.universe = "partial" THEN "no"
    ELSE "unknown"

(* Mutated form: records without a key are forgotten. *)
DerivedMatchExistenceOfKeys(source, target) ==
    IF Contained(source, target) = "no" THEN "optional"
    ELSE IF Contained(source, target) = "yes" THEN "always"
    ELSE "unknown"

(* derived_match_existence: whether every record of source has one of target *)
DerivedMatchExistence(source, target) ==
    IF source.total = "no" \/ Contained(source, target) = "no" THEN "optional"
    ELSE IF source.total = "yes" /\ Contained(source, target) = "yes" THEN "always"
    ELSE "unknown"
=============================================================================
