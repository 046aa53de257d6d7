-------------------------------- MODULE MCQJson --------------------------------
(***************************************************************************)
(* Instances of QJson for TLC: the query for the images of containers, and *)
(* documents of its keys and another one.                                  *)
(***************************************************************************)
EXTENDS QJson

CONSTANTS spec, containers, image, name

MCQuery == <<spec, containers, "#", image>>
MCKeys == {spec, containers, image, name}
================================================================================
