---------------------------- MODULE MCConfigLayers ----------------------------
(***************************************************************************)
(* An instance of ConfigLayers: one section that may be a setting, empty,  *)
(* or a section with a key and a section of its own in any of the layers.  *)
(***************************************************************************)
EXTENDS ConfigLayers

MCPaths == {<<"a">>, <<"a", "x">>, <<"a", "b">>, <<"a", "b", "y">>}
=============================================================================
