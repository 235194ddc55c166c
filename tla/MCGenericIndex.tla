--------------------------- MODULE MCGenericIndex ---------------------------
(***************************************************************************)
(* GenericIndex with objects of two fields: a key k and data d.            *)
(***************************************************************************)
EXTENDS GenericIndex

MCValue == {<<"k1", "a">>, <<"k1", "b">>, <<"k2", "a">>}
MCKeyOf(v) == v[1]
==============================================================================
