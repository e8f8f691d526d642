------------------------------ MODULE MCDrops ------------------------------
(* The binding, a field of it, and a field of that field.                  *)
EXTENDS Drops
MCPlaces == {<<>>, <<"f">>, <<"f", "g">>}
=============================================================================
