------------------------------- MODULE MCPages -------------------------------
(* Two replicas, two snapshots of up to three features of two sources. *)
EXTENDS Pages

CONSTANTS osm, other, d1, d2

MCHeaders == {None, {osm}, {osm, other}}
MCAsked == {None, {osm}, {osm, other}}
=============================================================================
