---------------------------- MODULE MCCelGrouping ----------------------------
(***************************************************************************)
(* CelGrouping on every table over a few linkedids and channels, with at   *)
(* most one row per linkedid and channel: the grouping reads no more.      *)
(***************************************************************************)
EXTENDS CelGrouping

CONSTANTS LinkedId, UniqueId

MCCelRow == [linkedid : LinkedId, uniqueid : UniqueId]
=============================================================================
