---------------------------- MODULE MCOfflineStorage ----------------------------
(***************************************************************************)
(* Two users, of whom one purges the other's sessions; four sectors, room  *)
(* for two sessions of one event, so that the second lies behind the first *)
(* and the area is then full.  Two mishaps: recovery is cut short as well. *)
(***************************************************************************)
EXTENDS OfflineStorage

CONSTANTS ann, ben, nobody

=============================================================================
