--------------------------- MODULE MCDKGCeremony ---------------------------
(***************************************************************************)
(* Three pages, two of which must sign.  The hash picks all of them as     *)
(* generators, or the creator and the next.                                *)
(***************************************************************************)
EXTENDS DKGCeremony

MCSpreads == {{0, 1, 2}, {0, 1}}
=============================================================================
