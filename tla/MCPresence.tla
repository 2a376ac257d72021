----------------------------- MODULE MCPresence -----------------------------
(***************************************************************************)
(* The instance of Presence for TLC: three streams over two credentials,   *)
(* two of them of one client that comes back when it likes, before or      *)
(* after the end of its last stream is noticed.                            *)
(***************************************************************************)
EXTENDS Presence, TLC

CONSTANTS s1, s2, s3, c1, c2

TwoCredentials == (s1 :> c1) @@ (s2 :> c1) @@ (s3 :> c2)
=============================================================================
