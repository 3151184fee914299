------------------------------- MODULE MCAuth -------------------------------
(* One address: rows of different addresses never meet.  Codes are few, so *)
(* a request may wait for one that is still around.                        *)
EXTENDS Auth
=============================================================================
