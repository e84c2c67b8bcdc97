------------------------------- MODULE MCUpload -------------------------------
(***************************************************************************)
(* Upload for TLC: a status code of every kind the code tells apart.       *)
(***************************************************************************)
EXTENDS Upload

MCStatuses == {0, 100, 204, 302, 401, 408, 418, 429, 500, 507}
=============================================================================
