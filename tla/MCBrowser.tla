----------------------------- MODULE MCBrowser -----------------------------
(* Model values for checking Browser. *)
EXTENDS Browser

CONSTANTS r1, r2

MCRequests == {r1, r2}
MCStatuses == {200, 400, 404}
MCTwoStatuses == {200, 400}
=============================================================================
