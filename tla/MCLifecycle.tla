---------------------------- MODULE MCLifecycle ----------------------------
(* References for checking Lifecycle. *)
EXTENDS Lifecycle

MCReferences == {"3476472018", "3476265230"}

MCRefs == <<"3476472018", "3476265230">>
=============================================================================
