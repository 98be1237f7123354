----------------------------- MODULE MCObserver -----------------------------
(***************************************************************************)
(* The instances of MCIrrigation, with the observer at the field.          *)
(***************************************************************************)
EXTENDS MCIrrigation, Observer
=============================================================================
