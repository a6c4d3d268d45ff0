------------------------ MODULE MCEmbeddedScheduler ------------------------
(* Instances of EmbeddedScheduler for TLC *)
EXTENDS EmbeddedScheduler

NoPool == <<>>
=============================================================================
