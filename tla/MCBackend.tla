------------------------------ MODULE MCBackend ------------------------------
(* A small instance of Backend for TLC: a zone that both sides know, one that *)
(* R does not know and one that nobody knows.                                *)
EXTENDS Backend

AskedZones == {None, "Paris", "Factory", "Nowhere"}
KnownToServer == {"Paris", "UTC", "Factory"}
KnownToR == {"Paris", "UTC"}

=============================================================================
