--------------------------- MODULE MCExporterUpdate ---------------------------
(* An instance of ExporterUpdate for TLC. *)
EXTENDS ExporterUpdate
=============================================================================
