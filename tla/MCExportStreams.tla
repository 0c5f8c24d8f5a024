--------------------------- MODULE MCExportStreams ---------------------------
(* Instances of ExportStreams. *)
EXTENDS ExportStreams

SomeSizes == 0..5
=============================================================================
