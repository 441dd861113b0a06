---------------------------- MODULE MCExportJobs ----------------------------
(* The instance of ExportJobs that looks for jobs a restart leaves behind.  *)
EXTENDS ExportJobs
=============================================================================
