--------------------------- MODULE MCDownloadIso ---------------------------
(* The instances of DownloadIso that TLC checks.  BuildEnds is a liveness      *)
(* property, so the builds' symmetry is not used.                              *)
EXTENDS DownloadIso
=============================================================================
