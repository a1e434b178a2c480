--------------------------- MODULE MCUploadStaging ---------------------------
(* Model values for the run of UploadStaging. *)
EXTENDS UploadStaging

CONSTANTS t1, t2, u1, u2

TwoThreads == {t1, t2}
OneUpload == {u1}
TwoUploads == {u1, u2}
=============================================================================
