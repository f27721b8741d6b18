------------------------------- MODULE MCUpload -------------------------------
EXTENDS Upload
=============================================================================
