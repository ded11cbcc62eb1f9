---------------------------- MODULE MCFileUpload ----------------------------
EXTENDS FileUpload

CONSTANTS r1, r2

MCTwo == {r1, r2}
MCAllKinds == AllKinds
=============================================================================
