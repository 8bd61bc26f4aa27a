--------------------------- MODULE MCCertificates ---------------------------
EXTENDS Certificates
=============================================================================
