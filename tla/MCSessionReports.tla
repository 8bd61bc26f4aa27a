--------------------------- MODULE MCSessionReports ---------------------------
EXTENDS SessionReports
=============================================================================
