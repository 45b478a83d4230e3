--------------------------- MODULE MCInputCapture ---------------------------
EXTENDS InputCapture
=============================================================================
