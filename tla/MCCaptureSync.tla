--------------------------- MODULE MCCaptureSync ---------------------------
EXTENDS CaptureSync, TLC
=============================================================================
