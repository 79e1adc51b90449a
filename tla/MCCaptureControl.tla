-------------------------- MODULE MCCaptureControl --------------------------
EXTENDS CaptureControl
=============================================================================
