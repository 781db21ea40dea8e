----------------------------- MODULE MCSaveLoop -----------------------------
EXTENDS SaveLoop
=============================================================================
