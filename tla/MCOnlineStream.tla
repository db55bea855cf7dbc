--------------------------- MODULE MCOnlineStream ---------------------------
EXTENDS OnlineStream

AllFaults    == {"flash", "capture", "app", "transport", "sending", "battery"}
CaptureFault == {"capture"}
=============================================================================
