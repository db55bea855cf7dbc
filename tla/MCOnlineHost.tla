---------------------------- MODULE MCOnlineHost ----------------------------
EXTENDS OnlineHost

StorageAndWrites == {"disk", "report", "write"}
Restarts         == {"restart"}
Callbacks        == {"overflow", "state"}
=============================================================================
