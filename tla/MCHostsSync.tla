----------------------------- MODULE MCHostsSync -----------------------------
EXTENDS HostsSync
=============================================================================
