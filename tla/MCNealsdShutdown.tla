---------------------------- MODULE MCNealsdShutdown ----------------------------
EXTENDS NealsdShutdown, TLC

CONSTANTS demo, other, web, db, sock, i1, i2, i3, c1, c2, c3

MCProject == {demo, other}
MCService == {web, sock}
MCTcp == demo :> {web} @@ other :> {web}
MCUnix == demo :> {} @@ other :> {sock}
MCProxyTcp == demo :> {web} @@ other :> {}
MCConn == {c1, c2}
MCIp == {i1, i2}

\* Failures after which the handlers put Caddy's routes and the hosts right.
CleanFailures == FailureKinds \ {"prep", "apply", "log", "hosts"}
=================================================================================
