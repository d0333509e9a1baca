-------------------------------- MODULE MCNealsd --------------------------------
(***************************************************************************)
(* Small instances of Nealsd.  `demo` has a private TCP service and a      *)
(* proxied one, `other` a proxied TCP service and a UNIX socket.           *)
(***************************************************************************)
EXTENDS Nealsd, TLC

CONSTANTS demo, other, web, db, sock, i1, i2, i3, c1, c2, c3

MCProject == {demo, other}
MCService == {web, db, sock}
MCConn3 == {c1, c2, c3}
MCConn2 == {c1, c2}
MCIp2 == {i1, i2}
MCIp3 == {i1, i2, i3}

MCTcp == demo :> {web, db} @@ other :> {web}
MCUnix == demo :> {} @@ other :> {sock}
MCProxyTcp == demo :> {web} @@ other :> {web}

\* One project, for the questions about two ups of the same name.
MCProject1 == {demo}
MCTcp1 == demo :> {web}
MCUnix1 == demo :> {sock}

AllFailures == FailureKinds

NoFailures == {}
ExitOnly == {"exit"}

Symmetric == Permutations(Conn) \union Permutations(Ip)

=============================================================================
