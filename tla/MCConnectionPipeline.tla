------------------------- MODULE MCConnectionPipeline -------------------------
EXTENDS ConnectionPipeline

CONSTANTS c1, c2, c3, n1, n2, n3

(* Three connections: enough for two sessions racing on one name while a  *)
(* third reads the status count; c3's address is IP-banned.               *)
MCConns == {c1, c2, c3}
MCNames == {n1, n2, n3}
MCBannedIps == {c3}
MCBannedNames == {n3}

=============================================================================
