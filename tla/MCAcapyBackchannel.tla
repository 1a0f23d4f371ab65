------------------------ MODULE MCAcapyBackchannel ------------------------
(***************************************************************************)
(* Instances of AcapyBackchannel for TLC.                                  *)
(***************************************************************************)
EXTENDS AcapyBackchannel, TLC

CONSTANTS x1, x2

OneCredential == x1 :> "issue-credential"
TwoCredentials == x1 :> "issue-credential" @@ x2 :> "issue-credential"
ConnectionAndNotification ==
  x1 :> "connection" @@ x2 :> "revocation-notification"
DidExchangeAndInvitation == x1 :> "did-exchange" @@ x2 :> "out-of-band"

\* Two exchanges of one protocol are interchangeable.
Swapped == Permutations({x1, x2})

\* What the harness polls ("/agent/response/" in features/steps).
RevocationPolls == {<<"revocation-registry", x1>>}
ConnectionPolls == {<<"connection", x1>>}
=============================================================================
