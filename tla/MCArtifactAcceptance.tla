------------------------ MODULE MCArtifactAcceptance ------------------------
\* Two objects that compete for the acceptance of one version.
EXTENDS ArtifactAcceptance, TLC

CONSTANTS o1, o2, v1

Rivals == {o1, o2}
RivalVersion == o1 :> v1 @@ o2 :> v1
=============================================================================
