------------------------ MODULE MC_GnosisSafeAccount ------------------------
EXTENDS GnosisSafeAccount

CONSTANTS k1, k2, k3

\* Three public keys: the holder, signer and observer keys may be any of
\* them, repeated keys included.
MCKeys == {k1, k2, k3}
=============================================================================
