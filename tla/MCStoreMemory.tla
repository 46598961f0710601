---------------------------- MODULE MCStoreMemory ----------------------------
(* Small instances for TLC.                                                     *)
EXTENDS StoreMemory

OneFactor   == {95}
TwoFactors  == {90, 95}

-----------------------------------------------------------------------------
\* Serialize and the constructor over a buffer: what was written is accepted, and is the
\* filter that was written.
RoundTrip == TypeOK /\ ReadsBack /\ Accepted
=============================================================================
