----------------------------- MODULE MC_GattClient -----------------------------
EXTENDS GattClient, TLC

CONSTANTS d1, d2, d3

\* Three peers, one of them advertising with a random address.
MC_Devices == {d1, d2, d3}
MC_RandomAddr == {d3}

\* The app opens the device with a random address, the one the privacy
\* check of open_impl is about.
MC_OpenTargets == {d3}

\* d1 and d2 play the same part: public addresses the app never opens.
\* The run checks invariants only, so the symmetry is sound.
MC_Symmetry == Permutations({d1, d2})
=============================================================================
