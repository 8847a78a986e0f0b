----------------------------- MODULE MCTransport -----------------------------
\* Travellers on any one of the six rides, with one reload of the scripts.
EXTENDS Transport, TransportLines

MCLines == [Boats |-> Boats, Trains |-> Trains, Cabin |-> Cabin, Genie |-> Genie,
            Subway |-> Subway, AirPlane |-> AirPlane]
=============================================================================
