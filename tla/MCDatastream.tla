---------------------------- MODULE MCDatastream ----------------------------
EXTENDS Datastream

MCAround == [a \in Addr |-> [bits |-> {0}, more |-> a < Start]]

MCFill == [bits |-> {1}, more |-> FALSE]
=============================================================================
