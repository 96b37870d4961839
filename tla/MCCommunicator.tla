--------------------------- MODULE MCCommunicator ---------------------------
(* Instances of Communicator for TLC. *)
EXTENDS Communicator, TLC

SlotSymmetry == Permutations(Slots)

\* two paths that differ past the room of sockaddr_un, and an IP address that is
\* none
SomeAddresses == {[domain |-> "unix", text |-> <<1, 2>>],
                  [domain |-> "unix", text |-> <<1, 3>>],
                  [domain |-> "inet", text |-> <<0>>]}
DescriptorNumbers == 0..2
=============================================================================
