-------------------------- MODULE MCDtlsReassembly --------------------------
EXTENDS DtlsReassembly

\* The first message is whole or cut as 5 + 5 or 9 + 1 bytes, the second
\* whole or as 5 + 1.
MCMsgLen == [q \in 0 .. 1 |-> <<10, 6>>[q + 1]]
MCRooms == {HL + 5, HL + 9, HL + 10}
=============================================================================
