---------------------------- MODULE MCDtlsRecord ----------------------------
(***************************************************************************)
(* DtlsRecord with a peer that sends, in every epoch, MaxSeq + 1 records   *)
(* of fixed types, alone or two to a datagram, some of them corrupted.     *)
(***************************************************************************)
EXTENDS DtlsRecord

(* Epoch 0 ends with a ChangeCipherSpec that is sent again; epoch 1 holds  *)
(* the Finished, data and the ChangeCipherSpec of a renegotiation.         *)
MCTypeOf ==
    <<<<"HM", "CCS", "CCS">>, <<"HM", "APP", "CCS">>, <<"HM", "APP", "ALERT">>>>

MCRec(e, n) ==
    [epoch |-> e, seq |-> n, type |-> MCTypeOf[e + 1][n + 1],
     ok |-> TRUE, ver |-> TRUE, whole |-> TRUE]

MCSingles == {<<MCRec(e, n)>> : e \in 0 .. MaxEpoch, n \in 0 .. MaxSeq}

(* Two records in one datagram: a ChangeCipherSpec with the Finished, and  *)
(* the Finished with the first data.                                       *)
MCPairs ==
    {<<MCRec(0, 1), MCRec(1, 0)>>}
        \cup {<<MCRec(e, 0), MCRec(e, 1)>> : e \in 1 .. MaxEpoch}

MCCorrupt == {<<[MCRec(1, n) EXCEPT !.ok = FALSE]>> : n \in {0, MaxSeq}}

MCDgrams == MCSingles \cup MCPairs \cup MCCorrupt

(* Fewer records, one of them cut short, one of another protocol version   *)
(* and one corrupted.                                                      *)
MCBadDgrams ==
    {<<MCRec(0, 1)>>, <<MCRec(1, 0)>>, <<MCRec(1, 2)>>, <<MCRec(2, 0)>>}
        \cup {<<[MCRec(0, 0) EXCEPT !.whole = FALSE]>>,
              <<[MCRec(1, 1) EXCEPT !.ver = FALSE]>>,
              <<[MCRec(1, 0) EXCEPT !.ok = FALSE]>>}
=============================================================================
