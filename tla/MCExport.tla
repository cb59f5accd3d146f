------------------------------ MODULE MCExport ------------------------------
(* Exports and the search for an encoding, each explored on its own. *)
EXTENDS ExportJob, EncodeSearch

CONSTANT firstContent, someDecoder   \* one of several alike

VARIABLE part    \* which of the two moves

MCHeifQualities == <<95, 90, 85>>
MCAuxQualities == <<95, 85>>
MCJpegQualities == <<99, 98, 97>>
MCLadder == <<95, 97, 100>>

Init ==
    /\ ExportInit /\ calibration = firstContent /\ displayed \in {NoDecoder, someDecoder}
    /\ EncodeInit
    /\ \/ part = "job" /\ request = CHOOSE r \in Requests : TRUE
       \/ part = "search" /\ displayed = NoDecoder

Next ==
    \/ part = "job" /\ ExportNext /\ UNCHANGED <<part, searchVars>>
    \/ part = "search" /\ EncodeNext /\ UNCHANGED <<part, exportVars>>

Spec == Init /\ [][Next]_<<part, exportVars, searchVars>> /\ ExportFairness

\* The type invariants of the two parts.
TypesOK == ExportTypeOK /\ EncodeTypeOK
=============================================================================
