---------------------------- MODULE MCModemLink -----------------------------
(* Instances of ModemLink: one configuration, every line a card without     *)
(* calls may send.                                                         *)
EXTENDS ModemLink

BaseConf == [reset |-> TRUE, u2diag |-> FALSE, pin |-> TRUE,
             autodelete |-> TRUE, disablesms |-> FALSE]
OneConf == {BaseConf}
ModemLines == {"OK", "ERROR", "CPIN", "CREG", "CMTI", "CMGR", "PDU"}
AllSim == -1 .. 4
=============================================================================
