---------------------------- MODULE MCCardDevice ----------------------------
(* Instances of CardDevice: one for the session and the pipe, without      *)
(* calls, and one for the calls.                                           *)
EXTENDS CardInitRefinement, TLC

BaseConf == [reset |-> TRUE, u2diag |-> FALSE, pin |-> TRUE,
             autodelete |-> TRUE, disablesms |-> FALSE]

(* Both values of every option: every branch of the chain is taken. *)
SessionConfs == {BaseConf,
                 [reset |-> FALSE, u2diag |-> TRUE, pin |-> FALSE,
                  autodelete |-> FALSE, disablesms |-> TRUE]}

SmsOffConfs == {[BaseConf EXCEPT !.disablesms = TRUE]}

CallConfs == {BaseConf}

SessionLines == {"OK", "ERROR", "CPIN", "CREG", "CMTI", "CMGR", "PDU", "MALFORMED"}

CallLines == {"OK", "ERROR", "CPIN", "ORIG", "CEND", "CLIP", "RING", "BUSY",
              "NO_DIALTONE", "NO_CARRIER"}

SessionSim == {0, 1, 2}
CallSim == {0}

Symmetry == Permutations(Channels)
=============================================================================
