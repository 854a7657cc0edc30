----------------------------- MODULE MCCallLink -----------------------------
(* An instance of CallLink: one configuration, every line a card with calls *)
(* sends.                                                                  *)
EXTENDS CallLink

CallConf == {[reset |-> FALSE, u2diag |-> FALSE, pin |-> FALSE,
              autodelete |-> TRUE, disablesms |-> FALSE]}
CallLines == {"OK", "ERROR", "CPIN", "ORIG", "CEND", "CLIP", "RING", "BUSY", "NO_CARRIER"}
=============================================================================
