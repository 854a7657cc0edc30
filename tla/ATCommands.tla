----------------------------- MODULE ATCommands -----------------------------
(***************************************************************************)
(* The AT commands the driver creates (at_cmd_t and class ATCommand), the  *)
(* order in which at_response_ok chains the initialisation commands, and   *)
(* the commands whose ERROR ends the session.  A command is its kind and   *)
(* the object it carries: the number it dials (named by the channel that   *)
(* dials it) or the index of the stored message it reads or deletes.       *)
(***************************************************************************)
EXTENDS Sequences, Naturals

CONSTANTS
  Channels,     \* the DatacardChannel objects
  SmsIndexes,   \* the indexes of the message store of the modem
  NoObj         \* ATCommand without an object, and a null m_conn

ASSUME ObjAssumption == NoObj \notin Channels \cup SmsIndexes

(* Commands of the initialisation: each is sent once, at its turn. *)
InitCmds == {"AT", "Z", "E", "U2DIAG", "CGMI", "CGMM", "CGMR", "CMEE", "CGSN",
             "CPIN", "CPIN_ENTER", "CIMI", "COPS_INIT", "CREG_INIT", "CREG",
             "CNUM", "CVOICE", "CLIP", "CSSN", "CMGF", "CPMS", "CNMI"}

(* Commands created once the card is in service, or on an unsolicited line. *)
ServiceCmds == {"CSQ", "COPS", "CLVL", "CMGR", "CMGD", "CMGS", "CUSD",
                "A", "CLIR", "D", "DDSETEX", "CHUP", "DTMF"}

Command == [cmd : InitCmds \cup ServiceCmds,
            obj : Channels \cup SmsIndexes \cup {NoObj}]

(* m_lastcmd == 0 *)
NoCmd == [cmd |-> "none", obj |-> NoObj]

Plain(k) == [cmd |-> k, obj |-> NoObj]
With(k, o) == [cmd |-> k, obj |-> o]

(* Init commands answered by ERROR that leave the session standing. *)
OptionalCmds == {"CREG", "CVOICE"}

(* The three commands that probe SMS support. *)
SmsProbes == {"CMGF", "CPMS", "CNMI"}

(* Every other init command ends the session when it fails. *)
RequiredCmds == (InitCmds \ OptionalCmds) \ SmsProbes

(* The init command that follows the OK of k.  CPIN depends on the state  *)
(* of the SIM and CNMI ends the chain: their handlers say what comes next. *)
NextInit(k, conf) ==
  CASE k = "AT"         -> IF conf.reset THEN "Z" ELSE "E"
    [] k = "Z"          -> "E"
    [] k = "E"          -> IF conf.u2diag THEN "U2DIAG" ELSE "CGMI"
    [] k = "U2DIAG"     -> "CGMI"
    [] k = "CGMI"       -> "CGMM"
    [] k = "CGMM"       -> "CGMR"
    [] k = "CGMR"       -> "CMEE"
    [] k = "CMEE"       -> "CGSN"
    [] k = "CGSN"       -> "CPIN"
    [] k = "CPIN_ENTER" -> "CPIN"
    [] k = "CIMI"       -> "COPS_INIT"
    [] k = "COPS_INIT"  -> "CREG_INIT"
    [] k = "CREG_INIT"  -> "CREG"
    [] k = "CREG"       -> "CNUM"
    [] k = "CNUM"       -> "CVOICE"
    [] k = "CVOICE"     -> "CLIP"
    [] k = "CLIP"       -> "CSSN"
    [] k = "CSSN"       -> "CMGF"
    [] k = "CMGF"       -> "CPMS"
    [] OTHER            -> "CNMI"

ChainedCmds == InitCmds \ {"CPIN", "CNMI"}
=============================================================================
