------------------------------ MODULE CardInit ------------------------------
(***************************************************************************)
(* What the initialisation of a card promises: it is a sequential program, *)
(* one AT command at a time in the order of at_response_ok, that enters    *)
(* the PIN at most once, goes on without network registration or voice,    *)
(* ends in service only by way of AT+CNMI, and may be dropped anywhere.    *)
(***************************************************************************)
EXTENDS ATCommands

CONSTANT Confs

VARIABLES
  conf,     \* the configuration: never changes
  stage,    \* "off", the command whose turn it is, or "ready"
  entered   \* whether this session has entered the PIN

vars == <<conf, stage, entered>>

Init == conf \in Confs /\ stage = "off" /\ entered = FALSE

Begin == stage = "off" /\ stage' = "AT" /\ UNCHANGED entered

Advance == stage \in ChainedCmds /\ stage' = NextInit(stage, conf) /\ UNCHANGED entered

(* The network or the voice of the card is not there. *)
Skip ==
  /\ \/ stage = "CREG" /\ stage' = "CNUM"
     \/ stage = "CVOICE" /\ stage' = "CMGF"
  /\ UNCHANGED entered

SimReady == stage = "CPIN" /\ stage' = "CIMI" /\ UNCHANGED entered

EnterPin ==
  /\ stage = "CPIN" /\ conf.pin /\ ~entered
  /\ stage' = "CPIN_ENTER" /\ entered' = TRUE

Finish == stage = "CNMI" /\ stage' = "ready" /\ UNCHANGED entered

Drop == stage # "off" /\ stage' = "off" /\ entered' = FALSE

Next == /\ Begin \/ Advance \/ Skip \/ SimReady \/ EnterPin \/ Finish \/ Drop
        /\ UNCHANGED conf

Spec == Init /\ [][Next]_vars
=============================================================================
