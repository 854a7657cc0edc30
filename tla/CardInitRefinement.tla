------------------------- MODULE CardInitRefinement -------------------------
(***************************************************************************)
(* A CardDevice initialises as CardInit says, although its init commands   *)
(* share one queue, and one awaited answer, with the commands of its       *)
(* unsolicited lines and of the engine's threads.                          *)
(***************************************************************************)
EXTENDS CardDeviceProps

(* The init command of kind k is in the pipe, queued or awaiting its answer. *)
InPipe(k) == \E i \in 0 .. Len(queue) : Slot(i).cmd = k

Stage == IF initialized THEN "ready"
         ELSE IF link = "up" THEN CHOOSE k \in InitCmds : InPipe(k)
         ELSE "off"

Entered == pincount # 0

Abstract == INSTANCE CardInit WITH stage <- Stage, entered <- Entered

(* Every behaviour of the card is one of the sequential initialisation: no *)
(* answer, stale or not, makes at_response_ok and at_response_error skip a *)
(* command, repeat one, or come into service without the last.             *)
InitChain == Abstract!Spec
=============================================================================
