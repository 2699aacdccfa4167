--------------------------- MODULE Motu424PcmEngine ---------------------------
(***************************************************************************)
(* The callbacks of one substream implement AudioEngine: for every         *)
(* interleaving of the client, the handler that stops it on an overrun and *)
(* the card, each operation takes effect once, at the write of PORT_CONF.  *)
(***************************************************************************)
EXTENDS Motu424Pcm

(* The substream in use, in a configuration that has one. *)
Only == CHOOSE s \in Streams : TRUE

Busy == {p \in Procs : pc[p] # "idle"}
InCall == CHOOSE p \in Busy : TRUE

(* To the engine an overrun and a suspend are stops. *)
AsOperation(o) == IF o \in {"XRUN", "SUSPEND"} THEN "STOP" ELSE o

engineBar ==
  IF EngineOn(portConf)
    THEN IF "DMA_RD" \in portConf THEN "playback" ELSE "capture"
    ELSE IF "RUN" \in portConf THEN "held" ELSE "off"
callBar == IF Busy = {} THEN "none" ELSE AsOperation(op[InCall])
doneBar == Busy # {} /\ pc[InCall] \in {"store", "return"}

Engine == INSTANCE AudioEngine
  WITH Direction <- Only, engine <- engineBar, call <- callBar, done <- doneBar

(* The abstract promise, as a property of the runs with one substream. *)
ImplementsEngine == Engine!Spec
===============================================================================
