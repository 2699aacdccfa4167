----------------------------- MODULE AudioEngine ------------------------------
(***************************************************************************)
(* What the PCM callbacks promise one client of the card: every operation  *)
(* the client calls takes effect on the audio engine once, at one moment   *)
(* between the call and the return, and the engine changes at no other     *)
(* time.  A client may call an operation only where the one before left it.*)
(***************************************************************************)
CONSTANT Direction  \* the way the frames of this client go

Idle == "none"
Operations == {"PREPARE", "START", "STOP", "PAUSE_PUSH", "PAUSE_RELEASE"}
Engines == {"off", "held", Direction}

VARIABLES
  engine,   \* what the engine does: nothing, held by a pause, or its frames
  call,     \* the operation in progress
  done      \* it has taken effect

vars == <<engine, call, done>>

TypeOK ==
  /\ engine \in Engines
  /\ call \in Operations \cup {Idle}
  /\ done \in BOOLEAN

Init == engine = "off" /\ call = Idle /\ done = FALSE

(* What the engine may be left doing.  Preparing never starts it; an engine *)
(* held by a pause that a suspend of the system abandoned may stay held.    *)
Effects(o) ==
  CASE o = "PREPARE"       -> {"off", engine}
    [] o = "START"         -> {Direction}
    [] o = "STOP"          -> {"off"}
    [] o = "PAUSE_PUSH"    -> {"held"}
    [] o = "PAUSE_RELEASE" -> {Direction}

Allowed(o) ==
  CASE o = "PREPARE"       -> engine \in {"off", "held"}
    [] o = "START"         -> engine \in {"off", "held"}
    [] o = "STOP"          -> engine = Direction
    [] o = "PAUSE_PUSH"    -> engine = Direction
    [] o = "PAUSE_RELEASE" -> engine = "held"

Call(o) ==
  /\ call = Idle /\ Allowed(o)
  /\ call' = o
  /\ done' = FALSE
  /\ UNCHANGED engine

TakeEffect ==
  /\ call # Idle /\ ~done
  /\ engine' \in Effects(call)
  /\ done' = TRUE
  /\ UNCHANGED call

Finish ==
  /\ call # Idle /\ done
  /\ call' = Idle
  /\ done' = FALSE
  /\ UNCHANGED engine

Next == (\E o \in Operations : Call(o)) \/ TakeEffect \/ Finish

Spec == Init /\ [][Next]_vars
===============================================================================
