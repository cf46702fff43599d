------------------------- MODULE SessionSupervisor -------------------------
(***************************************************************************)
(* What the Run loops of rover/service.go and controller/service.go        *)
(* promise about peer connections, without saying what a session does.     *)
(*                                                                         *)
(* Run starts one session goroutine, waits for a reason to renegotiate,    *)
(* posts one token on WebrtcEndSignal and starts the next goroutine.  No   *)
(* goroutine is addressed by name: whichever session reads a token closes  *)
(* its PeerConnection, in its own time, and exits.  The promise is         *)
(* therefore one of counting only: tokens and sessions never get out of    *)
(* step.                                                                   *)
(***************************************************************************)
EXTENDS Naturals

CONSTANT SignalCap     \* capacity of WebrtcEndSignal

VARIABLES
  phase,    \* where Run is: "off" (no process), "spawn", "idle" or "signal"
  live,     \* session goroutines that have not read a token
  ending    \* tokens posted on WebrtcEndSignal and not yet read

vars == <<phase, live, ending>>

Phase == {"off", "spawn", "idle", "signal"}

(* Every variable has its type; tokens fit their channel. *)
TypeOK ==
  /\ phase \in Phase
  /\ live \in Nat
  /\ ending \in 0..SignalCap

Init ==
  /\ phase = "off"
  /\ live = 0
  /\ ending = 0

Start ==
  /\ phase = "off"
  /\ phase' = "spawn"
  /\ UNCHANGED <<live, ending>>

Spawn ==
  /\ phase = "spawn"
  /\ phase' = "idle"
  /\ live' = live + 1
  /\ UNCHANGED ending

Request ==
  /\ phase = "idle"
  /\ phase' = "signal"
  /\ UNCHANGED <<live, ending>>

Signal ==
  /\ phase = "signal"
  /\ ending < SignalCap
  /\ phase' = "spawn"
  /\ ending' = ending + 1
  /\ UNCHANGED live

EndSession ==
  /\ live > 0
  /\ ending > 0
  /\ live' = live - 1
  /\ ending' = ending - 1
  /\ UNCHANGED phase

Die ==
  /\ phase # "off"
  /\ phase' = "off"
  /\ live' = 0
  /\ ending' = 0

Next == Start \/ Spawn \/ Request \/ Signal \/ EndSession \/ Die

Spec == Init /\ [][Next]_vars

(* What holding tokens and sessions in step means for the code: one        *)
(* session per unread token, and one more while Run waits for its next     *)
(* reason to renegotiate.                                                  *)
Accounting == live = ending + (IF phase \in {"idle", "signal"} THEN 1 ELSE 0)

(* So sessions cannot pile up behind a slow one: those that nobody has     *)
(* told to end are never more than the capacity of WebrtcEndSignal and     *)
(* one.                                                                    *)
LiveBound == live <= SignalCap + 1

=============================================================================
