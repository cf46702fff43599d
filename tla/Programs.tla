------------------------------ MODULE Programs ------------------------------
(***************************************************************************)
(* A program from main to the point where it serves and, if it is a        *)
(* controller with GstreamerCli, forwards.  Only what ends a process by    *)
(* its own doing is here: BaseService has the rest.                        *)
(***************************************************************************)
EXTENDS Forwarding

vars == <<startVars, forwardVars>>

Init == StartInit /\ ForwardInit

Next ==
  \/ StartNext /\ UNCHANGED forwardVars
  \/ ForwardNext

Spec == Init /\ [][Next]_vars

(* main's goroutine, but for the user who is asked for a device *)
MainGoesOn ==
  \/ LoadFile
  \/ ReadKey
  \/ RequiredMissing
  \/ BadValue
  \/ ReaderDone
  \/ \E ok \in BOOLEAN : Connect(ok)

Fairness ==
  /\ WF_vars(MainGoesOn /\ UNCHANGED forwardVars)
  /\ WF_vars(JoystickRun /\ UNCHANGED forwardVars)
  /\ WF_vars(SignIn /\ UNCHANGED forwardVars)

FairSpec == Spec /\ Fairness

-----------------------------------------------------------------------------
(* The value a key should have: the file's, or the default. *)
Wanted(k) == IF file[k] = Missing THEN Default[k] ELSE file[k]

(* The keys of a reader that stopped early have their value up to some     *)
(* point and the default from there on; without a file all are zero.       *)
KeptInOrder(keys) ==
  \/ \E n \in 0..Len(keys) : \A i \in 1..Len(keys) :
       conf[keys[i]] = IF i <= n THEN Wanted(keys[i]) ELSE Default[keys[i]]
  \/ \A i \in 1..Len(keys) : conf[keys[i]] = Zero(keys[i])

(* A program that serves and has reported nothing has every value from its *)
(* file or the default, and controls or signs in with them: a missing      *)
(* file, a malformed value and a missing device are never silent.          *)
(* And whatever was reported, settings are not mixed arbitrarily: what     *)
(* comes before the malformed value counts, what comes after does not.     *)
(* (models/config, main)                                                   *)
QuietStart ==
  pc = "serve" =>
    /\ \A i \in 1..Len(Readers[program]) : KeptInOrder(Readers[program][i])
    /\ ~logged =>
         /\ \A i \in 1..Len(Readers[program]) :
              \A k \in Range(Readers[program][i]) : conf[k] = Wanted(k)
         /\ program = "controller" => trans = Modes(conf) /\ device
         /\ signedIn \in {None, conf.id}

(* A controller that serves comes to read its stick, or ends; it only goes *)
(* on without when the rate is negative or above a reading per nanosecond. *)
(* In particular none goes on without a device or with the zero settings   *)
(* of a file that could not be read (joystick.Run, controllerd.go:40).     *)
StickLives ==
  pc = "serve" /\ program = "controller" ~>
    \/ pc = "dead"
    \/ stick = "reading"
    \/ conf.joystickFreq \notin 0..1000000000

FailedOtherwise == faults \cap {"other", "failed"} # {}

(* A refused Write by itself kills nobody: a forwarding controller is lost *)
(* in a handler only if some call has failed in another way, or if a       *)
(* second goroutine, the other track's or the session's, has stored an     *)
(* answer into the same err (controller/service.go:256-266, 335).          *)
LoneRefusalForgiven ==
  reason = "forward" =>
    \/ FailedOtherwise
    \/ "refused" \in faults /\ \E v, w \in stored : v # w

(* What the comment says: "we must not kill the forward on connection      *)
(* refused errors" (controller/service.go:261-262).                        *)
RefusalsForgiven ==
  reason = "forward" => FailedOtherwise

=============================================================================
