----------------------------- MODULE Forwarding -----------------------------
(***************************************************************************)
(* What a controller with GstreamerCli does with the tracks it receives:   *)
(* the OnTrack handler of webrtcGstreamerCli writes each packet to a local *)
(* UDP port where somebody may be watching, and startGstreamer runs        *)
(* gst-launch, which watches the video port.                               *)
(*                                                                         *)
(* There is one call of the handler per track, each in its own goroutine,  *)
(* but the variable err is the session's: the handlers store the answers   *)
(* of their Writes there and read them back, and the session's goroutine   *)
(* stores what Close returns.  An interface value is two words, and        *)
(* nothing keeps these goroutines apart.                                   *)
(***************************************************************************)
EXTENDS Startup

VARIABLES
  session,   \* its goroutine: "setup", "serve", "close", "store" or "gone"
  at,        \* where a track's handler is: "off", "read", "store", "test" or "check"
  err,       \* the shared variable: a type word and a data word
  own,       \* the answer of which a goroutine has yet to store the data word
  stored,    \* the goroutines that have stored an answer
  faults,    \* the answers, other than nil, that have been stored
  refusal,   \* the kernel holds a refusal for the track's socket
  viewer,    \* somebody listens on the track's port
  gst        \* startGstreamer: "off", "up" or "gone"

errVars == <<err, own, stored, faults>>
forwardVars == <<session, at, errVars, refusal, viewer, gst>>

Kind == {"audio", "video"}

Writer == Kind \cup {"session"}

(* nil, or a *net.OpError, "write: connection refused" or another, or what *)
(* Close fails with                                                        *)
Answer == {"nil", "refused", "other", "failed"}

TypeWord(a) ==
  CASE a = "nil" -> "nil"
    [] a \in {"refused", "other"} -> "OpError"
    [] a = "failed" -> "foreign"

ForwardInit ==
  /\ session = "setup"
  /\ at = [k \in Kind |-> "off"]
  /\ err = [type |-> "nil", data |-> "nil"]
  /\ own = [w \in Writer |-> "nil"]
  /\ stored = {}
  /\ faults = {}
  /\ refusal = [k \in Kind |-> FALSE]
  /\ viewer = [k \in Kind |-> FALSE]
  /\ gst = "off"

Forwards == program = "controller" /\ pc = "serve" /\ conf.gstreamerCli

Panics(why) ==
  /\ Die(why)
  /\ UNCHANGED <<program, file, readVars, logged, stickVars, signedIn, forwardVars>>

(* w's call returns a: the type word of err is stored. *)
Returns(w, a) ==
  /\ own' = [own EXCEPT ![w] = a]
  /\ stored' = stored \cup {w}
  /\ faults' = faults \cup ({a} \ {"nil"})
  /\ err' = [err EXCEPT !.type = TypeWord(a)]

(* The data word *)
Stores(w) ==
  /\ err' = [err EXCEPT !.data = own[w]]
  /\ own' = [own EXCEPT ![w] = "nil"]
  /\ UNCHANGED <<stored, faults>>

-----------------------------------------------------------------------------
(* The session's goroutine *)

(* Until the answer has been sent it is alone with err: the rover cannot   *)
(* connect without the answer, and no track starts before it has.  What    *)
(* goes wrong until then is a panic.                                       *)
SessionSetUp ==
  /\ session = "setup"
  /\ session' = "serve"
  /\ UNCHANGED <<startVars, at, errVars, refusal, viewer, gst>>

SessionSetUpFails == session = "setup" /\ Panics("session")

(* The connection has been lost and the end signal read: Close is called,  *)
(* and returns.                                                            *)
SessionCloses ==
  /\ session = "serve"
  /\ session' = "close"
  /\ UNCHANGED <<startVars, at, errVars, refusal, viewer, gst>>

CloseReturns ==
  /\ session = "close"
  /\ session' = "store"
  /\ \E a \in {"nil", "failed"} : Returns("session", a)
  /\ UNCHANGED <<startVars, at, refusal, viewer, gst>>

(* An error is logged, and the deferred calls close the two sockets.       *)
SessionExits ==
  /\ session = "store"
  /\ session' = "gone"
  /\ Stores("session")
  /\ UNCHANGED <<startVars, at, refusal, viewer, gst>>

-----------------------------------------------------------------------------
(* The handler *)

TrackStarts(k) ==
  /\ at[k] = "off"
  /\ session # "setup"
  /\ at' = [at EXCEPT ![k] = "read"]
  /\ UNCHANGED <<startVars, session, errVars, refusal, viewer, gst>>

(* track.Read fails once Close has been called: panic(readErr).            *)
ReadFails(k) ==
  /\ at[k] = "read"
  /\ session \in {"close", "store", "gone"}
  /\ Panics("read")

(* A packet is read and written.  Nobody at the other end shows only in    *)
(* the next Write on the same socket.  A Write may fail in other ways,     *)
(* and does on a socket that has been closed.                              *)
WritePacket(k) ==
  /\ at[k] = "read"
  /\ \/ /\ session # "gone"
        /\ Returns(k, IF refusal[k] THEN "refused" ELSE "nil")
        /\ refusal' = [refusal EXCEPT ![k] = ~refusal[k] /\ ~viewer[k]]
     \/ /\ Returns(k, "other")
        /\ UNCHANGED refusal
  /\ at' = [at EXCEPT ![k] = "store"]
  /\ UNCHANGED <<startVars, session, viewer, gst>>

StoreErr(k) ==
  /\ at[k] = "store"
  /\ Stores(k)
  /\ at' = [at EXCEPT ![k] = "test"]
  /\ UNCHANGED <<startVars, session, refusal, viewer, gst>>

(* err != nil *)
TestErr(k) ==
  /\ at[k] = "test"
  /\ at' = [at EXCEPT ![k] = IF err.type = "nil" THEN "read" ELSE "check"]
  /\ UNCHANGED <<startVars, session, errVars, refusal, viewer, gst>>

(* Mutant: every error of a Write is fatal. *)
CheckErrStrict(k) == at[k] = "check" /\ Panics("forward")

Forgiven == err = [type |-> "OpError", data |-> "refused"]

(* The refusal is forgiven.  A nil interface or another error is not:      *)
(* panic(err).  Nor is one whose words do not belong together: a panic at  *)
(* opError.Err, or at err.                                                 *)
CheckErr(k) ==
  /\ at[k] = "check"
  /\ \/ /\ Forgiven
        /\ at' = [at EXCEPT ![k] = "read"]
        /\ UNCHANGED <<startVars, session, errVars, refusal, viewer, gst>>
     \/ /\ ~Forgiven
        /\ Panics("forward")

-----------------------------------------------------------------------------
(* The viewers *)

GstStarts ==
  /\ gst = "off"
  /\ gst' = "up"
  /\ viewer' = [viewer EXCEPT !["video"] = TRUE]
  /\ UNCHANGED <<startVars, session, at, errVars, refusal>>

(* cmd.Run returns nil: the window has been closed. *)
GstEnds ==
  /\ gst = "up"
  /\ gst' = "gone"
  /\ viewer' = [viewer EXCEPT !["video"] = FALSE]
  /\ UNCHANGED <<startVars, session, at, errVars, refusal>>

(* panic(cmd.Stderr): gst-launch is not there, or has failed. *)
GstFails ==
  /\ gst # "gone"
  /\ Panics("gst")

(* Audio is left to whatever the user runs. *)
AudioViewer ==
  /\ viewer' = [viewer EXCEPT !["audio"] = ~@]
  /\ UNCHANGED <<startVars, session, at, errVars, refusal, gst>>

ForwardNext ==
  /\ Forwards
  /\ \/ SessionSetUp
     \/ SessionSetUpFails
     \/ SessionCloses
     \/ CloseReturns
     \/ SessionExits
     \/ \E k \in Kind :
          \/ TrackStarts(k)
          \/ ReadFails(k)
          \/ WritePacket(k)
          \/ StoreErr(k)
          \/ TestErr(k)
          \/ CheckErr(k)
     \/ GstStarts
     \/ GstEnds
     \/ GstFails
     \/ AudioViewer

=============================================================================
