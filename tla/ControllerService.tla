------------------------- MODULE ControllerService -------------------------
(***************************************************************************)
(* controller.Service: Run and the two webrtc functions of                 *)
(* controller/service.go.  A session is one call of webrtc() (of           *)
(* webrtcGstreamerCli() when GstreamerCli is set).                         *)
(***************************************************************************)
EXTENDS BaseService

(* Mutant: the first request is missing. *)
ControllerStartSilent(c) == Boot(c, NoChans)

(* Run begins with s.SDPReqCh <- true, which its own Send sends out. *)
ControllerStart(c) == Boot(c, [NoChans EXCEPT !.SDPReqCh = <<TRUE>>])

-----------------------------------------------------------------------------
(* Run *)

(* Without GstreamerCli the loop goes from `go s.webrtc()` into            *)
(* gst.StartMainLoop(), which runs a GLib main loop that nothing quits:    *)
(* Run never reaches its select.  SleepSuffices is as in RoverSpawn.       *)
ControllerSpawn(c) ==
  /\ run[c].pc = "spawn"
  /\ SleepSuffices /\ chans[c].WebrtcEndSignal # <<>>
       => ~\E k \in DOMAIN sess[c] : StageIs(c, k, "done")
  /\ run' = [run EXCEPT ![c].pc = IF c \in GstreamerCli THEN "select" ELSE "mainloop"]
  /\ sess' = [sess EXCEPT ![c] = Append(@, NewSession("waiting"))]
  /\ UNCHANGED <<proc, signedIn, chans, outbox, inbox>>

(* case remoteSDP := <-s.RemoteSDPCh.  Sessions receive from it too. *)
ControllerRunOffer(c) ==
  /\ run[c].pc = "select"
  /\ ChanRecv(c, "RemoteSDPCh")
  /\ run' = [run EXCEPT ![c] = [pc |-> "signal", sdp |-> Head(chans[c].RemoteSDPCh)]]
  /\ UNCHANGED <<proc, signedIn, outbox, inbox, sess>>

ControllerRunSignal(c) ==
  /\ run[c].pc = "signal"
  /\ ChanSend(c, "WebrtcEndSignal", TRUE)
  /\ run' = [run EXCEPT ![c].pc = "putback"]
  /\ UNCHANGED <<proc, signedIn, outbox, inbox, sess>>

(* Mutant: the offer is not put back. *)
ControllerRunForgetsOffer(c) ==
  /\ run[c].pc = "putback"
  /\ run' = [run EXCEPT ![c] = [pc |-> "spawn", sdp |-> None]]
  /\ UNCHANGED <<proc, signedIn, chans, outbox, inbox, sess>>

(* s.RemoteSDPCh <- remoteSDP, for the session that is started next. *)
ControllerRunPutBack(c) ==
  /\ run[c].pc = "putback"
  /\ ChanSend(c, "RemoteSDPCh", run[c].sdp)
  /\ run' = [run EXCEPT ![c] = [pc |-> "spawn", sdp |-> None]]
  /\ UNCHANGED <<proc, signedIn, outbox, inbox, sess>>

ControllerRun(c) ==
  \/ ControllerSpawn(c)
  \/ ControllerRunOffer(c)
  \/ ControllerRunSignal(c)
  \/ ControllerRunPutBack(c)

-----------------------------------------------------------------------------
(* Mutant: the offer is read and left in the channel. *)
ControllerPeekOffer(c, k) ==
  /\ StageIs(c, k, "waiting")
  /\ chans[c].RemoteSDPCh # <<>>
  /\ GoToWith(c, k, "answering", Head(chans[c].RemoteSDPCh))
  /\ UNCHANGED <<proc, signedIn, chans, outbox, inbox, run>>

(* SetRemoteDescription(<-s.RemoteSDPCh) and CreateAnswer *)
ControllerTakeOffer(c, k) ==
  /\ StageIs(c, k, "waiting")
  /\ ChanRecv(c, "RemoteSDPCh")
  /\ GoToWith(c, k, "answering", Head(chans[c].RemoteSDPCh))
  /\ UNCHANGED <<proc, signedIn, outbox, inbox, run>>

(* s.SendCh <- answer *)
ControllerAnswer(c, k) ==
  /\ StageIs(c, k, "answering")
  /\ ChanSend(c, "SendCh", Answer(c, k, sess[c][k].sdp))
  /\ GoTo(c, k, "serving")
  /\ UNCHANGED <<proc, signedIn, outbox, inbox, run>>

(* OnTrack: the remote track starts, its goroutine reads it for ever. *)
ControllerTrackStarts(c, k) ==
  /\ StageIs(c, k, "serving")
  /\ ~sess[c][k].track
  /\ sess' = [sess EXCEPT ![c][k].track = TRUE]
  /\ UNCHANGED <<proc, signedIn, chans, outbox, inbox, run>>

(* webrtcGstreamerCli: <-ctx.Done(), after ICE has failed or disconnected. *)
ControllerIceGone(c, k) ==
  /\ c \in GstreamerCli
  /\ StageIs(c, k, "serving")
  /\ GoTo(c, k, "done")
  /\ UNCHANGED <<proc, signedIn, chans, outbox, inbox, run>>

(* Mutant: the session ends by itself when ICE is gone. *)
ControllerEndUnasked(c, k) ==
  /\ StageIs(c, k, IF c \in GstreamerCli THEN "done" ELSE "serving")
  /\ GoTo(c, k, "closed")
  /\ UNCHANGED <<proc, signedIn, chans, outbox, inbox, run>>

(* case <-s.WebrtcEndSignal, peerConnection.Close(), runtime.Goexit() *)
ControllerEnd(c, k) ==
  /\ StageIs(c, k, IF c \in GstreamerCli THEN "done" ELSE "serving")
  /\ ChanRecv(c, "WebrtcEndSignal")
  /\ GoTo(c, k, "closed")
  /\ UNCHANGED <<proc, signedIn, outbox, inbox, run>>

(* track.Read fails once the PeerConnection is closed: panic(readErr). *)
ControllerTrackPanic(c, k) ==
  /\ StageIs(c, k, "closed")
  /\ sess[c][k].track
  /\ Die(c)

ControllerSession(c, k) ==
  \/ ControllerTakeOffer(c, k)
  \/ ControllerAnswer(c, k)
  \/ ControllerTrackStarts(c, k)
  \/ ControllerIceGone(c, k)
  \/ ControllerEnd(c, k)
  \/ ControllerTrackPanic(c, k)

-----------------------------------------------------------------------------
ControllerStep(c) ==
  \/ ControllerStart(c)
  \/ Exit(c)
  \/ SignIn(c)
  \/ SendSDP(c)
  \/ SendSDPReq(c)
  \/ ServerRecv(c)
  \/ ControllerRun(c)
  \/ \E k \in DOMAIN sess[c] : ControllerSession(c, k)

=============================================================================
