---------------------------- MODULE RoverService ----------------------------
(***************************************************************************)
(* rover.Service: Run and the two webrtc functions of rover/service.go.    *)
(* A session is one call of webrtc() (of webrtcGstreamerCli() when         *)
(* GstreamerCli is set), from `go s.webrtc()` to its runtime.Goexit.       *)
(***************************************************************************)
EXTENDS BaseService

RoverStart(r) == Boot(r, NoChans)

-----------------------------------------------------------------------------
(* Run *)

(* The loop head, after time.Sleep(time.Second) unless it is the first     *)
(* round.  The sleep orders nothing by itself.  SleepSuffices confines the *)
(* model to the schedules in which a session that can end within the       *)
(* second has ended; webrtcGstreamerCli() cannot while it waits for a      *)
(* packet or an answer.                                                    *)
RoverSpawn(r) ==
  /\ run[r].pc = "spawn"
  /\ SleepSuffices =>
       /\ \A s \in DOMAIN sess[r] : ~StageIs(r, s, "closing")
       /\ chans[r].WebrtcEndSignal # <<>> =>
            \A s \in LiveSessions(r) :
              r \in GstreamerCli /\ sess[r][s].stage \in {"listening", "waiting"}
  /\ run' = [run EXCEPT ![r].pc = "select"]
  /\ sess' = [sess EXCEPT ![r] =
                Append(@, NewSession(IF r \in GstreamerCli THEN "starting" ELSE "offering"))]
  /\ UNCHANGED <<proc, signedIn, chans, outbox, inbox>>

(* Mutant: the line s.WebrtcEndSignal <- true is missing. *)
RoverRunForgetsSignal(r) ==
  /\ run[r].pc = "select"
  /\ ChanRecv(r, "SDPReqCh")
  /\ run' = [run EXCEPT ![r].pc = "spawn"]
  /\ UNCHANGED <<proc, signedIn, outbox, inbox, sess>>

(* Mutant: Run heeds a request only once its session has an answer. *)
RoverRunWaitsForAnswer(r) ==
  /\ run[r].pc = "select"
  /\ \E s \in DOMAIN sess[r] : StageIs(r, s, "streaming")
  /\ ChanRecv(r, "SDPReqCh")
  /\ run' = [run EXCEPT ![r].pc = "signal"]
  /\ UNCHANGED <<proc, signedIn, outbox, inbox, sess>>

(* case <-s.SDPReqCh.  Goroutine Send receives from the same channel. *)
RoverRunRequest(r) ==
  /\ run[r].pc = "select"
  /\ ChanRecv(r, "SDPReqCh")
  /\ run' = [run EXCEPT ![r].pc = "signal"]
  /\ UNCHANGED <<proc, signedIn, outbox, inbox, sess>>

(* Mutant: the signal is dropped when one is pending (select with default). *)
RoverRunSignalOrDrop(r) ==
  /\ run[r].pc = "signal"
  /\ \/ ChanSend(r, "WebrtcEndSignal", TRUE)
     \/ chans[r].WebrtcEndSignal # <<>> /\ UNCHANGED chans
  /\ run' = [run EXCEPT ![r].pc = "spawn"]
  /\ UNCHANGED <<proc, signedIn, outbox, inbox, sess>>

(* s.WebrtcEndSignal <- true *)
RoverRunSignal(r) ==
  /\ run[r].pc = "signal"
  /\ ChanSend(r, "WebrtcEndSignal", TRUE)
  /\ run' = [run EXCEPT ![r].pc = "spawn"]
  /\ UNCHANGED <<proc, signedIn, outbox, inbox, sess>>

RoverRun(r) == RoverSpawn(r) \/ RoverRunRequest(r) \/ RoverRunSignal(r)

-----------------------------------------------------------------------------
(* webrtcGstreamerCli: port 5004 is taken before the offer is made, and    *)
(* released by the deferred listener.Close when the goroutine exits, so    *)
(* some time after it has read its end signal.                             *)

HoldsPort(r) ==
  {s \in DOMAIN sess[r] :
     sess[r][s].stage \in {"listening", "offering", "waiting", "streaming", "closing"}}

RoverListen(r, s) ==
  /\ StageIs(r, s, "starting")
  /\ HoldsPort(r) = {}
  /\ GoTo(r, s, "listening")
  /\ UNCHANGED <<proc, signedIn, chans, outbox, inbox, run>>

(* net.ListenUDP fails: panic(err) *)
RoverPortConflict(r, s) ==
  /\ StageIs(r, s, "starting")
  /\ HoldsPort(r) # {}
  /\ Die(r)

(* ReadFromUDP returns the first RTP packet of gst-launch. *)
RoverFirstPacket(r, s) ==
  /\ StageIs(r, s, "listening")
  /\ GoTo(r, s, "offering")
  /\ UNCHANGED <<proc, signedIn, chans, outbox, inbox, run>>

(* CreateOffer, SetLocalDescription, s.SendCh <- offer *)
RoverOffer(r, s) ==
  /\ StageIs(r, s, "offering")
  /\ ChanSend(r, "SendCh", Offer(r, s))
  /\ GoTo(r, s, "waiting")
  /\ UNCHANGED <<proc, signedIn, outbox, inbox, run>>

(* answer = <-s.RemoteSDPCh, SetRemoteDescription, start of the pipelines. *)
(* Whatever answer is at hand is applied.                                  *)
RoverAnswered(r, s) ==
  /\ StageIs(r, s, "waiting")
  /\ ChanRecv(r, "RemoteSDPCh")
  /\ GoToWith(r, s, "streaming", Head(chans[r].RemoteSDPCh))
  /\ UNCHANGED <<proc, signedIn, outbox, inbox, run>>

(* Mutant: only the last select listens for the end signal. *)
RoverEndOnceAnswered(r, s) ==
  /\ StageIs(r, s, "streaming")
  /\ ChanRecv(r, "WebrtcEndSignal")
  /\ GoTo(r, s, "closing")
  /\ UNCHANGED <<proc, signedIn, outbox, inbox, run>>

(* case <-s.WebrtcEndSignal: webrtc() has it in both selects, while        *)
(* webrtcGstreamerCli() polls it after each RTP packet, so only once it    *)
(* streams.                                                                *)
RoverEnd(r, s) ==
  /\ \/ StageIs(r, s, "streaming")
     \/ StageIs(r, s, "waiting") /\ r \notin GstreamerCli
  /\ ChanRecv(r, "WebrtcEndSignal")
  /\ GoTo(r, s, "closing")
  /\ UNCHANGED <<proc, signedIn, outbox, inbox, run>>

(* The pipelines are stopped and the PeerConnection is closed, which takes *)
(* its time; then runtime.Goexit runs the deferred listener.Close.         *)
RoverClosed(r, s) ==
  /\ StageIs(r, s, "closing")
  /\ GoTo(r, s, "closed")
  /\ UNCHANGED <<proc, signedIn, chans, outbox, inbox, run>>

RoverSession(r, s) ==
  \/ RoverListen(r, s)
  \/ RoverPortConflict(r, s)
  \/ RoverFirstPacket(r, s)
  \/ RoverOffer(r, s)
  \/ RoverAnswered(r, s)
  \/ RoverEnd(r, s)
  \/ RoverClosed(r, s)

(* What a session does by itself.  webrtcGstreamerCli() needs a packet of  *)
(* gst-launch to make its offer and to look at its end signal, and there   *)
(* may be none.                                                            *)
RoverSessionGoesOn(r, s) ==
  \/ RoverListen(r, s)
  \/ RoverPortConflict(r, s)
  \/ RoverOffer(r, s)
  \/ RoverAnswered(r, s)
  \/ RoverEnd(r, s) /\ r \notin GstreamerCli
  \/ RoverClosed(r, s)

-----------------------------------------------------------------------------
RoverStep(r) ==
  \/ RoverStart(r)
  \/ Exit(r)
  \/ SignIn(r)
  \/ SendSDP(r)
  \/ SendSDPReq(r)
  \/ ServerRecv(r)
  \/ RoverRun(r)
  \/ \E s \in DOMAIN sess[r] : RoverSession(r, s)

=============================================================================
