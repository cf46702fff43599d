--------------------------- MODULE MediaPipelines ---------------------------
(***************************************************************************)
(* The GStreamer pipelines of the rover's webrtc() sessions                *)
(* (rover/service.go:163-188, gst/gstreamer-src).  A session makes one for *)
(* audio and one for video, starts them, and stops them when it is told to *)
(* end.  Each pipeline that plays has a streaming thread of its own, which *)
(* finds its tracks by number in a map under pipelinesLock.                *)
(*                                                                         *)
(* Of sessions and end signals no more is used here than SessionSupervisor *)
(* says, which the rover implements (RoverAlone!Supervised).               *)
(***************************************************************************)
EXTENDS Integers, FiniteSets

CONSTANTS
  SignalCap,   \* capacity of WebrtcEndSignal
  Sessions     \* bound: how many sessions Run starts

ASSUME MediaAssumption == SignalCap \in Nat \ {0} /\ Sessions \in Nat \ {0}

VARIABLES
  phase, live, ending,   \* of SessionSupervisor
  stage,       \* what a session is at
  kind,        \* the pipeline it is doing that to
  pipelines,   \* the map: number -> the pipeline it was made for
  element,     \* per pipeline: "null", "playing", "failed" or "stopped"
  number,      \* the number its streaming thread calls back with
  thread       \* where that thread is: "idle", "sample" or "write"

Run == INSTANCE SessionSupervisor

runVars == <<phase, live, ending>>
sessionVars == <<stage, kind>>
gstVars == <<pipelines, element, number, thread>>
vars == <<runVars, sessionVars, gstVars>>

Session == 1..Sessions
Kind == {"audio", "video"}

(* A pipeline is known by the session and the track it was made for. *)
Pipeline == Session \X Kind

Stage == {"none", "waiting", "create", "creating", "start", "streaming",
          "stop", "stopping", "close", "gone"}

(* The goroutine has been told to end and is not done. *)
Ending == {"stop", "stopping", "close"}

Live == {s \in Session : stage[s] \notin Ending \cup {"none", "gone"}}

Playing == {p \in Pipeline : element[p] = "playing"}

(* Mutant: Stop takes pipelinesLock, too. *)
LockedToStop == \E s \in Session : stage[s] \in {"creating", "stopping"}

(* pipelinesLock is held while CreatePipeline parses and enters it. *)
Locked == \E s \in Session : stage[s] = "creating"

-----------------------------------------------------------------------------
(* A process that has just started.  Its map of pipelines is empty. *)
Fresh ==
  [stage     |-> [s \in Session |-> "none"],
   kind      |-> [s \in Session |-> "audio"],
   pipelines |-> [n \in {} |-> <<1, "audio">>],
   element   |-> [p \in Pipeline |-> "null"],
   number    |-> [p \in Pipeline |-> 0],
   thread    |-> [p \in Pipeline |-> "idle"]]

MediaInit ==
  /\ stage = Fresh.stage /\ kind = Fresh.kind
  /\ pipelines = Fresh.pipelines /\ element = Fresh.element
  /\ number = Fresh.number /\ thread = Fresh.thread

Init == Run!Init /\ MediaInit

(* Run of rover.Service, but for what concerns a session. *)
Supervise ==
  /\ Run!Start \/ Run!Request \/ Run!Signal
  /\ UNCHANGED <<sessionVars, gstVars>>

(* The process ends, for whatever reason, and all it holds with it. *)
ProcessEnds ==
  /\ Run!Die
  /\ stage' = Fresh.stage /\ kind' = Fresh.kind
  /\ pipelines' = Fresh.pipelines /\ element' = Fresh.element
  /\ number' = Fresh.number /\ thread' = Fresh.thread

(* gstreamer_send_bus_call: exit(1) on a pipeline's error *)
BusError ==
  /\ \E p \in Pipeline : element[p] = "failed"
  /\ ProcessEnds

-----------------------------------------------------------------------------
(* Sessions *)

(* go s.webrtc(), up to its select *)
SessionStarts(s) ==
  /\ Run!Spawn
  /\ stage[s] = "none"
  /\ \A t \in 1..(s - 1) : stage[t] # "none"
  /\ stage' = [stage EXCEPT ![s] = "waiting"]
  /\ UNCHANGED <<kind, gstVars>>

(* answer = <- s.RemoteSDPCh *)
Answered(s) ==
  /\ stage[s] = "waiting"
  /\ stage' = [stage EXCEPT ![s] = "create"]
  /\ UNCHANGED <<runVars, kind, gstVars>>

(* <- s.WebrtcEndSignal, in either select *)
EndSignalled(s) ==
  /\ Run!EndSession
  /\ \/ /\ stage[s] = "waiting"
        /\ stage' = [stage EXCEPT ![s] = "close"]
     \/ /\ stage[s] = "streaming"
        /\ stage' = [stage EXCEPT ![s] = "stop"]
  /\ UNCHANGED <<kind, gstVars>>

(* The session has done with its audio or video pipeline what it is at:    *)
(* the same for video comes after audio, and `next' after video.           *)
Done(s, same, next) ==
  /\ stage' = [stage EXCEPT ![s] = IF kind[s] = "audio" THEN same ELSE next]
  /\ kind' = [kind EXCEPT ![s] = IF kind[s] = "audio" THEN "video" ELSE "audio"]
  /\ UNCHANGED runVars

(* CreatePipeline has the lock.  The number is the length of the map. *)
CreateBegins(s) ==
  /\ stage[s] = "create"
  /\ ~Locked
  /\ LET p == <<s, kind[s]>>
         n == Cardinality(DOMAIN pipelines)
     IN  /\ pipelines' = [i \in DOMAIN pipelines \cup {n} |->
                            IF i = n THEN p ELSE pipelines[i]]
         /\ number' = [number EXCEPT ![p] = n]
  /\ stage' = [stage EXCEPT ![s] = "creating"]
  /\ UNCHANGED <<runVars, kind, element, thread>>

CreateEnds(s) ==
  /\ stage[s] = "creating"
  /\ Done(s, "create", "start")
  /\ UNCHANGED gstVars

(* The camera, the default of -video-src, serves one pipeline at a time.   *)
StartPipeline(s) ==
  /\ stage[s] = "start"
  /\ LET p == <<s, kind[s]>>
         taken == p[2] = "video" /\ \E q \in Playing : q[2] = "video"
     IN  element' = [element EXCEPT ![p] = IF taken THEN "failed" ELSE "playing"]
  /\ Done(s, "start", "streaming")
  /\ UNCHANGED <<pipelines, number, thread>>

(* gst_element_set_state(pipeline, GST_STATE_NULL) is called. *)
StopBegins(s) ==
  /\ stage[s] = "stop"
  /\ stage' = [stage EXCEPT ![s] = "stopping"]
  /\ UNCHANGED <<runVars, kind, gstVars>>

(* Mutant: the call returns before the streaming thread has. *)
StopEndsAsync(s) ==
  /\ stage[s] = "stopping"
  /\ element' = [element EXCEPT ![<<s, kind[s]>>] = "stopped"]
  /\ Done(s, "stop", "close")
  /\ UNCHANGED <<pipelines, number, thread>>

(* Mutant: Stop takes the pipeline out of the map, which does not grow.    *)
StopForgets(s) ==
  /\ stage[s] = "stopping"
  /\ thread[<<s, kind[s]>>] = "idle"
  /\ element' = [element EXCEPT ![<<s, kind[s]>>] = "stopped"]
  /\ pipelines' = [n \in DOMAIN pipelines \ {number[<<s, kind[s]>>]} |-> pipelines[n]]
  /\ Done(s, "stop", "close")
  /\ UNCHANGED <<number, thread>>

(* Mutant: videoPipeline.Stop() is missing. *)
StopAudioOnly(s) ==
  /\ stage[s] = "stopping"
  /\ thread[<<s, kind[s]>>] = "idle"
  /\ element' = [element EXCEPT ![<<s, kind[s]>>] = "stopped"]
  /\ Done(s, "close", "close")
  /\ UNCHANGED <<pipelines, number, thread>>

(* It returns when the streaming thread is out of its callback. *)
StopEnds(s) ==
  /\ stage[s] = "stopping"
  /\ thread[<<s, kind[s]>>] = "idle"
  /\ element' = [element EXCEPT ![<<s, kind[s]>>] = "stopped"]
  /\ Done(s, "stop", "close")
  /\ UNCHANGED <<pipelines, number, thread>>

(* peerConnection.Close(), runtime.Goexit() *)
ClosePeer(s) ==
  /\ stage[s] = "close"
  /\ stage' = [stage EXCEPT ![s] = "gone"]
  /\ UNCHANGED <<runVars, kind, gstVars>>

SessionStep(s) ==
  \/ CreateBegins(s)
  \/ CreateEnds(s)
  \/ StartPipeline(s)
  \/ StopBegins(s)
  \/ StopEnds(s)
  \/ ClosePeer(s)

-----------------------------------------------------------------------------
(* Streaming threads *)

(* A sample arrives at the appsink of a pipeline that is not being stopped. *)
NewSample(p) ==
  /\ element[p] = "playing"
  /\ thread[p] = "idle"
  /\ ~(stage[p[1]] = "stopping" /\ kind[p[1]] = p[2])
  /\ thread' = [thread EXCEPT ![p] = "sample"]
  /\ UNCHANGED <<runVars, sessionVars, pipelines, element, number>>

(* goHandlePipelineBuffer looks its pipeline up under the lock.  Without   *)
(* one it drops the sample.                                                *)
LookUp(p) ==
  /\ thread[p] = "sample"
  /\ ~Locked
  /\ thread' = [thread EXCEPT ![p] =
                  IF number[p] \in DOMAIN pipelines THEN "write" ELSE "idle"]
  /\ UNCHANGED <<runVars, sessionVars, pipelines, element, number>>

(* t.WriteSample for the pipeline it has found *)
WriteSample(p) ==
  /\ thread[p] = "write"
  /\ thread' = [thread EXCEPT ![p] = "idle"]
  /\ UNCHANGED <<runVars, sessionVars, pipelines, element, number>>

ThreadStep(p) == NewSample(p) \/ LookUp(p) \/ WriteSample(p)

-----------------------------------------------------------------------------
Next ==
  \/ Supervise
  \/ ProcessEnds
  \/ BusError
  \/ \E s \in Session :
       SessionStarts(s) \/ Answered(s) \/ EndSignalled(s) \/ SessionStep(s)
  \/ \E p \in Pipeline : ThreadStep(p)

Spec == Init /\ [][Next]_vars

(* Goroutines, streaming threads and the GLib main loop go on when they    *)
(* can, and sources deliver.  Nobody need answer, ask for a session or end *)
(* the process.                                                            *)
Fairness ==
  /\ \A s \in Session : WF_vars(SessionStep(s)) /\ WF_vars(EndSignalled(s))
  /\ \A p \in Pipeline : WF_vars(ThreadStep(p))
  /\ WF_vars(BusError)

FairSpec == Spec /\ Fairness

-----------------------------------------------------------------------------
(* Every variable has its type, and the numbers in use are 0, 1, ... up to *)
(* the length of the map.                                                  *)
TypeOK ==
  /\ Run!TypeOK
  /\ stage \in [Session -> Stage]
  /\ kind \in [Session -> Kind]
  /\ pipelines \in [0..(Cardinality(DOMAIN pipelines) - 1) -> Pipeline]
  /\ element \in [Pipeline -> {"null", "playing", "failed", "stopped"}]
  /\ number \in [Pipeline -> Nat]
  /\ thread \in [Pipeline -> {"idle", "sample", "write"}]

(* A pipeline's callback finds that pipeline and no other, so no frame     *)
(* reaches a track of another kind or session, however many sessions have  *)
(* made and stopped pipelines meanwhile.  Numbers are the length of the    *)
(* map, so this hangs on no entry ever leaving it                          *)
(* (gst/gstreamer-src/gst.go:85-93, 108-110).                              *)
OwnTracks ==
  \A p \in Playing : number[p] \in DOMAIN pipelines /\ pipelines[number[p]] = p

(* No frame is written to a track of a peer connection that has been       *)
(* closed, which would be a panic (gst.go:116): Stop returns only when the *)
(* callback has, and both Stops come before Close                          *)
(* (rover/service.go:178-180).                                             *)
NoLateWrite ==
  \A p \in Pipeline :
    thread[p] = "write" =>
      LET session == pipelines[number[p]][1] IN stage[session] \notin {"close", "gone"}

(* A session finds the camera taken, which ends the process, only when it  *)
(* was started too soon: while the end signal meant for the other session  *)
(* is unread, or that session is still stopping.  No order of answers and  *)
(* end signals gets two pipelines to want the camera otherwise             *)
(* (rover/service.go:163-178, 372-383).                                    *)
CameraTakenOnlyEarly ==
  [][\A p \in Pipeline :
       element[p] # "failed" /\ element'[p] = "failed" =>
         ending > 0 \/ \E s \in Session : stage[s] \in Ending]_vars

(* A session that has read its end signal stops its pipelines, closes its  *)
(* peer connection and ends.  Stop waits for a streaming thread, and that  *)
(* for pipelinesLock, which another session may hold for as long as a      *)
(* pipeline takes to parse (rover/service.go:176-188, gst.go:79-80, 108).  *)
EndingEnds ==
  \A s \in Session : stage[s] \in Ending ~> stage[s] \in {"gone", "none"}

(* A session that streams for ever writes video for ever, whatever the     *)
(* sessions before and after it do to the map and the lock.                *)
VideoFlows ==
  \A s \in Session :
    <>[](stage[s] = "streaming") => []<>(thread[<<s, "video">>] = "write")

=============================================================================
