------------------------ MODULE MediaPipelinesProofs ------------------------
(***************************************************************************)
(* The pipelines of the rover's sessions, for any number of sessions and   *)
(* any capacity of WebrtcEndSignal.                                        *)
(***************************************************************************)
EXTENDS MediaPipelines, FiniteSetTheorems, TLAPS

-----------------------------------------------------------------------------
(* The map *)

(* pipelines has the numbers 0 .. n - 1. *)
HasLength(n) == pipelines \in [0..(n - 1) -> Pipeline]

LEMMA LengthIs ==
  ASSUME NEW n \in Nat, HasLength(n)
  PROVE  DOMAIN pipelines = 0..(n - 1) /\ Cardinality(DOMAIN pipelines) = n
<1>1. DOMAIN pipelines = 0..(n - 1)
  BY DEF HasLength
<1>2. Cardinality(0..(n - 1)) = n
  BY FS_Interval
<1> QED
  BY <1>1, <1>2

(* The callback of p finds p. *)
Numbered(p) == number[p] \in DOMAIN pipelines /\ pipelines[number[p]] = p

-----------------------------------------------------------------------------
(* The invariant says, stage by stage, which pipelines a session has made  *)
(* and which of them may be playing.                                       *)

Made(p) ==
  LET s == p[1] IN
    \/ stage[s] \in {"start", "streaming", "stop", "stopping"}
    \/ stage[s] = "creating" /\ (p[2] = "audio" \/ kind[s] = "video")
    \/ stage[s] = "create" /\ p[2] = "audio" /\ kind[s] = "video"

MayPlay(p) ==
  LET s == p[1] IN
    \/ stage[s] = "start" /\ p[2] = "audio" /\ kind[s] = "video"
    \/ stage[s] = "streaming"
    \/ stage[s] \in {"stop", "stopping"} /\ (p[2] = "video" \/ kind[s] = "audio")

Types ==
  /\ Run!TypeOK
  /\ stage \in [Session -> Stage]
  /\ kind \in [Session -> Kind]
  /\ \E n \in Nat : HasLength(n)
  /\ element \in [Pipeline -> {"null", "playing", "failed", "stopped"}]
  /\ number \in [Pipeline -> Nat]
  /\ thread \in [Pipeline -> {"idle", "sample", "write"}]

(* What relates a session to its own pipelines. *)
Tracks ==
  /\ \A s \in Session :
       stage[s] \in {"none", "waiting", "streaming", "close", "gone"} => kind[s] = "audio"
  /\ \A p \in Pipeline :
       /\ Made(p) => Numbered(p)
       /\ element[p] = "playing" => MayPlay(p)
       /\ thread[p] # "idle" => element[p] = "playing"

(* What relates the sessions to Run. *)
Counted ==
  /\ IsFiniteSet(Live) /\ live = Cardinality(Live)
  /\ Run!Accounting
  /\ phase = "off" => \A s \in Session : stage[s] = "none"

Inv == Types /\ Tracks /\ Counted

LEMMA PairOf ==
  ASSUME NEW p \in Pipeline
  PROVE  p[1] \in Session /\ p[2] \in Kind /\ p = <<p[1], p[2]>>
  BY DEF Pipeline

(* A process that has just started, whatever became of the last one. *)
LEMMA FreshType ==
  /\ Fresh.stage \in [Session -> Stage] /\ Fresh.kind \in [Session -> Kind]
  /\ Fresh.pipelines \in [0..(0 - 1) -> Pipeline]
  /\ Fresh.element \in [Pipeline -> {"null", "playing", "failed", "stopped"}]
  /\ Fresh.number \in [Pipeline -> Nat]
  /\ Fresh.thread \in [Pipeline -> {"idle", "sample", "write"}]
  /\ \A s \in Session : Fresh.stage[s] = "none" /\ Fresh.kind[s] = "audio"
  /\ \A p \in Pipeline : Fresh.element[p] = "null" /\ Fresh.thread[p] = "idle"
  BY DEF Fresh, Stage, Kind

LEMMA InitInv == Init => Inv
<1> SUFFICES ASSUME Init PROVE Inv
  OBVIOUS
<1>1. MediaInit /\ Run!Init
  BY DEF Init
<1>2. Run!TypeOK
  BY <1>1, MediaAssumption DEF Run!Init, Run!TypeOK, Run!Phase
<1>3. Types
  BY <1>1, <1>2, FreshType DEF MediaInit, Types, HasLength
<1>4. Tracks
  BY <1>1, FreshType, PairOf DEF MediaInit, Tracks, Made
<1>5. Live = {}
  BY <1>1, FreshType DEF MediaInit, Live
<1>6. Counted
  BY <1>1, <1>5, FreshType, FS_EmptySet DEF MediaInit, Counted, Run!Init, Run!Accounting
<1> QED
  BY <1>3, <1>4, <1>6 DEF Inv

-----------------------------------------------------------------------------
(* One part of the invariant after the other *)

(* What Run does keeps types and accounting. *)
LEMMA RunStep ==
  ASSUME Run!TypeOK, Run!Accounting,
         Run!Next \/ UNCHANGED runVars
  PROVE  Run!TypeOK' /\ Run!Accounting'
<1> USE MediaAssumption DEF Run!TypeOK, Run!Phase, Run!Accounting
<1>1. CASE Run!Start
  BY <1>1 DEF Run!Start
<1>2. CASE Run!Spawn
  BY <1>2 DEF Run!Spawn
<1>3. CASE Run!Request
  BY <1>3 DEF Run!Request
<1>4. CASE Run!Signal
  BY <1>4 DEF Run!Signal
<1>5. CASE Run!EndSession
  BY <1>5 DEF Run!EndSession
<1>6. CASE Run!Die
  BY <1>6 DEF Run!Die
<1>7. CASE UNCHANGED runVars
  BY <1>7 DEF runVars
<1> QED
  BY <1>1, <1>2, <1>3, <1>4, <1>5, <1>6, <1>7 DEF Run!Next

-----------------------------------------------------------------------------
(* SessionSupervisor itself *)

(* Accounting is inductive once the types are known. *)
LEMMA RunHolds == Run!Spec => [](Run!TypeOK /\ Run!Accounting)
<1>1. Run!Init => Run!TypeOK /\ Run!Accounting
  BY MediaAssumption DEF Run!Init, Run!TypeOK, Run!Phase, Run!Accounting
<1>2. Run!TypeOK /\ Run!Accounting /\ [Run!Next]_(Run!vars)
        => Run!TypeOK' /\ Run!Accounting'
  BY RunStep DEF Run!vars, runVars
<1> QED
  BY <1>1, <1>2, PTL DEF Run!Spec

(* Tokens stay within the capacity of WebrtcEndSignal. *)
THEOREM TokensFit == Run!Spec => []Run!TypeOK
BY RunHolds, PTL

(* Tokens and sessions of a Run loop never get out of step. *)
THEOREM AccountingHolds == Run!Spec => []Run!Accounting
BY RunHolds, PTL

(* Sessions never pile up beyond the capacity of the end signal and one. *)
THEOREM LiveBounded == Run!Spec => []Run!LiveBound
<1>1. Run!TypeOK /\ Run!Accounting => Run!LiveBound
  BY MediaAssumption DEF Run!TypeOK, Run!Accounting, Run!LiveBound
<1> QED
  BY <1>1, RunHolds, PTL

(* Every step is one of SessionSupervisor's or leaves it alone. *)
LEMMA StepIsRuns ==
  ASSUME [Next]_vars
  PROVE  Run!Next \/ UNCHANGED runVars
<1>1. CASE Supervise
  BY <1>1 DEF Supervise, Run!Next
<1>2. CASE ProcessEnds \/ BusError
  BY <1>2 DEF ProcessEnds, BusError, Run!Next
<1>3. ASSUME NEW s \in Session,
             SessionStarts(s) \/ Answered(s) \/ EndSignalled(s) \/ SessionStep(s)
      PROVE  Run!Next \/ UNCHANGED runVars
  BY <1>3 DEF SessionStarts, Answered, EndSignalled, SessionStep, CreateBegins,
              CreateEnds, StartPipeline, StopBegins, StopEnds, ClosePeer, Done, Run!Next
<1>4. ASSUME NEW p \in Pipeline, ThreadStep(p)
      PROVE  Run!Next \/ UNCHANGED runVars
  BY <1>4 DEF ThreadStep, NewSample, LookUp, WriteSample
<1>5. CASE UNCHANGED vars
  BY <1>5 DEF vars
<1> QED
  BY <1>1, <1>2, <1>3, <1>4, <1>5 DEF Next

LEMMA DoneTypes ==
  ASSUME Types, NEW s \in Session, NEW same \in Stage, NEW next \in Stage,
         Done(s, same, next)
  PROVE  stage' \in [Session -> Stage] /\ kind' \in [Session -> Kind]
  BY DEF Types, Done, Kind

(* A new entry leaves the others as they were and is found by its number. *)
LEMMA CreateAdds ==
  ASSUME Types, NEW s \in Session, CreateBegins(s), NEW n \in Nat, HasLength(n)
  PROVE  LET p == <<s, kind[s]>>
         IN  /\ p \in Pipeline
             /\ HasLength(n + 1)'
             /\ number' = [number EXCEPT ![p] = n]
             /\ n \in DOMAIN pipelines' /\ pipelines'[n] = p
             /\ \A i \in DOMAIN pipelines : i \in DOMAIN pipelines' /\ pipelines'[i] = pipelines[i]
<1> DEFINE p == <<s, kind[s]>>
<1>1. p \in Pipeline
  BY DEF Types, Pipeline
<1>2. Cardinality(DOMAIN pipelines) = n /\ DOMAIN pipelines = 0..(n - 1)
  BY LengthIs
<1>3. /\ pipelines' = [i \in DOMAIN pipelines \cup {n} |-> IF i = n THEN p ELSE pipelines[i]]
      /\ number' = [number EXCEPT ![p] = n]
  BY <1>2 DEF CreateBegins
<1> HIDE DEF p
<1>4. DOMAIN pipelines \cup {n} = 0..((n + 1) - 1) /\ n \notin DOMAIN pipelines
  BY <1>2
<1>5. \A i \in DOMAIN pipelines : pipelines[i] \in Pipeline
  BY DEF HasLength
<1>6. pipelines' \in [0..((n + 1) - 1) -> Pipeline]
  <2>1. pipelines' = [i \in 0..((n + 1) - 1) |-> IF i = n THEN p ELSE pipelines[i]]
    BY <1>3, <1>4
  <2>2. \A i \in 0..((n + 1) - 1) : i # n => i \in DOMAIN pipelines
    BY <1>4
  <2> QED
    BY <1>1, <1>5, <2>1, <2>2
<1> QED
  BY <1>1, <1>3, <1>4, <1>6 DEF HasLength, p

LEMMA TypesStep ==
  ASSUME Inv, [Next]_vars
  PROVE  Types'
<1>1. Run!TypeOK'
  BY StepIsRuns, RunStep DEF Inv, Types, Counted
<1> USE DEF Inv
<1>2. CASE Supervise
  BY <1>1, <1>2 DEF Supervise, sessionVars, gstVars, Types, HasLength
<1>3. CASE ProcessEnds \/ BusError
  <2>1. HasLength(0)'
    BY <1>3, FreshType DEF ProcessEnds, BusError, HasLength
  <2> QED
    BY <1>1, <1>3, <2>1, FreshType DEF ProcessEnds, BusError, Types
<1>4. ASSUME NEW s \in Session, SessionStarts(s) \/ Answered(s) \/ EndSignalled(s)
                                \/ StopBegins(s) \/ ClosePeer(s)
      PROVE  Types'
  <2>1. stage' \in [Session -> Stage] /\ UNCHANGED <<kind, gstVars>>
    BY <1>4 DEF SessionStarts, Answered, EndSignalled, StopBegins, ClosePeer, Types, Stage
  <2> QED
    BY <1>1, <2>1 DEF gstVars, Types, HasLength
<1>5. ASSUME NEW s \in Session, CreateBegins(s)
      PROVE  Types'
  <2>1. stage' \in [Session -> Stage] /\ UNCHANGED <<kind, element, thread>>
    BY <1>5 DEF CreateBegins, Types, Stage
  <2>2. PICK n \in Nat : HasLength(n)
    BY DEF Types
  <2>3. number' \in [Pipeline -> Nat] /\ HasLength(n + 1)'
    BY <1>5, <2>2, CreateAdds DEF Types
  <2> QED
    BY <1>1, <2>1, <2>3 DEF Types
<1>6. ASSUME NEW s \in Session, CreateEnds(s) \/ StartPipeline(s) \/ StopEnds(s)
      PROVE  Types'
  <2>1. stage' \in [Session -> Stage] /\ kind' \in [Session -> Kind]
    BY <1>6, DoneTypes DEF CreateEnds, StartPipeline, StopEnds, Stage
  <2>2. /\ element' \in [Pipeline -> {"null", "playing", "failed", "stopped"}]
        /\ UNCHANGED <<pipelines, number, thread>>
    BY <1>6 DEF CreateEnds, StartPipeline, StopEnds, gstVars, Types
  <2> QED
    BY <1>1, <2>1, <2>2 DEF Types, HasLength
<1>7. ASSUME NEW p \in Pipeline, ThreadStep(p)
      PROVE  Types'
  <2>1. thread' \in [Pipeline -> {"idle", "sample", "write"}]
    BY <1>7 DEF ThreadStep, NewSample, LookUp, WriteSample, Types
  <2>2. UNCHANGED <<stage, kind, pipelines, element, number>>
    BY <1>7 DEF ThreadStep, NewSample, LookUp, WriteSample, sessionVars
  <2> QED
    BY <1>1, <2>1, <2>2 DEF Types, HasLength
<1>8. CASE UNCHANGED vars
  BY <1>1, <1>8 DEF vars, sessionVars, gstVars, Types, HasLength
<1> QED
  BY <1>2, <1>3, <1>4, <1>5, <1>6, <1>7, <1>8 DEF Next, SessionStep

(* A step of s that moves nothing but s, and at most adds to the map,      *)
(* leaves the pipelines of other sessions as they should be.               *)
LEMMA OthersKeep ==
  ASSUME Types, Tracks, NEW s \in Session, NEW p \in Pipeline, p[1] # s,
         \A t \in Session \ {s} : stage'[t] = stage[t] /\ kind'[t] = kind[t],
         element'[p] = element[p], thread'[p] = thread[p], number'[p] = number[p],
         \A i \in DOMAIN pipelines : i \in DOMAIN pipelines' /\ pipelines'[i] = pipelines[i]
  PROVE  /\ (Made(p) => Numbered(p))'
         /\ (element[p] = "playing" => MayPlay(p))'
         /\ (thread[p] # "idle" => element[p] = "playing")'
  BY PairOf DEF Tracks, Made, MayPlay, Numbered

LEMMA TracksStep ==
  ASSUME Inv, [Next]_vars
  PROVE  Tracks'
<1> USE DEF Inv
<1>1. CASE UNCHANGED <<sessionVars, gstVars>>
  BY <1>1 DEF sessionVars, gstVars, Tracks, Made, MayPlay, Numbered
<1>2. CASE ProcessEnds \/ BusError
  BY <1>2, FreshType, PairOf DEF ProcessEnds, BusError, Tracks, Made
<1>3. ASSUME NEW s \in Session, SessionStarts(s) \/ Answered(s) \/ EndSignalled(s)
                                \/ StopBegins(s) \/ ClosePeer(s)
      PROVE  Tracks'
  <2>1. /\ \A t \in Session \ {s} : stage'[t] = stage[t]
        /\ UNCHANGED <<kind, pipelines, element, number, thread>>
    BY <1>3 DEF SessionStarts, Answered, EndSignalled, StopBegins, ClosePeer, Types, gstVars
  <2>2. /\ stage[s] \in {"none", "waiting", "streaming", "stop", "close"}
        /\ stage'[s] = CASE stage[s] = "none"      -> "waiting"
                         [] stage[s] = "waiting"   -> stage'[s]
                         [] stage[s] = "streaming" -> "stop"
                         [] stage[s] = "stop"      -> "stopping"
                         [] stage[s] = "close"     -> "gone"
        /\ stage[s] = "waiting" => stage'[s] \in {"create", "close"}
    BY <1>3 DEF SessionStarts, Answered, EndSignalled, StopBegins, ClosePeer, Types
  <2>3. \A t \in Session :
          stage'[t] \in {"none", "waiting", "streaming", "close", "gone"} => kind'[t] = "audio"
    BY <2>1, <2>2 DEF Tracks
  <2>4. ASSUME NEW p \in Pipeline
        PROVE  /\ (Made(p) => Numbered(p))'
               /\ (element[p] = "playing" => MayPlay(p))'
               /\ (thread[p] # "idle" => element[p] = "playing")'
    <3>1. CASE p[1] # s
      BY <2>1, <3>1, OthersKeep
    <3>2. CASE p[1] = s
      BY <2>1, <2>2, <3>2, PairOf DEF Tracks, Made, MayPlay, Numbered, Kind
    <3> QED
      BY <3>1, <3>2
  <2> QED
    BY <2>3, <2>4 DEF Tracks
<1>4. ASSUME NEW s \in Session, CreateBegins(s)
      PROVE  Tracks'
  <2>1. PICK n \in Nat : HasLength(n)
    BY DEF Types
  <2> DEFINE own == <<s, kind[s]>>
  <2>2. /\ own \in Pipeline
        /\ number' = [number EXCEPT ![own] = n]
        /\ n \in DOMAIN pipelines' /\ pipelines'[n] = own
        /\ \A i \in DOMAIN pipelines : i \in DOMAIN pipelines' /\ pipelines'[i] = pipelines[i]
    BY <1>4, <2>1, CreateAdds
  <2>3. /\ stage[s] = "create" /\ stage' = [stage EXCEPT ![s] = "creating"]
        /\ UNCHANGED <<kind, element, thread>>
    BY <1>4 DEF CreateBegins
  <2>4. \A t \in Session :
          stage'[t] \in {"none", "waiting", "streaming", "close", "gone"} => kind'[t] = "audio"
    BY <2>3 DEF Tracks, Types
  <2>5. ASSUME NEW p \in Pipeline
        PROVE  /\ (Made(p) => Numbered(p))'
               /\ (element[p] = "playing" => MayPlay(p))'
               /\ (thread[p] # "idle" => element[p] = "playing")'
    <3>1. CASE p[1] # s
      <4>1. number'[p] = number[p]
        BY <2>2, <3>1 DEF Types
      <4>2. \A t \in Session \ {s} : stage'[t] = stage[t] /\ kind'[t] = kind[t]
        BY <2>3 DEF Types
      <4> QED
        BY <2>2, <2>3, <3>1, <4>1, <4>2, OthersKeep
    <3>2. CASE p = own
      <4>1. number'[p] = n
        BY <2>2, <3>2 DEF Types
      <4>2. Numbered(p)'
        BY <2>2, <3>2, <4>1 DEF Numbered
      <4> QED
        BY <2>3, <3>2, <4>2 DEF Tracks, MayPlay, Types
    <3>3. CASE p[1] = s /\ p # own
      <4>1. number'[p] = number[p]
        BY <2>2, <3>3 DEF Types
      <4>2. p[2] # kind[s] /\ p[2] \in Kind /\ kind[s] \in Kind
        BY <3>3, PairOf DEF Types
      <4>3. Made(p)' => Made(p)
        BY <2>3, <3>3, <4>2 DEF Made, Types, Kind
      <4>4. Numbered(p) => Numbered(p)'
        BY <2>2, <4>1 DEF Numbered
      <4>5. element[p] # "playing"
        BY <2>3, <3>3 DEF Tracks, MayPlay
      <4> QED
        BY <2>3, <4>3, <4>4, <4>5 DEF Tracks
    <3> QED
      BY <3>1, <3>2, <3>3
  <2> QED
    BY <2>4, <2>5 DEF Tracks
<1>5. ASSUME NEW s \in Session, CreateEnds(s) \/ StartPipeline(s) \/ StopEnds(s)
      PROVE  Tracks'
  <2> DEFINE own == <<s, kind[s]>>
  <2>1. /\ \A t \in Session \ {s} : stage'[t] = stage[t] /\ kind'[t] = kind[t]
        /\ UNCHANGED <<pipelines, number, thread>>
        /\ \A p \in Pipeline : p # own => element'[p] = element[p]
        /\ own \in Pipeline
    BY <1>5 DEF CreateEnds, StartPipeline, StopEnds, Done, Types, gstVars, Pipeline
  <2>2. /\ stage[s] = "creating" => /\ element'[own] = element[own]
                                    /\ kind[s] = "audio" => stage'[s] = "create"
                                    /\ kind[s] # "audio" => stage'[s] = "start"
        /\ stage[s] = "start" => /\ kind[s] = "audio" => stage'[s] = "start"
                                 /\ kind[s] # "audio" => stage'[s] = "streaming"
        /\ stage[s] = "stopping" => /\ element'[own] = "stopped" /\ thread[own] = "idle"
                                    /\ kind[s] = "audio" => stage'[s] = "stop"
                                    /\ kind[s] # "audio" => stage'[s] = "close"
        /\ stage[s] \in {"creating", "start", "stopping"}
    BY <1>5, <2>1 DEF CreateEnds, StartPipeline, StopEnds, Done, Types, gstVars
  <2>3. kind[s] \in Kind /\ kind'[s] = (IF kind[s] = "audio" THEN "video" ELSE "audio")
    BY <1>5 DEF CreateEnds, StartPipeline, StopEnds, Done, Types
  <2>4. \A t \in Session :
          stage'[t] \in {"none", "waiting", "streaming", "close", "gone"} => kind'[t] = "audio"
    BY <2>1, <2>2, <2>3 DEF Tracks
  <2>5. ASSUME NEW p \in Pipeline
        PROVE  /\ (Made(p) => Numbered(p))'
               /\ (element[p] = "playing" => MayPlay(p))'
               /\ (thread[p] # "idle" => element[p] = "playing")'
    <3>1. CASE p[1] # s
      <4>1. p # own
        BY <3>1
      <4> QED
        BY <2>1, <3>1, <4>1, OthersKeep
    <3>2. CASE p[1] = s
      <4>1. p[2] \in Kind /\ (p = own <=> p[2] = kind[s])
        BY <3>2, PairOf
      <4>2. (Made(p) => Numbered(p))'
        BY <2>1, <2>2, <2>3, <3>2, <4>1 DEF Tracks, Made, Numbered, Kind
      <4>3. (element[p] = "playing" => MayPlay(p))'
        BY <2>1, <2>2, <2>3, <3>2, <4>1 DEF Tracks, MayPlay, Kind
      <4>4. (thread[p] # "idle" => element[p] = "playing")'
        BY <2>1, <2>2, <3>2, <4>1 DEF Tracks, MayPlay, Kind
      <4> QED
        BY <4>2, <4>3, <4>4
    <3> QED
      BY <3>1, <3>2
  <2> QED
    BY <2>4, <2>5 DEF Tracks
<1>6. ASSUME NEW p \in Pipeline, ThreadStep(p)
      PROVE  Tracks'
  <2>1. /\ UNCHANGED <<stage, kind, pipelines, element, number>>
        /\ \A q \in Pipeline : thread'[q] # thread[q] => q = p
        /\ element[p] = "playing"
    BY <1>6 DEF ThreadStep, NewSample, LookUp, WriteSample, sessionVars, Types, Tracks
  <2> QED
    BY <2>1 DEF Tracks, Made, MayPlay, Numbered
<1> QED
  BY <1>1, <1>2, <1>3, <1>4, <1>5, <1>6 DEF Next, SessionStep, Supervise, vars, sessionVars, gstVars

(* The stages in which a session counts as live. *)
LiveStage == Stage \ (Ending \cup {"none", "gone"})

LEMMA CountedStep ==
  ASSUME Inv, [Next]_vars
  PROVE  Counted'
<1> USE DEF Inv
<1>1. Run!Accounting'
  BY StepIsRuns, RunStep DEF Types, Counted
<1>2. \A s \in Session : stage[s] \in Stage
  BY DEF Types
<1>3. CASE UNCHANGED <<live, stage>> /\ (phase' = "off" => phase = "off" \/ \A s \in Session : stage[s] = "none")
  BY <1>1, <1>3 DEF Counted, Live
<1>4. CASE Supervise
  <2>1. UNCHANGED <<live, stage>> /\ phase' # "off"
    BY <1>4 DEF Supervise, Run!Start, Run!Request, Run!Signal, sessionVars
  <2> QED
    BY <1>3, <2>1
<1>5. CASE ProcessEnds \/ BusError
  <2>1. live' = 0 /\ stage' = Fresh.stage
    BY <1>5 DEF ProcessEnds, BusError, Run!Die
  <2>2. Live' = {}
    BY <2>1, FreshType DEF Live
  <2> QED
    BY <1>1, <2>1, <2>2, FreshType, FS_EmptySet DEF Counted
<1>6. ASSUME NEW s \in Session, SessionStarts(s)
      PROVE  Counted'
  <2>1. /\ stage[s] = "none" /\ stage' = [stage EXCEPT ![s] = "waiting"]
        /\ live' = live + 1 /\ phase' # "off"
    BY <1>6 DEF SessionStarts, Run!Spawn
  <2>2. s \notin Live /\ Live' = Live \cup {s}
    BY <1>2, <2>1 DEF Live, Ending, Types
  <2> QED
    BY <1>1, <2>1, <2>2, FS_AddElement DEF Counted
<1>7. ASSUME NEW s \in Session, EndSignalled(s)
      PROVE  Counted'
  <2>1. /\ stage[s] \in {"waiting", "streaming"}
        /\ \/ stage' = [stage EXCEPT ![s] = "close"]
           \/ stage' = [stage EXCEPT ![s] = "stop"]
        /\ live' = live - 1 /\ phase' = phase
    BY <1>7 DEF EndSignalled, Run!EndSession
  <2>2. s \in Live /\ Live' = Live \ {s}
    BY <1>2, <2>1 DEF Live, Ending, Types
  <2>3. phase' # "off"
    BY <2>1 DEF Counted
  <2>4. Live \ {s} \subseteq Live
    OBVIOUS
  <2> QED
    BY <1>1, <2>1, <2>2, <2>3, FS_RemoveElement, FS_CardinalityType DEF Counted
<1>8. ASSUME NEW s \in Session, Answered(s) \/ SessionStep(s)
      PROVE  Counted'
  <2>1. /\ UNCHANGED runVars
        /\ \A t \in Session \ {s} : stage'[t] = stage[t]
        /\ \/ stage[s] \in LiveStage /\ stage'[s] \in LiveStage
           \/ stage[s] \in Ending /\ stage'[s] \in Ending \cup {"gone"}
    BY <1>8 DEF Answered, SessionStep, CreateBegins, CreateEnds, StartPipeline, StopBegins,
                StopEnds, ClosePeer, Done, Types, LiveStage, Stage, Ending
  <2>2. Live' = Live
    BY <1>2, <2>1 DEF Live, LiveStage, Ending
  <2>3. phase' # "off"
    BY <2>1 DEF Counted, runVars, LiveStage, Ending
  <2> QED
    BY <1>1, <2>1, <2>2, <2>3 DEF Counted, runVars
<1>9. ASSUME NEW p \in Pipeline, ThreadStep(p)
      PROVE  Counted'
  BY <1>3, <1>9 DEF ThreadStep, NewSample, LookUp, WriteSample, sessionVars, runVars
<1>10. CASE UNCHANGED vars
  BY <1>3, <1>10 DEF vars, runVars, sessionVars
<1> QED
  BY <1>4, <1>5, <1>6, <1>7, <1>8, <1>9, <1>10 DEF Next

LEMMA InvariantHolds == Spec => []Inv
<1>1. Inv /\ [Next]_vars => Inv'
  BY TypesStep, TracksStep, CountedStep DEF Inv
<1> QED
  BY <1>1, InitInv, PTL DEF Spec

-----------------------------------------------------------------------------
(* What holds of every run *)

(* Every variable keeps its type; the numbers in use are 0, 1, ... up to   *)
(* the length of the map, because none is ever given up (gst.go:85-93).    *)
THEOREM TypeCorrect == Spec => []TypeOK
<1>1. ASSUME Inv PROVE TypeOK
  <2>1. PICK n \in Nat : HasLength(n)
    BY <1>1 DEF Inv, Types
  <2>2. pipelines \in [0..(Cardinality(DOMAIN pipelines) - 1) -> Pipeline]
    BY <2>1, LengthIs DEF HasLength
  <2> QED
    BY <1>1, <2>2 DEF Inv, Types, TypeOK
<1> QED
  BY <1>1, InvariantHolds, PTL

(* A streaming thread's callback finds its own pipeline, for any number of *)
(* sessions (gst.go:85-93, 108-110).                                       *)
THEOREM OwnTracksHold == Spec => []OwnTracks
<1>1. ASSUME Inv PROVE OwnTracks
  <2>1. ASSUME NEW p \in Playing PROVE Numbered(p)
    <3>1. p \in Pipeline /\ element[p] = "playing"
      BY DEF Playing
    <3>2. Made(p)
      BY <1>1, <3>1 DEF Inv, Tracks, MayPlay, Made
    <3> QED
      BY <1>1, <3>1, <3>2 DEF Inv, Tracks
  <2> QED
    BY <2>1 DEF OwnTracks, Numbered
<1> QED
  BY <1>1, InvariantHolds, PTL

(* No frame is written to a closed peer connection's track                 *)
(* (rover/service.go:178-180, gst.go:113-116).                             *)
THEOREM NoLateWrites == Spec => []NoLateWrite
<1>1. ASSUME Inv PROVE NoLateWrite
  <2>1. ASSUME NEW p \in Pipeline, thread[p] = "write"
        PROVE  stage[pipelines[number[p]][1]] \notin {"close", "gone"}
    <3>1. element[p] = "playing" /\ MayPlay(p)
      BY <1>1, <2>1 DEF Inv, Tracks
    <3>2. Made(p) /\ stage[p[1]] \notin {"close", "gone"}
      BY <3>1 DEF MayPlay, Made
    <3>3. pipelines[number[p]] = p
      BY <1>1, <3>2 DEF Inv, Tracks, Numbered
    <3> QED
      BY <3>2, <3>3
  <2> QED
    BY <2>1 DEF NoLateWrite
<1> QED
  BY <1>1, InvariantHolds, PTL

(* Two pipelines want the camera only while an end signal is unread or a   *)
(* session is still stopping (rover/service.go:163-178, 372-383).          *)
THEOREM CameraTakenOnlyEarlyHolds == Spec => CameraTakenOnlyEarly
<1> DEFINE Early == \A p \in Pipeline :
             element[p] # "failed" /\ element'[p] = "failed" =>
               ending > 0 \/ \E s \in Session : stage[s] \in Ending
<1>1. Inv /\ [Next]_vars => [Early]_vars
  <2> SUFFICES ASSUME Inv, [Next]_vars, NEW p \in Pipeline,
                      element[p] # "failed", element'[p] = "failed"
               PROVE  ending > 0 \/ \E s \in Session : stage[s] \in Ending
    OBVIOUS
  <2>1. PICK s \in Session : StartPipeline(s)
    <3>1. element' # element
      OBVIOUS
    <3>2. ~(ProcessEnds \/ BusError)
      BY FreshType DEF ProcessEnds, BusError
    <3>3. ~(Supervise \/ UNCHANGED vars)
      BY <3>1 DEF Supervise, gstVars, vars
    <3>4. \A t \in Session :
            ~(SessionStarts(t) \/ Answered(t) \/ EndSignalled(t) \/ CreateBegins(t)
               \/ CreateEnds(t) \/ StopBegins(t) \/ ClosePeer(t))
      BY <3>1 DEF SessionStarts, Answered, EndSignalled, CreateBegins, CreateEnds,
                  StopBegins, ClosePeer, gstVars
    <3>5. \A t \in Session : ~StopEnds(t)
      BY DEF StopEnds, Inv, Types
    <3>6. \A t \in Pipeline : ~ThreadStep(t)
      BY <3>1 DEF ThreadStep, NewSample, LookUp, WriteSample
    <3> QED
      BY <3>2, <3>3, <3>4, <3>5, <3>6 DEF Next, SessionStep
  <2>2. PICK q \in Playing : q[2] = "video" /\ p = <<s, "video">> /\ kind[s] = "video"
    BY <2>1 DEF StartPipeline, Inv, Types
  <2>3. q \in Pipeline /\ element[q] = "playing" /\ q[1] \in Session
    BY PairOf DEF Playing
  <2>4. stage[q[1]] \in {"streaming", "stop", "stopping"}
    BY <2>2, <2>3 DEF Inv, Tracks, MayPlay
  <2>5. CASE stage[q[1]] = "streaming"
    <3>1. stage[s] = "start"
      BY <2>1 DEF StartPipeline
    <3>2. {s, q[1]} \subseteq Live /\ s # q[1]
      BY <2>3, <2>5, <3>1 DEF Live, Ending
    <3>3. Cardinality({s, q[1]}) = 2
      <4>1. {s, q[1]} = {s} \cup {q[1]} /\ q[1] \notin {s}
        BY <3>2
      <4>2. IsFiniteSet({s}) /\ Cardinality({s}) = 1
        BY FS_Singleton
      <4> DEFINE one == {s}
      <4>3. \A x : x \notin one => Cardinality(one \cup {x}) = Cardinality(one) + 1
        BY <4>2, FS_AddElement
      <4>4. Cardinality(one \cup {q[1]}) = 2
        BY <4>1, <4>2, <4>3
      <4> QED
        BY <4>1, <4>4
    <3>4. live >= 2
      BY <3>2, <3>3, FS_Subset, FS_CardinalityType DEF Inv, Counted
    <3> QED
      BY <3>4 DEF Inv, Counted, Types, Run!Accounting, Run!TypeOK
  <2>6. CASE stage[q[1]] # "streaming"
    BY <2>3, <2>4, <2>6 DEF Ending
  <2> QED
    BY <2>5, <2>6
<1> QED
  BY <1>1, InvariantHolds, PTL DEF Spec, CameraTakenOnlyEarly

(* What the pipelines add leaves the promise of the Run loop as it is: a   *)
(* session counts as ended when it has read its signal, whatever it has    *)
(* still to stop (rover/service.go:353-385).                               *)
THEOREM MediaIsSupervised == Spec => Run!Spec
<1>1. Init => Run!Init
  BY DEF Init
<1>2. [Next]_vars => [Run!Next]_(Run!vars)
  BY StepIsRuns DEF runVars, Run!vars
<1> QED
  BY <1>1, <1>2, PTL DEF Spec, Run!Spec

=============================================================================
