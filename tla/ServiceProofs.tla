--------------------------- MODULE ServiceProofs ---------------------------
(***************************************************************************)
(* What one step of a rover or of a controller does, whatever surrounds    *)
(* the process: channel operations, a vocabulary of effects on sessions    *)
(* under which Balanced is preserved, and for each action of BaseService,  *)
(* RoverService and ControllerService the effect it has; and what a step   *)
(* of the relay does to the types.                                         *)
(***************************************************************************)
EXTENDS RoverService, ControllerService, RelayServer, FiniteSetTheorems, TLAPS

(***************************************************************************)
(* Channels.                                                               *)
(***************************************************************************)
LEMMA ChanAppend ==
  ASSUME NEW S, NEW q \in Chan(S), NEW x \in S, Len(q) < ChanCap
  PROVE  /\ Append(q, x) \in Chan(S)
         /\ Len(Append(q, x)) = Len(q) + 1
BY DEF Chan, ChanCap

LEMMA ChanTail ==
  ASSUME NEW S, NEW q \in Chan(S), q # <<>>
  PROVE  /\ Head(q) \in S
         /\ Tail(q) \in Chan(S)
         /\ Len(q) = Len(Tail(q)) + 1
BY DEF Chan, ChanCap

LEMMA NoChansType == NoChans \in Chans
BY DEF NoChans, Chans, Chan, ChanCap

LEMMA SendType ==
  ASSUME chans \in [Client -> Chans], NEW c \in Client, NEW x
  PROVE  /\ ChanSend(c, "SendCh", x) /\ x \in SDP
              => /\ chans' \in [Client -> Chans]
                 /\ \A d \in Client : chans'[d].WebrtcEndSignal = chans[d].WebrtcEndSignal
         /\ ChanSend(c, "RemoteSDPCh", x) /\ x \in SDP
              => /\ chans' \in [Client -> Chans]
                 /\ \A d \in Client : chans'[d].WebrtcEndSignal = chans[d].WebrtcEndSignal
         /\ ChanSend(c, "SDPReqCh", x) /\ x = TRUE
              => /\ chans' \in [Client -> Chans]
                 /\ \A d \in Client : chans'[d].WebrtcEndSignal = chans[d].WebrtcEndSignal
         /\ ChanSend(c, "WebrtcEndSignal", x) /\ x = TRUE
              => /\ chans' \in [Client -> Chans]
                 /\ Len(chans[c].WebrtcEndSignal) < ChanCap
                 /\ Len(chans'[c].WebrtcEndSignal) = Len(chans[c].WebrtcEndSignal) + 1
                 /\ \A d \in Client \ {c} : chans'[d].WebrtcEndSignal = chans[d].WebrtcEndSignal
<1>0. chans[c] \in Chans
  OBVIOUS
<1>1. ASSUME ChanSend(c, "SendCh", x), x \in SDP
      PROVE  /\ chans' \in [Client -> Chans]
             /\ \A d \in Client : chans'[d].WebrtcEndSignal = chans[d].WebrtcEndSignal
  <2>1. Append(chans[c].SendCh, x) \in Chan(SDP)
    BY <1>0, <1>1, ChanAppend DEF ChanSend, Chans
  <2> QED
    BY <1>0, <1>1, <2>1 DEF ChanSend, Chans
<1>2. ASSUME ChanSend(c, "RemoteSDPCh", x), x \in SDP
      PROVE  /\ chans' \in [Client -> Chans]
             /\ \A d \in Client : chans'[d].WebrtcEndSignal = chans[d].WebrtcEndSignal
  <2>1. Append(chans[c].RemoteSDPCh, x) \in Chan(SDP)
    BY <1>0, <1>2, ChanAppend DEF ChanSend, Chans
  <2> QED
    BY <1>0, <1>2, <2>1 DEF ChanSend, Chans
<1>3. ASSUME ChanSend(c, "SDPReqCh", x), x = TRUE
      PROVE  /\ chans' \in [Client -> Chans]
             /\ \A d \in Client : chans'[d].WebrtcEndSignal = chans[d].WebrtcEndSignal
  <2>1. Append(chans[c].SDPReqCh, x) \in Chan({TRUE})
    BY <1>0, <1>3, ChanAppend DEF ChanSend, Chans
  <2> QED
    BY <1>0, <1>3, <2>1 DEF ChanSend, Chans
<1>4. ASSUME ChanSend(c, "WebrtcEndSignal", x), x = TRUE
      PROVE  /\ chans' \in [Client -> Chans]
             /\ Len(chans[c].WebrtcEndSignal) < ChanCap
             /\ Len(chans'[c].WebrtcEndSignal) = Len(chans[c].WebrtcEndSignal) + 1
             /\ \A d \in Client \ {c} : chans'[d].WebrtcEndSignal = chans[d].WebrtcEndSignal
  <2>1. /\ Append(chans[c].WebrtcEndSignal, x) \in Chan({TRUE})
        /\ Len(Append(chans[c].WebrtcEndSignal, x)) = Len(chans[c].WebrtcEndSignal) + 1
    BY <1>0, <1>4, ChanAppend DEF ChanSend, Chans
  <2> QED
    BY <1>0, <1>4, <2>1 DEF ChanSend, Chans
<1> QED
  BY <1>1, <1>2, <1>3, <1>4

LEMMA RecvType ==
  ASSUME chans \in [Client -> Chans], NEW c \in Client
  PROVE  /\ ChanRecv(c, "SendCh")
              => /\ chans' \in [Client -> Chans]
                 /\ Head(chans[c].SendCh) \in SDP
                 /\ \A d \in Client : chans'[d].WebrtcEndSignal = chans[d].WebrtcEndSignal
         /\ ChanRecv(c, "RemoteSDPCh")
              => /\ chans' \in [Client -> Chans]
                 /\ Head(chans[c].RemoteSDPCh) \in SDP
                 /\ \A d \in Client : chans'[d].WebrtcEndSignal = chans[d].WebrtcEndSignal
         /\ ChanRecv(c, "SDPReqCh")
              => /\ chans' \in [Client -> Chans]
                 /\ \A d \in Client : chans'[d].WebrtcEndSignal = chans[d].WebrtcEndSignal
         /\ ChanRecv(c, "WebrtcEndSignal")
              => /\ chans' \in [Client -> Chans]
                 /\ Len(chans[c].WebrtcEndSignal) = Len(chans'[c].WebrtcEndSignal) + 1
                 /\ \A d \in Client \ {c} : chans'[d].WebrtcEndSignal = chans[d].WebrtcEndSignal
<1>0. chans[c] \in Chans
  OBVIOUS
<1>1. ASSUME ChanRecv(c, "SendCh")
      PROVE  /\ chans' \in [Client -> Chans]
             /\ Head(chans[c].SendCh) \in SDP
             /\ \A d \in Client : chans'[d].WebrtcEndSignal = chans[d].WebrtcEndSignal
  <2>1. Tail(chans[c].SendCh) \in Chan(SDP) /\ Head(chans[c].SendCh) \in SDP
    BY <1>0, <1>1, ChanTail DEF ChanRecv, Chans
  <2> QED
    BY <1>0, <1>1, <2>1 DEF ChanRecv, Chans
<1>2. ASSUME ChanRecv(c, "RemoteSDPCh")
      PROVE  /\ chans' \in [Client -> Chans]
             /\ Head(chans[c].RemoteSDPCh) \in SDP
             /\ \A d \in Client : chans'[d].WebrtcEndSignal = chans[d].WebrtcEndSignal
  <2>1. Tail(chans[c].RemoteSDPCh) \in Chan(SDP) /\ Head(chans[c].RemoteSDPCh) \in SDP
    BY <1>0, <1>2, ChanTail DEF ChanRecv, Chans
  <2> QED
    BY <1>0, <1>2, <2>1 DEF ChanRecv, Chans
<1>3. ASSUME ChanRecv(c, "SDPReqCh")
      PROVE  /\ chans' \in [Client -> Chans]
             /\ \A d \in Client : chans'[d].WebrtcEndSignal = chans[d].WebrtcEndSignal
  <2>1. Tail(chans[c].SDPReqCh) \in Chan({TRUE})
    BY <1>0, <1>3, ChanTail DEF ChanRecv, Chans
  <2> QED
    BY <1>0, <1>3, <2>1 DEF ChanRecv, Chans
<1>4. ASSUME ChanRecv(c, "WebrtcEndSignal")
      PROVE  /\ chans' \in [Client -> Chans]
             /\ Len(chans[c].WebrtcEndSignal) = Len(chans'[c].WebrtcEndSignal) + 1
             /\ \A d \in Client \ {c} : chans'[d].WebrtcEndSignal = chans[d].WebrtcEndSignal
  <2>1. /\ Tail(chans[c].WebrtcEndSignal) \in Chan({TRUE})
        /\ Len(chans[c].WebrtcEndSignal) = Len(Tail(chans[c].WebrtcEndSignal)) + 1
    BY <1>0, <1>4, ChanTail DEF ChanRecv, Chans
  <2> QED
    BY <1>0, <1>4, <2>1 DEF ChanRecv, Chans
<1> QED
  BY <1>1, <1>2, <1>3, <1>4

(* What is done to one channel is done to no other. *)
LEMMA RecvPlaces ==
  ASSUME chans \in [Client -> Chans], NEW c \in Client
  PROVE  /\ \A ch \in {"SendCh", "RemoteSDPCh", "SDPReqCh", "WebrtcEndSignal"} :
              ChanRecv(c, ch) => \A e \in Client \ {c} : chans'[e] = chans[e]
         /\ ChanRecv(c, "SendCh")
              => /\ chans[c].SendCh # <<>> /\ chans'[c].SendCh = Tail(chans[c].SendCh)
                 /\ chans'[c].RemoteSDPCh = chans[c].RemoteSDPCh
         /\ ChanRecv(c, "RemoteSDPCh")
              => /\ chans[c].RemoteSDPCh # <<>> /\ chans'[c].RemoteSDPCh = Tail(chans[c].RemoteSDPCh)
                 /\ chans'[c].SendCh = chans[c].SendCh
         /\ ChanRecv(c, "SDPReqCh") \/ ChanRecv(c, "WebrtcEndSignal")
              => /\ chans'[c].RemoteSDPCh = chans[c].RemoteSDPCh
                 /\ chans'[c].SendCh = chans[c].SendCh
BY DEF ChanRecv, Chans

LEMMA SendPlaces ==
  ASSUME chans \in [Client -> Chans], NEW c \in Client, NEW x
  PROVE  /\ \A ch \in {"SendCh", "RemoteSDPCh", "SDPReqCh", "WebrtcEndSignal"} :
              ChanSend(c, ch, x) => \A e \in Client \ {c} : chans'[e] = chans[e]
         /\ ChanSend(c, "SendCh", x)
              => /\ chans'[c].SendCh = Append(chans[c].SendCh, x)
                 /\ chans'[c].RemoteSDPCh = chans[c].RemoteSDPCh
         /\ ChanSend(c, "RemoteSDPCh", x)
              => /\ chans'[c].RemoteSDPCh = Append(chans[c].RemoteSDPCh, x)
                 /\ chans'[c].SendCh = chans[c].SendCh
         /\ ChanSend(c, "SDPReqCh", x) \/ ChanSend(c, "WebrtcEndSignal", x)
              => /\ chans'[c].RemoteSDPCh = chans[c].RemoteSDPCh
                 /\ chans'[c].SendCh = chans[c].SendCh
BY DEF ChanSend, Chans

(***************************************************************************)
(* Effects on the sessions of one process.                                 *)
(***************************************************************************)
Live(c) == Cardinality(LiveSessions(c))

(* The stages of a session that has read its end signal. *)
Over == {"closing", "closed"}

Ending(c) == Len(chans[c].WebrtcEndSignal)

(* A process has a Run loop exactly while it is up, and nothing of a       *)
(* session otherwise.                                                      *)
WellFormed(c) ==
  IF proc[c] = "up"
  THEN run[c].pc # "off"
  ELSE run[c].pc = "off" /\ sess[c] = <<>> /\ chans[c].WebrtcEndSignal = <<>>

(* Nothing that Balanced looks at changes in d. *)
Same(d) ==
  /\ proc'[d] = proc[d]
  /\ run'[d] = run[d]
  /\ sess'[d] = sess[d]
  /\ chans'[d].WebrtcEndSignal = chans[d].WebrtcEndSignal

Calm(c) ==
  /\ proc[c] = "up" /\ proc'[c] = "up"
  /\ run'[c].pc = run[c].pc
  /\ Live(c)' = Live(c)
  /\ Ending(c)' = Ending(c)

Starts(c) ==
  /\ proc[c] = "off" /\ proc'[c] = "up"
  /\ run'[c].pc = "spawn"
  /\ Live(c)' = Live(c)
  /\ Ending(c)' = Ending(c)

Spawns(c) ==
  /\ proc'[c] = "up"
  /\ run[c].pc = "spawn" /\ run'[c].pc \in {"select", "mainloop"}
  /\ Live(c)' = Live(c) + 1
  /\ Ending(c)' = Ending(c)

Asks(c) ==
  /\ proc'[c] = "up"
  /\ run[c].pc = "select" /\ run'[c].pc = "signal"
  /\ Live(c)' = Live(c)
  /\ Ending(c)' = Ending(c)

Signals(c) ==
  /\ proc'[c] = "up"
  /\ run[c].pc = "signal" /\ run'[c].pc \in {"putback", "spawn"}
  /\ Ending(c) < ChanCap
  /\ Live(c)' = Live(c)
  /\ Ending(c)' = Ending(c) + 1

PutsBack(c) ==
  /\ proc'[c] = "up"
  /\ run[c].pc = "putback" /\ run'[c].pc = "spawn"
  /\ Live(c)' = Live(c)
  /\ Ending(c)' = Ending(c)

Ends(c) ==
  /\ proc[c] = "up" /\ proc'[c] = "up"
  /\ run'[c].pc = run[c].pc
  /\ Live(c) > 0 /\ Live(c)' = Live(c) - 1
  /\ Ending(c) > 0 /\ Ending(c)' = Ending(c) - 1

Dies(c) ==
  /\ proc[c] = "up" /\ proc'[c] = "down"
  /\ run'[c].pc = "off" /\ sess'[c] = <<>> /\ chans'[c].WebrtcEndSignal = <<>>

Effect(c) ==
  \/ Same(c) \/ Calm(c) \/ Starts(c) \/ Spawns(c) \/ Asks(c)
  \/ Signals(c) \/ PutsBack(c) \/ Ends(c) \/ Dies(c)

(***************************************************************************)
(* Counting sessions.                                                      *)
(***************************************************************************)
LEMMA LiveFinite ==
  ASSUME sess \in [Client -> Seq(SessionState)], NEW c \in Client
  PROVE  IsFiniteSet(LiveSessions(c)) /\ Live(c) \in Nat
<1>1. DOMAIN sess[c] = 1..Len(sess[c]) /\ Len(sess[c]) \in Nat
  OBVIOUS
<1>2. IsFiniteSet(1..Len(sess[c]))
  BY <1>1, FS_Interval
<1>3. LiveSessions(c) \subseteq 1..Len(sess[c])
  BY <1>1 DEF LiveSessions
<1> QED
  BY <1>2, <1>3, FS_Subset, FS_CardinalityType DEF Live

LEMMA LiveNone ==
  ASSUME NEW c \in Client, sess[c] = <<>>
  PROVE  Live(c) = 0
<1>1. LiveSessions(c) = {}
  BY DEF LiveSessions
<1> QED
  BY <1>1, FS_EmptySet DEF Live

LEMMA SameLive ==
  ASSUME NEW d \in Client, sess'[d] = sess[d]
  PROVE  Live(d)' = Live(d)
BY DEF Live, LiveSessions

LEMMA SpawnLive ==
  ASSUME sess \in [Client -> Seq(SessionState)], NEW c \in Client, NEW stage \in Stage,
         stage \notin Over,
         sess' = [sess EXCEPT ![c] = Append(@, NewSession(stage))]
  PROVE  /\ sess' \in [Client -> Seq(SessionState)]
         /\ Live(c)' = Live(c) + 1
<1> DEFINE n == Len(sess[c]) + 1
<1>1. sess[c] \in Seq(SessionState) /\ n \in Nat
  OBVIOUS
<1>2. NewSession(stage) \in SessionState
  BY DEF NewSession, SessionState
<1>3. sess' \in [Client -> Seq(SessionState)]
  BY <1>1, <1>2
<1>4. sess'[c] = Append(sess[c], NewSession(stage))
  BY <1>1
<1>5. /\ DOMAIN sess'[c] = (DOMAIN sess[c]) \cup {n}
      /\ n \notin DOMAIN sess[c]
      /\ sess'[c][n] = NewSession(stage)
      /\ \A s \in DOMAIN sess[c] : sess'[c][s] = sess[c][s]
  BY <1>1, <1>2, <1>4
<1>6. LiveSessions(c)' = LiveSessions(c) \cup {n} /\ n \notin LiveSessions(c)
  BY <1>5 DEF LiveSessions, NewSession, Over
<1> QED
  BY <1>3, <1>6, LiveFinite, FS_AddElement DEF Live

(* A session changes to e. *)
LEMMA UpdateLive ==
  ASSUME sess \in [Client -> Seq(SessionState)], NEW c \in Client,
         NEW s \in LiveSessions(c), NEW e \in SessionState,
         sess' = [sess EXCEPT ![c] = [@ EXCEPT ![s] = e]]
  PROVE  /\ sess' \in [Client -> Seq(SessionState)]
         /\ e.stage \notin Over => Live(c)' = Live(c)
         /\ e.stage \in Over => Live(c) > 0 /\ Live(c)' = Live(c) - 1
<1>1. s \in DOMAIN sess[c] /\ sess[c] \in Seq(SessionState)
  BY DEF LiveSessions
<1>2. sess'[c] = [sess[c] EXCEPT ![s] = e]
  OBVIOUS
<1>3. sess'[c] \in Seq(SessionState)
  BY <1>1, <1>2
<1>4. sess' \in [Client -> Seq(SessionState)]
  BY <1>3
<1>5. CASE e.stage \notin Over
  <2>1. LiveSessions(c)' = LiveSessions(c)
    BY <1>1, <1>2, <1>5 DEF LiveSessions, Over
  <2> QED
    BY <1>4, <1>5, <2>1 DEF Live
<1>6. CASE e.stage \in Over
  <2>1. LiveSessions(c)' = LiveSessions(c) \ {s}
    BY <1>1, <1>2, <1>6 DEF LiveSessions, Over
  <2>2. /\ Cardinality(LiveSessions(c) \ {s}) = Cardinality(LiveSessions(c)) - 1
        /\ IsFiniteSet(LiveSessions(c) \ {s})
    BY LiveFinite, FS_RemoveElement
  <2>3. Cardinality(LiveSessions(c) \ {s}) \in Nat
    BY <2>2, FS_CardinalityType
  <2> QED
    BY <1>4, <1>6, <2>1, <2>2, <2>3, LiveFinite DEF Live
<1> QED
  BY <1>4, <1>5, <1>6

(* A session that has read its signal exits. *)
LEMMA ClosedLive ==
  ASSUME sess \in [Client -> Seq(SessionState)], NEW c \in Client, NEW s,
         StageIs(c, s, "closing"), GoTo(c, s, "closed")
  PROVE  sess' \in [Client -> Seq(SessionState)] /\ Live(c)' = Live(c)
<1>1. s \in DOMAIN sess[c] /\ sess[c][s] \in SessionState /\ sess[c] \in Seq(SessionState)
  BY DEF StageIs
<1>2. [sess[c][s] EXCEPT !.stage = "closed"] \in SessionState
  BY <1>1 DEF SessionState, Stage
<1>3. sess'[c] = [sess[c] EXCEPT ![s] = [sess[c][s] EXCEPT !.stage = "closed"]]
  BY DEF GoTo
<1>4. sess'[c] \in Seq(SessionState)
  BY <1>1, <1>2, <1>3
<1>5. LiveSessions(c)' = LiveSessions(c)
  BY <1>1, <1>3 DEF LiveSessions, StageIs, SessionState
<1> QED
  BY <1>4, <1>5 DEF GoTo, Live

(* A session goes from one stage to another, and may be given an SDP.      *)
LEMMA GoToLive ==
  ASSUME sess \in [Client -> Seq(SessionState)], NEW c \in Client,
         NEW s \in LiveSessions(c), NEW stage \in Stage, GoTo(c, s, stage)
  PROVE  /\ sess' \in [Client -> Seq(SessionState)]
         /\ stage \notin Over => Live(c)' = Live(c)
         /\ stage \in Over => Live(c) > 0 /\ Live(c)' = Live(c) - 1
<1> DEFINE e == [sess[c][s] EXCEPT !.stage = stage]
<1>1. sess[c][s] \in SessionState
  BY DEF LiveSessions
<1>2. e \in SessionState /\ e.stage = stage
  BY <1>1 DEF SessionState
<1>3. sess' = [sess EXCEPT ![c] = [@ EXCEPT ![s] = e]]
  BY DEF GoTo
<1> HIDE DEF e
<1> QED
  BY <1>2, <1>3, UpdateLive

LEMMA GivenLive ==
  ASSUME sess \in [Client -> Seq(SessionState)], NEW c \in Client,
         NEW s \in LiveSessions(c), NEW stage \in Stage, stage \notin Over, NEW x \in SDP,
         GoToWith(c, s, stage, x)
  PROVE  /\ sess' \in [Client -> Seq(SessionState)]
         /\ Live(c)' = Live(c)
<1> DEFINE e == [sess[c][s] EXCEPT !.stage = stage, !.sdp = x]
<1>1. sess[c][s] \in SessionState
  BY DEF LiveSessions
<1>2. e \in SessionState /\ e.stage = stage
  BY <1>1 DEF SessionState
<1>3. sess' = [sess EXCEPT ![c] = [@ EXCEPT ![s] = e]]
  BY DEF GoToWith
<1> HIDE DEF e
<1> QED
  BY <1>2, <1>3, UpdateLive

(***************************************************************************)
(* The steps both programs share.                                          *)
(***************************************************************************)
LEMMA SendMsgType ==
  ASSUME NEW c \in Client, NEW x \in SDP
  PROVE  /\ SendMsg(c, "SDPReq", None) \in ToServer
         /\ SendMsg(c, "SDPExchange", x) \in ToServer
BY DEF SendMsg, ToServer, RemoteId, User

LEMMA WriteType ==
  ASSUME outbox \in [Client -> Seq(ToServer)], NEW c \in Client, NEW m \in ToServer,
         Write(c, m)
  PROVE  outbox' \in [Client -> Seq(ToServer)]
BY DEF Write

(* What SignIn, Send and ServerRecv leave alone. *)
Quiet ==
  /\ proc' = proc
  /\ run' = run
  /\ sess' = sess
  /\ \A d \in Client : chans'[d].WebrtcEndSignal = chans[d].WebrtcEndSignal

LEMMA QuietSame == ASSUME Quiet PROVE \A d \in Client : Same(d)
BY DEF Quiet, Same

LEMMA SignInStep ==
  ASSUME BaseTypeOK, NEW c \in Client, SignIn(c)
  PROVE  BaseTypeOK' /\ Quiet
<1>1. [id |-> 1] \in ToServer
  BY DEF ToServer
<1> QED
  BY <1>1, WriteType DEF BaseTypeOK, SignIn, Quiet

LEMMA SendStep ==
  ASSUME BaseTypeOK, NEW c \in Client, SendSDP(c) \/ SendSDPReq(c)
  PROVE  BaseTypeOK' /\ Quiet
<1>0. chans \in [Client -> Chans]
  BY DEF BaseTypeOK
<1>1. CASE SendSDP(c)
  <2>1. /\ chans' \in [Client -> Chans]
        /\ Head(chans[c].SendCh) \in SDP
        /\ \A d \in Client : chans'[d].WebrtcEndSignal = chans[d].WebrtcEndSignal
    BY <1>0, <1>1, RecvType DEF SendSDP
  <2>2. outbox' \in [Client -> Seq(ToServer)]
    BY <1>1, <2>1, SendMsgType, WriteType DEF SendSDP, BaseTypeOK
  <2> QED
    BY <1>1, <2>1, <2>2 DEF SendSDP, BaseTypeOK, Quiet
<1>2. CASE SendSDPReq(c)
  <2>1. /\ chans' \in [Client -> Chans]
        /\ \A d \in Client : chans'[d].WebrtcEndSignal = chans[d].WebrtcEndSignal
    BY <1>0, <1>2, RecvType DEF SendSDPReq
  <2>2. SendMsg(c, "SDPReq", None) \in ToServer
    BY DEF SendMsg, ToServer, RemoteId, User
  <2>3. outbox' \in [Client -> Seq(ToServer)]
    BY <1>2, <2>2, WriteType DEF SendSDPReq, BaseTypeOK
  <2> QED
    BY <1>2, <2>1, <2>3 DEF SendSDPReq, BaseTypeOK, Quiet
<1> QED
  BY <1>1, <1>2

LEMMA ServerRecvStep ==
  ASSUME BaseTypeOK, NEW c \in Client, ServerRecv(c)
  PROVE  BaseTypeOK' /\ Quiet
<1>0. chans \in [Client -> Chans] /\ inbox[c] \in Seq(FromServer)
  BY DEF BaseTypeOK
<1>1. Receive(c)
  BY DEF ServerRecv, RecvNotice, RecvSDP, RecvSDPReq
<1>2. Head(inbox[c]) \in FromServer /\ inbox' \in [Client -> Seq(FromServer)]
  BY <1>0, <1>1 DEF Receive, BaseTypeOK
<1>3. CASE RecvNotice(c)
  BY <1>1, <1>2, <1>3 DEF RecvNotice, Receive, BaseTypeOK, Quiet
<1>4. CASE RecvSDP(c)
  <2>1. Head(inbox[c]).message \in SDP
    BY <1>2, <1>4 DEF RecvSDP, FromServer
  <2>2. /\ chans' \in [Client -> Chans]
        /\ \A d \in Client : chans'[d].WebrtcEndSignal = chans[d].WebrtcEndSignal
    BY <1>0, <1>4, <2>1, SendType DEF RecvSDP
  <2> QED
    BY <1>1, <1>2, <2>2 DEF Receive, BaseTypeOK, Quiet
<1>5. CASE RecvSDPReq(c)
  <2>1. /\ chans' \in [Client -> Chans]
        /\ \A d \in Client : chans'[d].WebrtcEndSignal = chans[d].WebrtcEndSignal
    BY <1>0, <1>5, SendType DEF RecvSDPReq
  <2> QED
    BY <1>1, <1>2, <2>1 DEF Receive, BaseTypeOK, Quiet
<1> QED
  BY <1>3, <1>4, <1>5 DEF ServerRecv

LEMMA DieStep ==
  ASSUME BaseTypeOK, NEW c \in Client, Die(c), proc[c] = "up"
  PROVE  BaseTypeOK' /\ Dies(c) /\ \A d \in Client \ {c} : Same(d)
<1>1. NoRun \in [pc : RunPc, sdp : SDP \cup {None}]
  BY DEF NoRun, RunPc
<1>2. PICK n \in 0..Len(outbox[c]) : outbox' = [outbox EXCEPT ![c] = SubSeq(@, 1, n)]
  BY DEF Die
<1>3. outbox[c] \in Seq(ToServer)
  BY DEF BaseTypeOK
<1>4. SubSeq(outbox[c], 1, n) \in Seq(ToServer)
  BY <1>3
<1>5. outbox' \in [Client -> Seq(ToServer)]
  BY <1>2, <1>4 DEF BaseTypeOK
<1>6. chans' \in [Client -> Chans] /\ chans'[c].WebrtcEndSignal = <<>>
  BY NoChansType DEF Die, BaseTypeOK, NoChans
<1> QED
  BY <1>1, <1>5, <1>6 DEF Die, BaseTypeOK, Dies, Same, NoRun

LEMMA BootStep ==
  ASSUME BaseTypeOK, NEW c \in Client, WellFormed(c), NEW ch \in Chans,
         ch.WebrtcEndSignal = <<>>, Boot(c, ch)
  PROVE  BaseTypeOK' /\ Starts(c) /\ \A d \in Client \ {c} : Same(d)
<1>1. run' \in [Client -> [pc : RunPc, sdp : SDP \cup {None}]] /\ run'[c].pc = "spawn"
  BY DEF Boot, BaseTypeOK, RunPc
<1>2. Live(c)' = Live(c)
  BY SameLive DEF Boot
<1>3. chans[c].WebrtcEndSignal = <<>> /\ chans'[c].WebrtcEndSignal = <<>>
  BY DEF Boot, BaseTypeOK, WellFormed
<1> QED
  BY <1>1, <1>2, <1>3 DEF Boot, BaseTypeOK, Starts, Same, Ending

(***************************************************************************)
(* Balanced and WellFormed are preserved by every effect.                  *)
(***************************************************************************)
LEMMA EffectKeeps ==
  ASSUME BaseTypeOK, BaseTypeOK', NEW c \in Client, WellFormed(c), Balanced(c), Effect(c)
  PROVE  WellFormed(c)' /\ Balanced(c)'
<1> USE DEF WellFormed, Balanced, RunIsSpawning
<1>0. /\ Live(c) \in Nat /\ Live(c)' \in Nat
      /\ Ending(c) \in Nat /\ Ending(c)' \in Nat
  <2>1. chans[c] \in Chans /\ chans'[c] \in Chans
    BY DEF BaseTypeOK
  <2>2. sess \in [Client -> Seq(SessionState)] /\ sess' \in [Client -> Seq(SessionState)]
    BY DEF BaseTypeOK
  <2>3. Live(c) \in Nat
    BY <2>2, LiveFinite
  <2>4. IsFiniteSet(LiveSessions(c)')
    <3>1. DOMAIN sess'[c] = 1..Len(sess'[c]) /\ Len(sess'[c]) \in Nat
      BY <2>2
    <3>2. LiveSessions(c)' \subseteq 1..Len(sess'[c])
      BY <3>1 DEF LiveSessions
    <3>3. IsFiniteSet(1..Len(sess'[c]))
      BY <3>1, FS_Interval
    <3> QED
      BY <3>2, <3>3, FS_Subset
  <2>5. Live(c)' \in Nat
    BY <2>4, FS_CardinalityType DEF Live
  <2>6. Ending(c) \in Nat /\ Ending(c)' \in Nat
    BY <2>1 DEF Ending, Chans, Chan
  <2> QED
    BY <2>3, <2>5, <2>6
<1>a. Live(c) = Ending(c) + (IF run[c].pc \in {"off", "putback", "spawn"} THEN 0 ELSE 1)
  BY DEF Live, Ending
<1>b. SUFFICES
        /\ WellFormed(c)'
        /\ Live(c)' = Ending(c)' + (IF run'[c].pc \in {"off", "putback", "spawn"} THEN 0 ELSE 1)
  BY DEF Live, Ending
<1>1. CASE Same(c)
  <2>1. Live(c)' = Live(c) /\ Ending(c)' = Ending(c)
    BY <1>1, SameLive DEF Same, Ending
  <2> QED
    BY <1>1, <1>a, <2>1 DEF Same
<1>2. CASE Calm(c) \/ Asks(c) \/ Starts(c) \/ PutsBack(c)
  BY <1>0, <1>a, <1>2 DEF Calm, Asks, Starts, PutsBack
<1>3. CASE Spawns(c) \/ Signals(c)
  BY <1>0, <1>a, <1>3 DEF Spawns, Signals
<1>4. CASE Ends(c)
  BY <1>0, <1>a, <1>4 DEF Ends
<1>5. CASE Dies(c)
  <2>1. LiveSessions(c)' = {}
    BY <1>5 DEF Dies, LiveSessions
  <2>2. Live(c)' = 0 /\ Ending(c)' = 0
    BY <1>5, <2>1, FS_EmptySet DEF Dies, Live, Ending
  <2> QED
    BY <1>5, <2>2 DEF Dies
<1> QED
  BY <1>1, <1>2, <1>3, <1>4, <1>5 DEF Effect

(* A step of process c: what it does to types, to c and to the others.     *)
Step(c) == BaseTypeOK' /\ Effect(c) /\ \A d \in Client \ {c} : Same(d)

LEMMA QuietStep ==
  ASSUME NEW c \in Client, BaseTypeOK', Quiet
  PROVE  Step(c)
BY QuietSame DEF Step, Effect

LEMMA DiesStep ==
  ASSUME BaseTypeOK, NEW c \in Client, Die(c), proc[c] = "up"
  PROVE  Step(c)
BY DieStep DEF Step, Effect

(* A session that stays live: nothing of it is counted anew. *)
LEMMA StageStep ==
  ASSUME BaseTypeOK, NEW c \in Client, WellFormed(c), NEW s \in LiveSessions(c),
         NEW stage \in Stage, stage \notin Over, GoTo(c, s, stage),
         chans' \in [Client -> Chans],
         \A d \in Client : chans'[d].WebrtcEndSignal = chans[d].WebrtcEndSignal,
         UNCHANGED <<proc, signedIn, outbox, inbox, run>>
  PROVE  Step(c)
<1>0. sess \in [Client -> Seq(SessionState)]
  BY DEF BaseTypeOK
<1>1. sess' \in [Client -> Seq(SessionState)] /\ Live(c)' = Live(c)
  BY <1>0, GoToLive
<1>2. proc[c] = "up"
  BY DEF WellFormed, LiveSessions
<1>3. Calm(c)
  BY <1>0, <1>1, <1>2 DEF Calm, Ending
<1>4. \A d \in Client \ {c} : Same(d)
  BY <1>0 DEF Same, GoTo
<1>5. BaseTypeOK'
  BY <1>1 DEF BaseTypeOK
<1> QED
  BY <1>3, <1>4, <1>5 DEF Step, Effect

(* An effect as SessionSupervisor sees it. *)
Seen(c) ==
  LET ph == SupervisorPhase(c)
      lv == Cardinality(LiveSessions(c))
      en == Len(chans[c].WebrtcEndSignal)
  IN \/ ph' = ph /\ lv' = lv /\ en' = en
     \/ ph = "off" /\ ph' = "spawn" /\ lv' = lv /\ en' = en
     \/ ph = "spawn" /\ ph' = "idle" /\ lv' = lv + 1 /\ en' = en
     \/ ph = "idle" /\ ph' = "signal" /\ lv' = lv /\ en' = en
     \/ ph = "signal" /\ ph' = "spawn" /\ lv' = lv /\ en < ChanCap /\ en' = en + 1
     \/ ph' = ph /\ lv > 0 /\ en > 0 /\ lv' = lv - 1 /\ en' = en - 1
     \/ ph # "off" /\ ph' = "off" /\ lv' = 0 /\ en' = 0

LEMMA EffectSeen ==
  ASSUME BaseTypeOK, BaseTypeOK', NEW c \in Client, WellFormed(c), Effect(c)
  PROVE  Seen(c)
<1>0. run[c].pc \in RunPc /\ run'[c].pc \in RunPc
  BY DEF BaseTypeOK
<1>1. CASE Same(c)
  BY <1>1, SameLive DEF Same, Seen, SupervisorPhase, Live
<1>2. CASE Calm(c)
  BY <1>2 DEF Calm, Seen, SupervisorPhase, Live, Ending
<1>3. CASE PutsBack(c)
  BY <1>3 DEF PutsBack, Seen, SupervisorPhase, Live, Ending
<1>4. CASE Starts(c)
  BY <1>4 DEF Starts, Seen, SupervisorPhase, WellFormed, Live, Ending
<1>5. CASE Spawns(c)
  BY <1>5 DEF Spawns, Seen, SupervisorPhase, Live, Ending
<1>6. CASE Asks(c)
  BY <1>6 DEF Asks, Seen, SupervisorPhase, Live, Ending
<1>7. CASE Signals(c)
  BY <1>7 DEF Signals, Seen, SupervisorPhase, Live, Ending
<1>8. CASE Ends(c)
  BY <1>8 DEF Ends, Seen, SupervisorPhase, Live, Ending
<1>9. CASE Dies(c)
  <2>1. LiveSessions(c)' = {}
    BY <1>9 DEF Dies, LiveSessions
  <2>2. Cardinality(LiveSessions(c))' = 0
    BY <2>1, FS_EmptySet
  <2> QED
    BY <1>0, <1>9, <2>2 DEF Dies, Seen, SupervisorPhase, WellFormed, RunPc
<1> QED
  BY <1>1, <1>2, <1>3, <1>4, <1>5, <1>6, <1>7, <1>8, <1>9 DEF Effect

(***************************************************************************)
(* The steps of the rover.                                                 *)
(***************************************************************************)

LEMMA RoverIsClient == Rover \subseteq Client
BY DEF Client

LEMMA RoverSpawnStep ==
  ASSUME BaseTypeOK, NEW r \in Rover, WellFormed(r), RoverSpawn(r)
  PROVE  Step(r)
<1> DEFINE stage == IF r \in GstreamerCli THEN "starting" ELSE "offering"
<1>0. r \in Client
  BY RoverIsClient
<1>1. /\ sess' \in [Client -> Seq(SessionState)]
      /\ Live(r)' = Live(r) + 1
  <2>1. stage \in Stage /\ stage \notin Over
    BY DEF Stage, Over
  <2>2. sess' = [sess EXCEPT ![r] = Append(@, NewSession(stage))]
    BY DEF RoverSpawn
  <2>3. sess \in [Client -> Seq(SessionState)]
    BY DEF BaseTypeOK
  <2> HIDE DEF stage
  <2> QED
    BY <1>0, <2>1, <2>2, <2>3, SpawnLive
<1>2. /\ run' \in [Client -> [pc : RunPc, sdp : SDP \cup {None}]]
      /\ run[r].pc = "spawn" /\ run'[r].pc = "select"
      /\ \A d \in Client \ {r} : run'[d] = run[d]
  BY <1>0 DEF RoverSpawn, BaseTypeOK, RunPc
<1>3. \A d \in Client \ {r} : sess'[d] = sess[d]
  BY DEF RoverSpawn, BaseTypeOK
<1>4. BaseTypeOK'
  BY <1>1, <1>2 DEF RoverSpawn, BaseTypeOK
<1>5. Spawns(r)
  BY <1>1, <1>2 DEF RoverSpawn, WellFormed, Spawns, Ending
<1>6. \A d \in Client \ {r} : Same(d)
  BY <1>2, <1>3 DEF RoverSpawn, Same
<1> QED
  BY <1>4, <1>5, <1>6 DEF Step, Effect

LEMMA RoverRunRequestStep ==
  ASSUME BaseTypeOK, NEW r \in Rover, WellFormed(r), RoverRunRequest(r)
  PROVE  Step(r)
<1>0. r \in Client /\ chans \in [Client -> Chans]
  BY RoverIsClient DEF BaseTypeOK
<1>1. /\ chans' \in [Client -> Chans]
      /\ \A d \in Client : chans'[d].WebrtcEndSignal = chans[d].WebrtcEndSignal
  BY <1>0, RecvType DEF RoverRunRequest
<1>2. /\ run' \in [Client -> [pc : RunPc, sdp : SDP \cup {None}]]
      /\ run[r].pc = "select" /\ run'[r].pc = "signal"
      /\ \A d \in Client \ {r} : run'[d] = run[d]
  BY <1>0 DEF RoverRunRequest, BaseTypeOK, RunPc
<1>3. BaseTypeOK'
  BY <1>1, <1>2 DEF RoverRunRequest, BaseTypeOK
<1>4. Asks(r)
  BY <1>0, <1>1, <1>2, SameLive DEF RoverRunRequest, WellFormed, Asks, Ending
<1>5. \A d \in Client \ {r} : Same(d)
  BY <1>1, <1>2 DEF RoverRunRequest, Same
<1> QED
  BY <1>3, <1>4, <1>5 DEF Step, Effect

LEMMA RoverRunSignalStep ==
  ASSUME BaseTypeOK, NEW r \in Rover, WellFormed(r), RoverRunSignal(r)
  PROVE  Step(r)
<1>0. r \in Client /\ chans \in [Client -> Chans]
  BY RoverIsClient DEF BaseTypeOK
<1>1. /\ chans' \in [Client -> Chans]
      /\ Len(chans[r].WebrtcEndSignal) < ChanCap
      /\ Len(chans'[r].WebrtcEndSignal) = Len(chans[r].WebrtcEndSignal) + 1
      /\ \A d \in Client \ {r} : chans'[d].WebrtcEndSignal = chans[d].WebrtcEndSignal
  BY <1>0, SendType DEF RoverRunSignal
<1>2. /\ run' \in [Client -> [pc : RunPc, sdp : SDP \cup {None}]]
      /\ run[r].pc = "signal" /\ run'[r].pc = "spawn"
      /\ \A d \in Client \ {r} : run'[d] = run[d]
  BY <1>0 DEF RoverRunSignal, BaseTypeOK, RunPc
<1>3. BaseTypeOK'
  BY <1>1, <1>2 DEF RoverRunSignal, BaseTypeOK
<1>4. Signals(r)
  BY <1>0, <1>1, <1>2, SameLive DEF RoverRunSignal, WellFormed, Signals, Ending
<1>5. \A d \in Client \ {r} : Same(d)
  BY <1>1, <1>2 DEF RoverRunSignal, Same
<1> QED
  BY <1>3, <1>4, <1>5 DEF Step, Effect

LEMMA RoverListenStep ==
  ASSUME BaseTypeOK, NEW r \in Rover, WellFormed(r), NEW s, 
         RoverListen(r, s) \/ RoverFirstPacket(r, s)
  PROVE  Step(r)
<1>1. s \in LiveSessions(r)
  BY DEF RoverListen, RoverFirstPacket, StageIs, LiveSessions
<1>2. chans' = chans /\ chans \in [Client -> Chans]
  BY DEF RoverListen, RoverFirstPacket, BaseTypeOK
<1>3. CASE RoverListen(r, s)
  BY RoverIsClient, <1>1, <1>2, <1>3, StageStep DEF RoverListen, Stage, Over
<1>4. CASE RoverFirstPacket(r, s)
  BY RoverIsClient, <1>1, <1>2, <1>4, StageStep DEF RoverFirstPacket, Stage, Over
<1> QED
  BY <1>3, <1>4

LEMMA RoverOfferStep ==
  ASSUME BaseTypeOK, NEW r \in Rover, WellFormed(r), NEW s, RoverOffer(r, s)
  PROVE  Step(r)
<1>0. r \in Client /\ chans \in [Client -> Chans] /\ sess[r] \in Seq(SessionState)
  BY RoverIsClient DEF BaseTypeOK
<1>1. s \in LiveSessions(r)
  BY DEF RoverOffer, StageIs, LiveSessions
<1>2. s \in Nat \ {0}
  BY <1>0, <1>1 DEF LiveSessions
<1>3. Offer(r, s) \in SDP
  BY <1>0, <1>2 DEF Offer, SDP, Session
<1>4. /\ chans' \in [Client -> Chans]
      /\ \A d \in Client : chans'[d].WebrtcEndSignal = chans[d].WebrtcEndSignal
  BY <1>0, <1>3, SendType DEF RoverOffer
<1> QED
  BY <1>0, <1>1, <1>4, StageStep DEF RoverOffer, Stage, Over

LEMMA RoverAnsweredStep ==
  ASSUME BaseTypeOK, NEW r \in Rover, WellFormed(r), NEW s, RoverAnswered(r, s)
  PROVE  Step(r)
<1>0. /\ r \in Client /\ chans \in [Client -> Chans]
      /\ sess \in [Client -> Seq(SessionState)]
  BY RoverIsClient DEF BaseTypeOK
<1>1. s \in LiveSessions(r) /\ proc[r] = "up"
  BY DEF RoverAnswered, StageIs, LiveSessions, WellFormed
<1>2. /\ chans' \in [Client -> Chans]
      /\ Head(chans[r].RemoteSDPCh) \in SDP
      /\ \A d \in Client : chans'[d].WebrtcEndSignal = chans[d].WebrtcEndSignal
  BY <1>0, RecvType DEF RoverAnswered
<1>3. sess' \in [Client -> Seq(SessionState)] /\ Live(r)' = Live(r)
  BY <1>0, <1>1, <1>2, GivenLive DEF RoverAnswered, Stage, Over
<1>4. Calm(r)
  BY <1>0, <1>1, <1>2, <1>3 DEF RoverAnswered, Calm, Ending
<1>5. \A d \in Client \ {r} : Same(d)
  BY <1>0, <1>2 DEF RoverAnswered, Same, GoToWith
<1>6. BaseTypeOK'
  BY <1>2, <1>3 DEF RoverAnswered, BaseTypeOK
<1> QED
  BY <1>4, <1>5, <1>6 DEF Step, Effect

LEMMA RoverEndStep ==
  ASSUME BaseTypeOK, NEW r \in Rover, WellFormed(r), NEW s, RoverEnd(r, s)
  PROVE  Step(r)
<1>0. /\ r \in Client /\ chans \in [Client -> Chans]
      /\ sess \in [Client -> Seq(SessionState)]
  BY RoverIsClient DEF BaseTypeOK
<1>1. s \in LiveSessions(r) /\ proc[r] = "up"
  BY DEF RoverEnd, StageIs, LiveSessions, WellFormed
<1>2. /\ chans' \in [Client -> Chans]
      /\ Len(chans[r].WebrtcEndSignal) = Len(chans'[r].WebrtcEndSignal) + 1
      /\ \A d \in Client \ {r} : chans'[d].WebrtcEndSignal = chans[d].WebrtcEndSignal
  BY <1>0, RecvType DEF RoverEnd
<1>3. Len(chans'[r].WebrtcEndSignal) \in Nat
  BY <1>0, <1>2 DEF Chans, Chan
<1>4. /\ sess' \in [Client -> Seq(SessionState)]
      /\ Live(r) > 0 /\ Live(r)' = Live(r) - 1
  BY <1>0, <1>1, GoToLive DEF RoverEnd, Stage, Over
<1>5. Ends(r)
  BY <1>1, <1>2, <1>3, <1>4 DEF RoverEnd, Ends, Ending
<1>6. \A d \in Client \ {r} : Same(d)
  BY <1>0, <1>2 DEF RoverEnd, Same, GoTo
<1>7. BaseTypeOK'
  BY <1>2, <1>4 DEF RoverEnd, BaseTypeOK
<1> QED
  BY <1>5, <1>6, <1>7 DEF Step, Effect

LEMMA RoverClosedStep ==
  ASSUME BaseTypeOK, NEW r \in Rover, WellFormed(r), NEW s, RoverClosed(r, s)
  PROVE  Step(r)
<1>0. r \in Client /\ sess \in [Client -> Seq(SessionState)]
  BY RoverIsClient DEF BaseTypeOK
<1>1. sess' \in [Client -> Seq(SessionState)] /\ Live(r)' = Live(r)
  BY <1>0, ClosedLive DEF RoverClosed
<1>2. proc[r] = "up"
  BY DEF RoverClosed, StageIs, WellFormed
<1>3. Calm(r)
  BY <1>1, <1>2 DEF RoverClosed, Calm, Ending
<1>4. \A d \in Client \ {r} : Same(d)
  BY <1>0 DEF RoverClosed, Same, GoTo
<1>5. BaseTypeOK'
  BY <1>1 DEF RoverClosed, BaseTypeOK
<1> QED
  BY <1>3, <1>4, <1>5 DEF Step, Effect

(* Every step of the rover has one of the effects. *)
LEMMA RoverStepStep ==
  ASSUME BaseTypeOK, NEW r \in Rover, WellFormed(r), RoverStep(r)
  PROVE  Step(r)
<1>0. r \in Client
  BY RoverIsClient
<1>1. CASE RoverStart(r)
  BY <1>0, <1>1, BootStep, NoChansType DEF RoverStart, NoChans, Step, Effect
<1>2. CASE Exit(r)
  BY <1>0, <1>2, DiesStep DEF Exit
<1>3. CASE SignIn(r)
  BY <1>0, <1>3, SignInStep, QuietStep
<1>4. CASE SendSDP(r) \/ SendSDPReq(r)
  BY <1>0, <1>4, SendStep, QuietStep
<1>5. CASE ServerRecv(r)
  BY <1>0, <1>5, ServerRecvStep, QuietStep
<1>6. CASE RoverRun(r)
  BY <1>6, RoverSpawnStep, RoverRunRequestStep, RoverRunSignalStep DEF RoverRun
<1>7. ASSUME NEW s \in DOMAIN sess[r], RoverSession(r, s)
      PROVE  Step(r)
  <2>1. CASE RoverPortConflict(r, s)
    <3>1. proc[r] = "up"
      BY <2>1 DEF RoverPortConflict, StageIs, WellFormed
    <3> QED
      BY <1>0, <2>1, <3>1, DiesStep DEF RoverPortConflict
  <2> QED
    BY <1>7, <2>1, RoverListenStep, RoverOfferStep, RoverAnsweredStep, RoverEndStep,
       RoverClosedStep
    DEF RoverSession
<1> QED
  BY <1>1, <1>2, <1>3, <1>4, <1>5, <1>6, <1>7 DEF RoverStep

(***************************************************************************)
(* The steps of the controller.                                            *)
(***************************************************************************)
LEMMA ControllerIsClient == Controller \subseteq Client
BY DEF Client

(* An offer is at hand wherever the next step is going to use it. *)
HasOffer(c) ==
  /\ run[c].pc \in {"signal", "putback"} => run[c].sdp \in SDP
  /\ \A k \in DOMAIN sess[c] : sess[c][k].stage = "answering" => sess[c][k].sdp \in SDP

LEMMA ControllerSpawnStep ==
  ASSUME BaseTypeOK, NEW c \in Controller, WellFormed(c), HasOffer(c), ControllerSpawn(c)
  PROVE  Step(c) /\ HasOffer(c)'
<1>0. /\ c \in Client /\ "waiting" \in Stage /\ "waiting" \notin Over
      /\ sess \in [Client -> Seq(SessionState)]
  BY ControllerIsClient DEF Stage, Over, BaseTypeOK
<1>1. sess' = [sess EXCEPT ![c] = Append(@, NewSession("waiting"))]
  BY DEF ControllerSpawn
<1>2. /\ sess' \in [Client -> Seq(SessionState)]
      /\ Live(c)' = Live(c) + 1
  BY <1>0, <1>1, SpawnLive
<1>3. /\ run' \in [Client -> [pc : RunPc, sdp : SDP \cup {None}]]
      /\ run[c].pc = "spawn" /\ run'[c].pc \in {"select", "mainloop"}
      /\ \A d \in Client \ {c} : run'[d] = run[d]
  BY <1>0 DEF ControllerSpawn, BaseTypeOK, RunPc
<1>4. BaseTypeOK'
  BY <1>2, <1>3 DEF ControllerSpawn, BaseTypeOK
<1>5. Spawns(c)
  BY <1>2, <1>3 DEF ControllerSpawn, WellFormed, Spawns, Ending
<1>6. \A d \in Client \ {c} : Same(d)
  BY <1>0, <1>1, <1>3 DEF ControllerSpawn, Same
<1>7. \A k \in DOMAIN sess'[c] :
         sess'[c][k].stage = "answering" => k \in DOMAIN sess[c] /\ sess'[c][k] = sess[c][k]
  <2>1. sess[c] \in Seq(SessionState) /\ sess'[c] = Append(sess[c], NewSession("waiting"))
    BY <1>0, <1>1
  <2>2. NewSession("waiting") \in SessionState /\ NewSession("waiting").stage = "waiting"
    BY <1>0 DEF NewSession, SessionState
  <2> QED
    BY <2>1, <2>2
<1>8. HasOffer(c)'
  BY <1>3, <1>7 DEF HasOffer
<1> QED
  BY <1>4, <1>5, <1>6, <1>8 DEF Step, Effect

LEMMA ControllerRunOfferStep ==
  ASSUME BaseTypeOK, NEW c \in Controller, WellFormed(c), HasOffer(c), ControllerRunOffer(c)
  PROVE  Step(c) /\ HasOffer(c)'
<1>0. c \in Client /\ chans \in [Client -> Chans]
  BY ControllerIsClient DEF BaseTypeOK
<1>1. /\ chans' \in [Client -> Chans]
      /\ Head(chans[c].RemoteSDPCh) \in SDP
      /\ \A d \in Client : chans'[d].WebrtcEndSignal = chans[d].WebrtcEndSignal
  BY <1>0, RecvType DEF ControllerRunOffer
<1>2. /\ run' \in [Client -> [pc : RunPc, sdp : SDP \cup {None}]]
      /\ run[c].pc = "select" /\ run'[c].pc = "signal" /\ run'[c].sdp \in SDP
      /\ \A d \in Client \ {c} : run'[d] = run[d]
  BY <1>0, <1>1 DEF ControllerRunOffer, BaseTypeOK, RunPc
<1>3. BaseTypeOK'
  BY <1>1, <1>2 DEF ControllerRunOffer, BaseTypeOK
<1>4. Asks(c)
  BY <1>0, <1>1, <1>2, SameLive DEF ControllerRunOffer, WellFormed, Asks, Ending
<1>5. \A d \in Client \ {c} : Same(d)
  BY <1>1, <1>2 DEF ControllerRunOffer, Same
<1>6. HasOffer(c)'
  BY <1>2 DEF ControllerRunOffer, HasOffer
<1> QED
  BY <1>3, <1>4, <1>5, <1>6 DEF Step, Effect

LEMMA ControllerRunSignalStep ==
  ASSUME BaseTypeOK, NEW c \in Controller, WellFormed(c), HasOffer(c), ControllerRunSignal(c)
  PROVE  Step(c) /\ HasOffer(c)'
<1>0. c \in Client /\ chans \in [Client -> Chans]
  BY ControllerIsClient DEF BaseTypeOK
<1>1. /\ chans' \in [Client -> Chans]
      /\ Len(chans[c].WebrtcEndSignal) < ChanCap
      /\ Len(chans'[c].WebrtcEndSignal) = Len(chans[c].WebrtcEndSignal) + 1
      /\ \A d \in Client \ {c} : chans'[d].WebrtcEndSignal = chans[d].WebrtcEndSignal
  BY <1>0, SendType DEF ControllerRunSignal
<1>2. /\ run' \in [Client -> [pc : RunPc, sdp : SDP \cup {None}]]
      /\ run[c].pc = "signal" /\ run'[c].pc = "putback" /\ run'[c].sdp = run[c].sdp
      /\ \A d \in Client \ {c} : run'[d] = run[d]
  BY <1>0 DEF ControllerRunSignal, BaseTypeOK, RunPc
<1>3. BaseTypeOK'
  BY <1>1, <1>2 DEF ControllerRunSignal, BaseTypeOK
<1>4. Signals(c)
  BY <1>0, <1>1, <1>2, SameLive DEF ControllerRunSignal, WellFormed, Signals, Ending
<1>5. \A d \in Client \ {c} : Same(d)
  BY <1>1, <1>2 DEF ControllerRunSignal, Same
<1>6. HasOffer(c)'
  BY <1>2 DEF ControllerRunSignal, HasOffer
<1> QED
  BY <1>3, <1>4, <1>5, <1>6 DEF Step, Effect

LEMMA ControllerRunPutBackStep ==
  ASSUME BaseTypeOK, NEW c \in Controller, WellFormed(c), HasOffer(c), ControllerRunPutBack(c)
  PROVE  Step(c) /\ HasOffer(c)'
<1>0. c \in Client /\ chans \in [Client -> Chans] /\ run[c].sdp \in SDP
  BY ControllerIsClient DEF BaseTypeOK, HasOffer, ControllerRunPutBack
<1>1. /\ chans' \in [Client -> Chans]
      /\ \A d \in Client : chans'[d].WebrtcEndSignal = chans[d].WebrtcEndSignal
  BY <1>0, SendType DEF ControllerRunPutBack
<1>2. /\ run' \in [Client -> [pc : RunPc, sdp : SDP \cup {None}]]
      /\ run[c].pc = "putback" /\ run'[c].pc = "spawn"
      /\ \A d \in Client \ {c} : run'[d] = run[d]
  BY <1>0 DEF ControllerRunPutBack, BaseTypeOK, RunPc
<1>3. BaseTypeOK'
  BY <1>1, <1>2 DEF ControllerRunPutBack, BaseTypeOK
<1>4. PutsBack(c)
  BY <1>0, <1>1, <1>2, SameLive DEF ControllerRunPutBack, WellFormed, PutsBack, Ending
<1>5. \A d \in Client \ {c} : Same(d)
  BY <1>1, <1>2 DEF ControllerRunPutBack, Same
<1>6. HasOffer(c)'
  BY <1>2 DEF ControllerRunPutBack, HasOffer
<1> QED
  BY <1>3, <1>4, <1>5, <1>6 DEF Step, Effect

LEMMA ControllerTakeOfferStep ==
  ASSUME BaseTypeOK, NEW c \in Controller, WellFormed(c), HasOffer(c), NEW k,
         ControllerTakeOffer(c, k)
  PROVE  Step(c) /\ HasOffer(c)'
<1>0. /\ c \in Client /\ chans \in [Client -> Chans]
      /\ sess \in [Client -> Seq(SessionState)]
  BY ControllerIsClient DEF BaseTypeOK
<1>1. k \in LiveSessions(c) /\ proc[c] = "up"
  BY DEF ControllerTakeOffer, StageIs, LiveSessions, WellFormed
<1>2. /\ chans' \in [Client -> Chans]
      /\ Head(chans[c].RemoteSDPCh) \in SDP
      /\ \A d \in Client : chans'[d].WebrtcEndSignal = chans[d].WebrtcEndSignal
  BY <1>0, RecvType DEF ControllerTakeOffer
<1>3. sess' \in [Client -> Seq(SessionState)] /\ Live(c)' = Live(c)
  BY <1>0, <1>1, <1>2, GivenLive DEF ControllerTakeOffer, Stage, Over
<1>4. Calm(c)
  BY <1>0, <1>1, <1>2, <1>3 DEF ControllerTakeOffer, Calm, Ending
<1>5. \A d \in Client \ {c} : Same(d)
  BY <1>0, <1>2 DEF ControllerTakeOffer, Same, GoToWith
<1>6. BaseTypeOK'
  BY <1>2, <1>3 DEF ControllerTakeOffer, BaseTypeOK
<1>7. HasOffer(c)'
  BY <1>0, <1>1, <1>2 DEF ControllerTakeOffer, HasOffer, GoToWith, LiveSessions, SessionState
<1> QED
  BY <1>4, <1>5, <1>6, <1>7 DEF Step, Effect

LEMMA ControllerAnswerStep ==
  ASSUME BaseTypeOK, NEW c \in Controller, WellFormed(c), HasOffer(c), NEW k,
         ControllerAnswer(c, k)
  PROVE  Step(c) /\ HasOffer(c)'
<1>0. /\ c \in Client /\ chans \in [Client -> Chans]
      /\ sess \in [Client -> Seq(SessionState)]
  BY ControllerIsClient DEF BaseTypeOK
<1>1. k \in LiveSessions(c)
  BY DEF ControllerAnswer, StageIs, LiveSessions
<1>2. k \in Nat \ {0}
  BY <1>0, <1>1 DEF LiveSessions
<1>3. sess[c][k].sdp \in SDP
  BY DEF ControllerAnswer, StageIs, HasOffer
<1>4. Answer(c, k, sess[c][k].sdp) \in SDP
  BY <1>0, <1>2, <1>3 DEF Answer, SDP, Session
<1>5. /\ chans' \in [Client -> Chans]
      /\ \A d \in Client : chans'[d].WebrtcEndSignal = chans[d].WebrtcEndSignal
  BY <1>0, <1>4, SendType DEF ControllerAnswer
<1>6. Step(c)
  BY <1>0, <1>1, <1>5, StageStep DEF ControllerAnswer, Stage, Over
<1>7. HasOffer(c)'
  BY <1>0, <1>1 DEF ControllerAnswer, HasOffer, GoTo, LiveSessions, SessionState
<1> QED
  BY <1>6, <1>7

LEMMA ControllerTrackStartsStep ==
  ASSUME BaseTypeOK, NEW c \in Controller, WellFormed(c), HasOffer(c), NEW k,
         ControllerTrackStarts(c, k)
  PROVE  Step(c) /\ HasOffer(c)'
<1>0. c \in Client /\ sess \in [Client -> Seq(SessionState)]
  BY ControllerIsClient DEF BaseTypeOK
<1>1. k \in LiveSessions(c) /\ proc[c] = "up"
  BY DEF ControllerTrackStarts, StageIs, LiveSessions, WellFormed
<1> DEFINE e == [sess[c][k] EXCEPT !.track = TRUE]
<1>2. e \in SessionState /\ e.stage = "serving"
  <2>1. sess[c][k] \in SessionState /\ sess[c][k].stage = "serving"
    BY <1>0, <1>1 DEF ControllerTrackStarts, StageIs, LiveSessions
  <2> QED
    BY <2>1 DEF SessionState
<1>3. sess' = [sess EXCEPT ![c] = [@ EXCEPT ![k] = e]]
  BY DEF ControllerTrackStarts
<1>4. sess'[c] = [sess[c] EXCEPT ![k] = e] /\ \A d \in Client \ {c} : sess'[d] = sess[d]
  BY <1>0, <1>3
<1> HIDE DEF e
<1>5. sess' \in [Client -> Seq(SessionState)] /\ Live(c)' = Live(c)
  BY <1>0, <1>1, <1>2, <1>3, UpdateLive DEF Over
<1>6. BaseTypeOK'
  BY <1>5 DEF ControllerTrackStarts, BaseTypeOK
<1>7. Calm(c)
  BY <1>1, <1>5 DEF ControllerTrackStarts, Calm, Ending
<1>8. \A d \in Client \ {c} : Same(d)
  BY <1>4 DEF ControllerTrackStarts, Same
<1>9. HasOffer(c)'
  BY <1>0, <1>1, <1>2, <1>4 DEF ControllerTrackStarts, HasOffer, LiveSessions
<1> QED
  BY <1>6, <1>7, <1>8, <1>9 DEF Step, Effect

LEMMA ControllerIceGoneStep ==
  ASSUME BaseTypeOK, NEW c \in Controller, WellFormed(c), HasOffer(c), NEW k,
         ControllerIceGone(c, k)
  PROVE  Step(c) /\ HasOffer(c)'
<1>0. c \in Client /\ chans \in [Client -> Chans] /\ sess \in [Client -> Seq(SessionState)]
  BY ControllerIsClient DEF BaseTypeOK
<1>1. k \in LiveSessions(c)
  BY DEF ControllerIceGone, StageIs, LiveSessions
<1>2. Step(c)
  BY <1>0, <1>1, StageStep DEF ControllerIceGone, Stage, Over
<1>3. HasOffer(c)'
  BY <1>0, <1>1 DEF ControllerIceGone, HasOffer, GoTo, LiveSessions, SessionState
<1> QED
  BY <1>2, <1>3

LEMMA ControllerEndStep ==
  ASSUME BaseTypeOK, NEW c \in Controller, WellFormed(c), HasOffer(c), NEW k,
         ControllerEnd(c, k)
  PROVE  Step(c) /\ HasOffer(c)'
<1>0. /\ c \in Client /\ chans \in [Client -> Chans]
      /\ sess \in [Client -> Seq(SessionState)]
  BY ControllerIsClient DEF BaseTypeOK
<1>1. k \in LiveSessions(c) /\ proc[c] = "up"
  BY DEF ControllerEnd, StageIs, LiveSessions, WellFormed
<1>2. /\ chans' \in [Client -> Chans]
      /\ Len(chans[c].WebrtcEndSignal) = Len(chans'[c].WebrtcEndSignal) + 1
      /\ \A d \in Client \ {c} : chans'[d].WebrtcEndSignal = chans[d].WebrtcEndSignal
  BY <1>0, RecvType DEF ControllerEnd
<1>3. Len(chans'[c].WebrtcEndSignal) \in Nat
  BY <1>0, <1>2 DEF Chans, Chan
<1>4. /\ sess' \in [Client -> Seq(SessionState)]
      /\ Live(c) > 0 /\ Live(c)' = Live(c) - 1
  BY <1>0, <1>1, GoToLive DEF ControllerEnd, Stage, Over
<1>5. Ends(c)
  BY <1>1, <1>2, <1>3, <1>4 DEF ControllerEnd, Ends, Ending
<1>6. \A d \in Client \ {c} : Same(d)
  BY <1>0, <1>2 DEF ControllerEnd, Same, GoTo
<1>7. BaseTypeOK'
  BY <1>2, <1>4 DEF ControllerEnd, BaseTypeOK
<1>8. HasOffer(c)'
  BY <1>0, <1>1 DEF ControllerEnd, HasOffer, GoTo, LiveSessions, SessionState
<1> QED
  BY <1>5, <1>6, <1>7, <1>8 DEF Step, Effect

(* Every step of the controller has one of the effects. *)
LEMMA ControllerStepStep ==
  ASSUME BaseTypeOK, NEW c \in Controller, WellFormed(c), HasOffer(c), ControllerStep(c)
  PROVE  Step(c) /\ HasOffer(c)'
<1>0. c \in Client
  BY ControllerIsClient
<1>q. Quiet => HasOffer(c)'
  BY DEF Quiet, HasOffer
<1>d. Die(c) => HasOffer(c)'
  BY <1>0 DEF Die, HasOffer, NoRun, BaseTypeOK
<1>1. CASE ControllerStart(c)
  <2> DEFINE ch == [NoChans EXCEPT !.SDPReqCh = <<TRUE>>]
  <2>1. ch \in Chans /\ ch.WebrtcEndSignal = <<>>
    <3>1. <<TRUE>> \in Seq({TRUE}) /\ Len(<<TRUE>>) = 1
      OBVIOUS
    <3>2. <<TRUE>> \in Chan({TRUE})
      BY <3>1 DEF Chan, ChanCap
    <3>3. NoChans.WebrtcEndSignal = <<>>
      BY DEF NoChans
    <3> QED
      BY <3>2, <3>3, NoChansType DEF Chans
  <2>2. Boot(c, ch)
    BY <1>1 DEF ControllerStart
  <2>3. HasOffer(c)'
    BY <1>0, <2>2 DEF Boot, BaseTypeOK, HasOffer
  <2> HIDE DEF ch
  <2> QED
    BY <1>0, <2>1, <2>2, <2>3, BootStep DEF Step, Effect
<1>2. CASE Exit(c)
  BY <1>0, <1>2, <1>d, DiesStep DEF Exit
<1>3. CASE SignIn(c)
  BY <1>0, <1>3, <1>q, SignInStep, QuietStep
<1>4. CASE SendSDP(c) \/ SendSDPReq(c)
  BY <1>0, <1>4, <1>q, SendStep, QuietStep
<1>5. CASE ServerRecv(c)
  BY <1>0, <1>5, <1>q, ServerRecvStep, QuietStep
<1>6. CASE ControllerRun(c)
  BY <1>6, ControllerSpawnStep, ControllerRunOfferStep, ControllerRunSignalStep,
     ControllerRunPutBackStep
  DEF ControllerRun
<1>7. ASSUME NEW k \in DOMAIN sess[c], ControllerSession(c, k)
      PROVE  Step(c) /\ HasOffer(c)'
  <2>1. CASE ControllerTrackPanic(c, k)
    <3>1. proc[c] = "up"
      BY <2>1 DEF ControllerTrackPanic, StageIs, WellFormed
    <3> QED
      BY <1>0, <1>d, <2>1, <3>1, DiesStep DEF ControllerTrackPanic
  <2> QED
    BY <1>7, <2>1, ControllerTakeOfferStep, ControllerAnswerStep, ControllerTrackStartsStep,
       ControllerIceGoneStep, ControllerEndStep
    DEF ControllerSession
<1> QED
  BY <1>1, <1>2, <1>3, <1>4, <1>5, <1>6, <1>7 DEF ControllerStep

(***************************************************************************)
(* The relay.                                                              *)
(***************************************************************************)
Sends == {m \in ToServer : m.id = 5}

RelayTypeOK ==
  /\ pool \in [User -> Client \cup {None}]
  /\ handling \in [Client -> Sends \cup {None}]

LEMMA IdType == ASSUME NEW c \in Client PROVE Id(c) \in User
BY DEF Id, User

LEMMA ForwardedType ==
  ASSUME NEW m \in Sends
  PROVE  Forwarded(m) \in FromServer /\ m.to_user \in User
<1>1. CASE m.messageType = "SDPReq"
  <2>1. m.to_user \in User /\ m.message = None
    BY <1>1 DEF Sends, ToServer
  <2> QED
    BY <1>1, <2>1 DEF Forwarded, FromServer
<1>2. CASE m.messageType = "SDPExchange"
  <2>1. m.to_user \in User /\ m.message \in SDP
    BY <1>2 DEF Sends, ToServer
  <2> QED
    BY <1>2, <2>1 DEF Forwarded, FromServer
<1> QED
  BY <1>1, <1>2 DEF Sends, ToServer

LEMMA TakeType ==
  ASSUME BaseTypeOK, NEW c \in Client, NEW id, Take(c, id)
  PROVE  /\ outbox' \in [Client -> Seq(ToServer)]
         /\ Head(outbox[c]) \in ToServer /\ Head(outbox[c]).id = id
BY DEF Take, BaseTypeOK

LEMMA DeliverType ==
  ASSUME BaseTypeOK, NEW d \in Client, NEW m \in FromServer, Deliver(d, m)
  PROVE  inbox' \in [Client -> Seq(FromServer)]
<1>1. inbox \in [Client -> Seq(FromServer)]
  BY DEF BaseTypeOK
<1>2. CASE proc[d] = "up"
  <2>1. inbox' = [inbox EXCEPT ![d] = Append(@, m)]
    BY <1>2 DEF Deliver
  <2> QED
    BY <1>1, <2>1
<1>3. CASE proc[d] # "up"
  BY <1>1, <1>3 DEF Deliver
<1> QED
  BY <1>2, <1>3

(* A handler touches connections and the pool alone. *)
LEMMA ServeType ==
  ASSUME BaseTypeOK, RelayTypeOK, NEW c \in Client, Serve(c)
  PROVE  BaseTypeOK' /\ RelayTypeOK' /\ Quiet
<1>1. CASE Online(c)
  BY <1>1, TakeType, IdType DEF Online, BaseTypeOK, RelayTypeOK, Quiet
<1>2. CASE SendOnline(c)
  <2>1. Head(outbox[c]) \in Sends /\ outbox' \in [Client -> Seq(ToServer)]
    BY <1>2, TakeType DEF SendOnline, Sends
  <2> QED
    BY <1>2, <2>1 DEF SendOnline, BaseTypeOK, RelayTypeOK, Quiet
<1>3. CASE SendOffline(c)
  <2>1. outbox' \in [Client -> Seq(ToServer)]
    BY <1>3, TakeType DEF SendOffline
  <2>2. [id |-> 200] \in FromServer
    BY DEF FromServer
  <2>3. inbox' \in [Client -> Seq(FromServer)]
    BY <1>3, <2>2, DeliverType DEF SendOffline
  <2> QED
    BY <1>3, <2>1, <2>3 DEF SendOffline, BaseTypeOK, RelayTypeOK, Quiet
<1>4. CASE Forward(c)
  <2>1. handling[c] \in Sends
    BY <1>4 DEF Forward, RelayTypeOK
  <2>2. Forwarded(handling[c]) \in FromServer /\ handling[c].to_user \in User
    BY <2>1, ForwardedType
  <2>3. inbox' \in [Client -> Seq(FromServer)]
    <3>1. CASE pool[handling[c].to_user] # None
      <4>1. pool[handling[c].to_user] \in Client
        BY <2>2, <3>1 DEF RelayTypeOK
      <4>2. Deliver(pool[handling[c].to_user], Forwarded(handling[c]))
        BY <1>4, <3>1 DEF Forward
      <4> QED
        BY <2>2, <4>1, <4>2, DeliverType
    <3>2. CASE pool[handling[c].to_user] = None
      BY <1>4, <3>2 DEF Forward, BaseTypeOK
    <3> QED
      BY <3>1, <3>2
  <2> QED
    BY <1>4, <2>3 DEF Forward, BaseTypeOK, RelayTypeOK, Quiet
<1>5. CASE ConnClosed(c)
  BY <1>5, IdType DEF ConnClosed, BaseTypeOK, RelayTypeOK, Quiet
<1> QED
  BY <1>1, <1>2, <1>3, <1>4, <1>5 DEF Serve

=============================================================================
