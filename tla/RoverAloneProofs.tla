-------------------------- MODULE RoverAloneProofs --------------------------
(***************************************************************************)
(* Theorems about the rover, for any number of incarnations and requests   *)
(* and whichever have GstreamerCli: types, the accounting of the sessions, *)
(* what Run implements, and when it loses port 5004.                       *)
(***************************************************************************)
EXTENDS RoverAlone, ServiceProofs

(***************************************************************************)
(* The network's steps.                                                    *)
(***************************************************************************)
LEMMA FromControllerType ==
  ASSUME NEW x \in SDP
  PROVE  /\ FromController("SDPReq", None) \in FromServer
         /\ FromController("SDPExchange", x) \in FromServer
BY DEF FromController, FromServer, User

LEMMA NetworkStep ==
  ASSUME TypeOK, NEW r \in Rover,
         \/ NetworkTakes(r)
         \/ NetworkAsks(r)
         \/ \E s \in DOMAIN sess[r] : NetworkAnswers(r, s)
  PROVE  TypeOK' /\ Quiet
<1>0. r \in Client
  BY RoverIsClient
<1>1. CASE NetworkTakes(r)
  <2>1. outbox' \in [Client -> Seq(ToServer)]
    BY <1>0, <1>1 DEF NetworkTakes, TypeOK, BaseTypeOK
  <2> QED
    BY <1>1, <2>1 DEF NetworkTakes, TypeOK, BaseTypeOK, Quiet
<1>2. CASE NetworkAsks(r)
  <2>1. FromController("SDPReq", None) \in FromServer
    BY DEF FromController, FromServer, User
  <2>2. inbox' \in [Client -> Seq(FromServer)]
    BY <1>0, <1>2, <2>1 DEF NetworkAsks, NetworkGives, TypeOK, BaseTypeOK
  <2>3. requests' \in 0..MaxRequests
    BY <1>2, RoverAloneAssumption DEF NetworkAsks, TypeOK
  <2> QED
    BY <1>2, <2>2, <2>3 DEF NetworkAsks, NetworkGives, TypeOK, BaseTypeOK, Quiet
<1>3. ASSUME NEW s \in DOMAIN sess[r], NetworkAnswers(r, s)
      PROVE  TypeOK' /\ Quiet
  <2>1. s \in Nat \ {0}
    BY <1>0 DEF TypeOK, BaseTypeOK
  <2>2. PICK c \in Controller :
          NetworkGives(r, FromController("SDPExchange", Answer(c, s, Offer(r, s))))
    BY <1>3 DEF NetworkAnswers
  <2>3. Answer(c, s, Offer(r, s)) \in SDP
    BY <1>0, <2>1 DEF Answer, Offer, SDP, Session, Client
  <2>4. FromController("SDPExchange", Answer(c, s, Offer(r, s))) \in FromServer
    BY <2>3, FromControllerType
  <2>5. inbox' \in [Client -> Seq(FromServer)]
    BY <1>0, <2>2, <2>4 DEF NetworkGives, TypeOK, BaseTypeOK
  <2>6. answered' \subseteq Session
    BY <1>0, <1>3, <2>1 DEF NetworkAnswers, TypeOK, Session
  <2> QED
    BY <1>3, <2>2, <2>5, <2>6 DEF NetworkAnswers, NetworkGives, TypeOK, BaseTypeOK, Quiet
<1> QED
  BY <1>1, <1>2, <1>3

(***************************************************************************)
(* The inductive invariant.  Balanced alone is not inductive: that a Run   *)
(* loop which starts finds no session or signal of an earlier one needs    *)
(* WellFormed, and counting needs the types.                               *)
(***************************************************************************)
Inv == TypeOK /\ RoverBalanced /\ \A r \in Rover : WellFormed(r)

LEMMA InvInit == Init => Inv
<1> SUFFICES ASSUME Init PROVE Inv
  OBVIOUS
<1>1. TypeOK
  BY NoChansType, RoverAloneAssumption
  DEF Init, BaseInit, TypeOK, BaseTypeOK, NoRun, RunPc
<1>2. ASSUME NEW r \in Rover
      PROVE  WellFormed(r) /\ Balanced(r)
  <2>1. r \in Client
    BY RoverIsClient
  <2>2. /\ proc[r] = "off" /\ run[r].pc = "off" /\ sess[r] = <<>>
        /\ chans[r].WebrtcEndSignal = <<>>
    BY <2>1 DEF Init, BaseInit, NoRun, NoChans
  <2>3. Live(r) = 0
    BY <2>1, <2>2, LiveNone
  <2> QED
    BY <2>2, <2>3 DEF WellFormed, Balanced, RunIsSpawning, Live
<1> QED
  BY <1>1, <1>2 DEF Inv, RoverBalanced

LEMMA EffectOfNext ==
  ASSUME Inv, Next
  PROVE  TypeOK' /\ \A d \in Rover : Effect(d)
<1>1. PICK r \in Rover :
        \/ RoverStep(r) /\ UNCHANGED <<requests, answered>>
        \/ NetworkTakes(r)
        \/ NetworkAsks(r)
        \/ \E s \in DOMAIN sess[r] : NetworkAnswers(r, s)
  BY DEF Next
<1>2. CASE RoverStep(r) /\ UNCHANGED <<requests, answered>>
  <2>1. Step(r)
    BY <1>2, RoverStepStep DEF Inv, TypeOK
  <2> QED
    BY <1>2, <2>1, RoverIsClient DEF Step, Effect, Inv, TypeOK
<1>3. CASE \/ NetworkTakes(r)
           \/ NetworkAsks(r)
           \/ \E s \in DOMAIN sess[r] : NetworkAnswers(r, s)
  <2>1. TypeOK' /\ Quiet
    BY <1>3, NetworkStep DEF Inv
  <2> QED
    BY <2>1, QuietSame, RoverIsClient DEF Effect
<1> QED
  BY <1>1, <1>2, <1>3

LEMMA EffectOfStutter ==
  ASSUME Inv, UNCHANGED vars
  PROVE  TypeOK' /\ \A d \in Rover : Effect(d)
<1>1. Quiet
  BY DEF vars, baseVars, Quiet
<1>2. TypeOK'
  BY DEF Inv, TypeOK, BaseTypeOK, vars, baseVars
<1> QED
  BY <1>1, <1>2, QuietSame, RoverIsClient DEF Effect

LEMMA InvNext == Inv /\ [Next]_vars => Inv'
<1> SUFFICES ASSUME Inv, [Next]_vars PROVE Inv'
  OBVIOUS
<1>1. TypeOK' /\ \A d \in Rover : Effect(d)
  BY EffectOfNext, EffectOfStutter
<1>2. ASSUME NEW d \in Rover
      PROVE  WellFormed(d)' /\ Balanced(d)'
  BY <1>1, EffectKeeps, RoverIsClient DEF Inv, TypeOK, RoverBalanced
<1> QED
  BY <1>1, <1>2 DEF Inv, RoverBalanced

LEMMA InvHolds == Spec => []Inv
BY InvInit, InvNext, PTL DEF Spec

(* Types of the rover's state: in particular no channel of base.Service    *)
(* ever holds more than one element (base/service.go:53-56).               *)
THEOREM TypeCorrect == Spec => []TypeOK
<1>1. Inv => TypeOK
  BY DEF Inv
<1> QED
  BY <1>1, InvHolds, PTL

(* However many requests come and whenever sessions look at their signals, *)
(* a rover has one session that has yet to end per unread signal, and one  *)
(* more except while Run is about to start it (rover/service.go:372-383).  *)
THEOREM BalancedHolds == Spec => []RoverBalanced
<1>1. Inv => RoverBalanced
  BY DEF Inv
<1> QED
  BY <1>1, InvHolds, PTL

(***************************************************************************)
(* The refinement: an effect on Self is a step of SessionSupervisor or     *)
(* changes nothing it sees.                                                *)
(***************************************************************************)
LEMMA SelfIsClient == Self \in Rover /\ Self \in Client
BY RoverAloneAssumption, RoverIsClient

LEMMA EffectRefines ==
  ASSUME BaseTypeOK, BaseTypeOK', WellFormed(Self), Effect(Self)
  PROVE  [Supervisor!Next]_(Supervisor!vars)
<1>1. Seen(Self)
  BY SelfIsClient, EffectSeen
<1> QED
  BY <1>1
  DEF Seen, Supervisor!vars, Supervisor!Next, Supervisor!Start, Supervisor!Spawn,
      Supervisor!Request, Supervisor!Signal, Supervisor!EndSession, Supervisor!Die

(* Run and the sessions of a rover do nothing but what SessionSupervisor   *)
(* allows, whatever the network does (rover/service.go:353-385): what is   *)
(* proved about SessionSupervisor holds of the rover.                      *)
THEOREM RoverIsSupervised == Spec => Supervised
<1>1. Init => Supervisor!Init
  <2> SUFFICES ASSUME Init PROVE Supervisor!Init
    OBVIOUS
  <2>1. /\ run[Self].pc = "off" /\ sess[Self] = <<>>
        /\ chans[Self].WebrtcEndSignal = <<>>
    BY SelfIsClient DEF Init, BaseInit, NoRun, NoChans
  <2>2. Cardinality(LiveSessions(Self)) = 0
    BY <2>1, SelfIsClient, LiveNone DEF Live
  <2> QED
    BY <2>1, <2>2 DEF Supervisor!Init, SupervisorPhase
<1>2. Inv /\ Inv' /\ [Next]_vars => [Supervisor!Next]_(Supervisor!vars)
  <2> SUFFICES ASSUME Inv, Inv', [Next]_vars
               PROVE  [Supervisor!Next]_(Supervisor!vars)
    OBVIOUS
  <2>1. Effect(Self)
    BY EffectOfNext, EffectOfStutter, SelfIsClient
  <2> QED
    BY <2>1, EffectRefines, SelfIsClient DEF Inv, TypeOK
<1> QED
  BY <1>1, <1>2, InvHolds, PTL DEF Spec, Supervised, Supervisor!Spec

(***************************************************************************)
(* A rover that is not taken down from outside ends in a port conflict,    *)
(* and then two of its sessions have not exited: one is closing, or one    *)
(* has a signal to read.                                                   *)
(***************************************************************************)
LEMMA RoverDies ==
  ASSUME TypeOK, NEW r \in Rover, RoverStep(r), proc[r] = "up", proc'[r] = "down"
  PROVE  Exit(r) \/ \E s \in DOMAIN sess[r] : RoverPortConflict(r, s)
<1>1. CASE RoverStart(r)
  BY <1>1 DEF RoverStart, Boot
<1>2. CASE SignIn(r) \/ SendSDP(r) \/ SendSDPReq(r) \/ ServerRecv(r)
  <2>1. Quiet
    BY <1>2, RoverIsClient, SignInStep, SendStep, ServerRecvStep DEF TypeOK
  <2> QED
    BY <2>1 DEF Quiet
<1>3. CASE RoverRun(r)
  BY <1>3 DEF RoverRun, RoverSpawn, RoverRunRequest, RoverRunSignal
<1>4. ASSUME NEW s \in DOMAIN sess[r], RoverSession(r, s)
      PROVE  RoverPortConflict(r, s)
  BY <1>4
  DEF RoverSession, RoverListen, RoverFirstPacket, RoverOffer, RoverAnswered, RoverEnd,
      RoverClosed
<1> QED
  BY <1>1, <1>2, <1>3, <1>4 DEF RoverStep

LEMMA ConflictWhileEnding ==
  ASSUME TypeOK, NEW r \in Rover, Balanced(r), NEW s \in DOMAIN sess[r], RoverPortConflict(r, s)
  PROVE  chans[r].WebrtcEndSignal # <<>> \/ \E t \in DOMAIN sess[r] : StageIs(r, t, "closing")
<1>0. SUFFICES ASSUME ~ \E t \in DOMAIN sess[r] : StageIs(r, t, "closing")
               PROVE  chans[r].WebrtcEndSignal # <<>>
  OBVIOUS
<1>1. PICK t \in HoldsPort(r) : TRUE
  BY DEF RoverPortConflict
<1>2. s # t /\ {s, t} \subseteq LiveSessions(r)
  BY <1>0 DEF RoverPortConflict, StageIs, HoldsPort, LiveSessions
<1>3. Cardinality({s, t}) = 2
  <2>1. IsFiniteSet({t}) /\ Cardinality({t}) = 1
    BY FS_Singleton
  <2>2. {s, t} = {t} \cup {s} /\ s \notin {t}
    BY <1>2
  <2> QED
    BY <2>1, <2>2, FS_AddElement
<1>4. IsFiniteSet(LiveSessions(r)) /\ Live(r) \in Nat
  BY RoverIsClient, LiveFinite DEF TypeOK, BaseTypeOK
<1>5. 2 <= Live(r)
  BY <1>2, <1>3, <1>4, FS_Subset DEF Live
<1>6. Len(chans[r].WebrtcEndSignal) \in Nat
  BY RoverIsClient DEF TypeOK, BaseTypeOK, Chans, Chan
<1>7. Len(chans[r].WebrtcEndSignal) # 0
  <2> DEFINE n == Len(chans[r].WebrtcEndSignal)
             k == IF RunIsSpawning(r) THEN 0 ELSE 1
  <2>1. Live(r) = n + k /\ k \in {0, 1}
    BY DEF Balanced, Live
  <2> HIDE DEF n, k
  <2> QED
    BY <1>4, <1>5, <2>1 DEF n
<1> QED
  BY <1>7

(* A rover that nothing else takes down loses its process to port 5004     *)
(* only while one of its sessions is being ended: an end signal is unread, *)
(* or the session that has read it still holds the port, closing its peer  *)
(* connection (rover/service.go:220-228, 279, 307-316).  Sessions that     *)
(* wait for their answer or stream, with no signal on its way, are never   *)
(* the reason.                                                             *)
THEOREM DiesOnlyWhileEndingHolds == Spec => DiesOnlyWhileEnding
<1> DEFINE IsEnding(r) == \/ chans[r].WebrtcEndSignal # <<>>
                          \/ \E s \in DOMAIN sess[r] : StageIs(r, s, "closing")
           DiesEnding == \A r \in Rover \ MayExit :
                           proc[r] = "up" /\ proc'[r] = "down" => IsEnding(r)
<1>1. Inv /\ [Next]_vars => [DiesEnding]_vars
  <2> SUFFICES ASSUME Inv, Next, NEW r \in Rover \ MayExit, proc[r] = "up", proc'[r] = "down"
               PROVE  IsEnding(r)
    OBVIOUS
  <2>1. PICK q \in Rover :
          \/ RoverStep(q) /\ UNCHANGED <<requests, answered>>
          \/ NetworkTakes(q)
          \/ NetworkAsks(q)
          \/ \E s \in DOMAIN sess[q] : NetworkAnswers(q, s)
    BY DEF Next
  <2>2. CASE RoverStep(q) /\ q = r
    <3>1. ~Exit(r)
      BY DEF Exit
    <3>2. PICK s \in DOMAIN sess[r] : RoverPortConflict(r, s)
      BY <2>2, <3>1, RoverDies DEF Inv
    <3> QED
      BY <3>2, ConflictWhileEnding DEF Inv, RoverBalanced
  <2>3. CASE RoverStep(q) /\ q # r
    <3>1. Step(q)
      BY <2>3, RoverStepStep DEF Inv, TypeOK
    <3>2. proc'[r] = proc[r]
      BY <2>3, <3>1, RoverIsClient DEF Step, Same
    <3> QED
      BY <3>2
  <2>4. CASE \/ NetworkTakes(q)
             \/ NetworkAsks(q)
             \/ \E s \in DOMAIN sess[q] : NetworkAnswers(q, s)
    <3>1. Quiet
      BY <2>4, NetworkStep DEF Inv
    <3> QED
      BY <3>1 DEF Quiet
  <2> QED
    BY <2>1, <2>2, <2>3, <2>4
<1>2. Spec => [][DiesEnding]_vars
  BY <1>1, InvHolds, PTL DEF Spec
<1> QED
  BY <1>2 DEF DiesOnlyWhileEnding

=============================================================================
