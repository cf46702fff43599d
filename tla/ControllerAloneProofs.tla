------------------------ MODULE ControllerAloneProofs ------------------------
(***************************************************************************)
(* Theorems about the controller, for any number of incarnations and       *)
(* offers and whichever of them have GstreamerCli: types, the accounting   *)
(* of their sessions, what Run implements, and that no offer is lost.      *)
(***************************************************************************)
EXTENDS ControllerAlone, ServiceProofs

(***************************************************************************)
(* The network's steps.                                                    *)
(***************************************************************************)
LEMMA NetworkStep ==
  ASSUME TypeOK, (\E c \in Controller : NetworkTakes(c)) \/ NetworkOffers
  PROVE  TypeOK' /\ Quiet
<1>1. ASSUME NEW c \in Controller, NetworkTakes(c)
      PROVE  TypeOK' /\ Quiet
  <2>1. outbox' \in [Client -> Seq(ToServer)]
    BY <1>1, ControllerIsClient DEF NetworkTakes, TypeOK, BaseTypeOK
  <2> QED
    BY <1>1, <2>1 DEF NetworkTakes, TypeOK, BaseTypeOK, Quiet
<1>2. CASE NetworkOffers
  <2>1. offers' \in 0..MaxOffers /\ offers' \in Nat \ {0}
    BY <1>2, ControllerAloneAssumption DEF NetworkOffers, TypeOK
  <2>2. Offer(Peer, offers') \in SDP
    BY <2>1, ControllerAloneAssumption DEF Offer, SDP, Session, Client
  <2> DEFINE m == [id |-> 6, from_user |-> 2, messageType |-> "SDPExchange",
                   message |-> Offer(Peer, offers')]
  <2>3. m \in FromServer
    BY <2>2 DEF FromServer, User
  <2>4. inbox' = [inbox EXCEPT ![Self] = Append(@, m)]
    BY <1>2 DEF NetworkOffers
  <2> HIDE DEF m
  <2>5. inbox' \in [Client -> Seq(FromServer)]
    BY <2>3, <2>4, ControllerAloneAssumption, ControllerIsClient DEF TypeOK, BaseTypeOK
  <2> QED
    BY <1>2, <2>1, <2>5 DEF NetworkOffers, TypeOK, BaseTypeOK, Quiet
<1> QED
  BY <1>1, <1>2

(***************************************************************************)
(* The inductive invariant.  As for the rover, with HasOffer: that what    *)
(* Run puts back and what a session answers is an offer depends on what    *)
(* was taken steps before.                                                 *)
(***************************************************************************)
Inv ==
  /\ TypeOK
  /\ ControllerBalanced
  /\ \A c \in Controller : WellFormed(c) /\ HasOffer(c)

LEMMA InvInit == Init => Inv
<1> SUFFICES ASSUME Init PROVE Inv
  OBVIOUS
<1>1. TypeOK
  BY NoChansType, ControllerAloneAssumption
  DEF Init, BaseInit, TypeOK, BaseTypeOK, NoRun, RunPc
<1>2. ASSUME NEW c \in Controller
      PROVE  WellFormed(c) /\ HasOffer(c) /\ Balanced(c)
  <2>1. c \in Client
    BY ControllerIsClient
  <2>2. /\ proc[c] = "off" /\ run[c].pc = "off" /\ sess[c] = <<>>
        /\ chans[c].WebrtcEndSignal = <<>>
    BY <2>1 DEF Init, BaseInit, NoRun, NoChans
  <2>3. Live(c) = 0
    BY <2>1, <2>2, LiveNone
  <2> QED
    BY <2>2, <2>3 DEF WellFormed, HasOffer, Balanced, RunIsSpawning, Live
<1> QED
  BY <1>1, <1>2 DEF Inv, ControllerBalanced

LEMMA EffectOfNext ==
  ASSUME Inv, Next
  PROVE  TypeOK' /\ \A d \in Controller : Effect(d) /\ HasOffer(d)'
<1>1. ASSUME NEW c \in Controller, Own(ControllerStep(c))
      PROVE  TypeOK' /\ \A d \in Controller : Effect(d) /\ HasOffer(d)'
  <2>1. ControllerStep(c) /\ offers' = offers
    BY <1>1 DEF Own
  <2>2. Step(c) /\ HasOffer(c)'
    BY <2>1, ControllerStepStep DEF Inv, TypeOK
  <2>3. TypeOK' /\ \A d \in Controller : Effect(d)
    BY <2>1, <2>2, ControllerIsClient DEF Step, Effect, Inv, TypeOK
  <2>4. ASSUME NEW d \in Controller, d # c
        PROVE  HasOffer(d)'
    <3>1. run'[d] = run[d] /\ sess'[d] = sess[d]
      BY <2>2, <2>4, ControllerIsClient DEF Step, Same
    <3> QED
      BY <3>1 DEF Inv, HasOffer
  <2> QED
    BY <2>2, <2>3, <2>4
<1>2. ASSUME (\E c \in Controller : NetworkTakes(c)) \/ NetworkOffers
      PROVE  TypeOK' /\ \A d \in Controller : Effect(d) /\ HasOffer(d)'
  <2>1. TypeOK' /\ Quiet
    BY <1>2, NetworkStep DEF Inv
  <2> QED
    BY <2>1, QuietSame, ControllerIsClient DEF Effect, Quiet, Inv, HasOffer
<1> QED
  BY <1>1, <1>2 DEF Next

LEMMA EffectOfStutter ==
  ASSUME Inv, UNCHANGED vars
  PROVE  TypeOK' /\ \A d \in Controller : Effect(d) /\ HasOffer(d)'
<1>1. Quiet
  BY DEF vars, baseVars, Quiet
<1>2. TypeOK'
  BY DEF Inv, TypeOK, BaseTypeOK, vars, baseVars
<1> QED
  BY <1>1, <1>2, QuietSame, ControllerIsClient DEF Effect, Quiet, Inv, HasOffer

LEMMA InvNext == Inv /\ [Next]_vars => Inv'
<1> SUFFICES ASSUME Inv, [Next]_vars PROVE Inv'
  OBVIOUS
<1>1. TypeOK' /\ \A d \in Controller : Effect(d) /\ HasOffer(d)'
  BY EffectOfNext, EffectOfStutter
<1>2. ASSUME NEW d \in Controller
      PROVE  WellFormed(d)' /\ Balanced(d)'
  BY <1>1, EffectKeeps, ControllerIsClient DEF Inv, TypeOK, ControllerBalanced
<1> QED
  BY <1>1, <1>2 DEF Inv, ControllerBalanced

LEMMA InvHolds == Spec => []Inv
BY InvInit, InvNext, PTL DEF Spec

(* Types of the controller's state: no channel of base.Service             *)
(* ever holds more than one element (base/service.go:53-56).               *)
THEOREM TypeCorrect == Spec => []TypeOK
<1>1. Inv => TypeOK
  BY DEF Inv
<1> QED
  BY <1>1, InvHolds, PTL

(* However many offers come, whether Run or a session takes each, and      *)
(* whenever sessions look at their signals, a controller has one session   *)
(* that has not exited per unread signal, and one more except while Run is *)
(* about to start it (controller/service.go:394-408).                      *)
THEOREM BalancedHolds == Spec => []ControllerBalanced
<1>1. Inv => ControllerBalanced
  BY DEF Inv
<1> QED
  BY <1>1, InvHolds, PTL

(***************************************************************************)
(* The refinement: an effect on Self is a step of SessionSupervisor or     *)
(* changes nothing it sees.                                                *)
(***************************************************************************)
LEMMA SelfIsClient == Self \in Controller /\ Self \in Client
BY ControllerAloneAssumption, ControllerIsClient

LEMMA EffectRefines ==
  ASSUME BaseTypeOK, BaseTypeOK', WellFormed(Self), Effect(Self)
  PROVE  [Supervisor!Next]_(Supervisor!vars)
<1>1. Seen(Self)
  BY SelfIsClient, EffectSeen
<1> QED
  BY <1>1
  DEF Seen, Supervisor!vars, Supervisor!Next, Supervisor!Start, Supervisor!Spawn,
      Supervisor!Request, Supervisor!Signal, Supervisor!EndSession, Supervisor!Die

(* Run and the sessions of a controller do nothing but what                *)
(* SessionSupervisor allows, whatever offers the network delivers          *)
(* (controller/service.go:377-409): what is proved about SessionSupervisor *)
(* holds of the controller.                                                *)
THEOREM ControllerIsSupervised == Spec => Supervised
<1>1. Init => Supervisor!Init
  <2> SUFFICES ASSUME Init PROVE Supervisor!Init
    OBVIOUS
  <2>1. /\ run[Self].pc = "off" /\ sess[Self] = <<>>
        /\ chans[Self].WebrtcEndSignal = <<>>
    BY SelfIsClient DEF Init, BaseInit, NoRun, NoChans
  <2>2. Cardinality(LiveSessions(Self)) = 0
    BY <2>1, SelfIsClient, LiveNone DEF Live
  <2> QED
    BY <2>1, <2>2 DEF Supervisor!Init, SupervisorPhase
<1>2. Inv /\ Inv' /\ [Next]_vars => [Supervisor!Next]_(Supervisor!vars)
  <2> SUFFICES ASSUME Inv, Inv', [Next]_vars
               PROVE  [Supervisor!Next]_(Supervisor!vars)
    OBVIOUS
  <2>1. Effect(Self)
    BY EffectOfNext, EffectOfStutter, SelfIsClient
  <2> QED
    BY <2>1, EffectRefines, SelfIsClient DEF Inv, TypeOK
<1> QED
  BY <1>1, <1>2, InvHolds, PTL DEF Spec, Supervised, Supervisor!Spec

(***************************************************************************)
(* Where the offers are: in the connection, in RemoteSDPCh, in the hands   *)
(* of Run, or with the session that has used one.                          *)
(***************************************************************************)
Elems(q) == {q[i] : i \in DOMAIN q}

Mail(q) == {q[i].message : i \in DOMAIN q}

Used == {k \in DOMAIN sess[Self] : sess[Self][k].sdp # None}

UsedSDPs == {sess[Self][k].sdp : k \in DOMAIN sess[Self]}

RunHas == IF run[Self].sdp = None THEN 0 ELSE 1

(* The sums that come up, when one moves from a place to another. *)
LEMMA Sums ==
  \A a, b, c, d \in Nat :
    /\ (a - 1) + (b + 1) + c + d = a + b + c + d
    /\ a + (b - 1) + 1 + d = a + b + 0 + d
    /\ a + (b + 1) + 0 + d = a + b + 1 + d
    /\ a + (b - 1) + c + (d + 1) = a + b + c + d
    /\ (a + 1) + b + c + d = (a + b + c + d) + 1
OBVIOUS

LEMMA HeldParts ==
  /\ Held = Mail(inbox[Self]) \cup Elems(chans[Self].RemoteSDPCh) \cup {run[Self].sdp} \cup UsedSDPs
  /\ HeldCount = Len(inbox[Self]) + Len(chans[Self].RemoteSDPCh) + RunHas + Cardinality(Used)
BY DEF Held, HeldCount, Range, Mail, Elems, Used, UsedSDPs, RunHas

LEMMA HeldPartsNext ==
  /\ Held' = Mail(inbox'[Self]) \cup Elems(chans'[Self].RemoteSDPCh) \cup {run'[Self].sdp}
             \cup UsedSDPs'
  /\ HeldCount' = Len(inbox'[Self]) + Len(chans'[Self].RemoteSDPCh) + RunHas'
                  + Cardinality(Used')
BY DEF Held, HeldCount, Range, Mail, Elems, Used, UsedSDPs, RunHas

LEMMA SeqElems ==
  ASSUME NEW S, NEW q \in Seq(S)
  PROVE  /\ Len(q) \in Nat
         /\ q # <<>> => /\ Elems(q) \subseteq {Head(q)} \cup Elems(Tail(q))
                        /\ Mail(q) \subseteq {Head(q).message} \cup Mail(Tail(q))
                        /\ Len(Tail(q)) = Len(q) - 1 /\ Len(Tail(q)) \in Nat
                        /\ Tail(q) \in Seq(S)
         /\ \A x \in S : /\ Elems(q) \cup {x} \subseteq Elems(Append(q, x))
                         /\ Mail(q) \cup {x.message} \subseteq Mail(Append(q, x))
                         /\ Len(Append(q, x)) = Len(q) + 1
<1>1. Len(q) \in Nat /\ DOMAIN q = 1..Len(q)
  OBVIOUS
<1>2. ASSUME q # <<>>
      PROVE  /\ Elems(q) \subseteq {Head(q)} \cup Elems(Tail(q))
             /\ Mail(q) \subseteq {Head(q).message} \cup Mail(Tail(q))
             /\ Len(Tail(q)) = Len(q) - 1 /\ Len(Tail(q)) \in Nat
             /\ Tail(q) \in Seq(S)
  <2> DEFINE t == Tail(q)
  <2>1. /\ Len(t) = Len(q) - 1 /\ Len(t) \in Nat /\ DOMAIN t = 1..(Len(q) - 1)
        /\ Head(q) = q[1] /\ t \in Seq(S)
        /\ \A i \in DOMAIN t : t[i] = q[i + 1]
    BY <1>2
  <2> HIDE DEF t
  <2>2. ASSUME NEW i \in DOMAIN q
        PROVE  q[i] = Head(q) \/ \E j \in DOMAIN t : q[i] = t[j]
    <3>1. i = 1 \/ (i - 1 \in DOMAIN t /\ (i - 1) + 1 = i)
      BY <1>1, <2>1
    <3> QED
      BY <2>1, <3>1
  <2>3. Elems(q) \subseteq {Head(q)} \cup Elems(t) /\ Mail(q) \subseteq {Head(q).message} \cup Mail(t)
    BY <2>2 DEF Elems, Mail
  <2> QED
    BY <2>1, <2>3 DEF t
<1>3. ASSUME NEW x \in S
      PROVE  /\ Elems(q) \cup {x} \subseteq Elems(Append(q, x))
             /\ Mail(q) \cup {x.message} \subseteq Mail(Append(q, x))
             /\ Len(Append(q, x)) = Len(q) + 1
  <2> DEFINE t == Append(q, x)
             n == Len(q) + 1
  <2>1. /\ Len(t) = n /\ DOMAIN q \subseteq DOMAIN t /\ n \in DOMAIN t /\ t[n] = x
        /\ \A i \in DOMAIN q : t[i] = q[i]
    BY <1>1
  <2> HIDE DEF t, n
  <2>2. Elems(q) \cup {x} \subseteq Elems(t) /\ Mail(q) \cup {x.message} \subseteq Mail(t)
    BY <2>1 DEF Elems, Mail
  <2> QED
    BY <2>1, <2>2 DEF t, n
<1> QED
  BY <1>1, <1>2, <1>3

(***************************************************************************)
(* The inductive invariant of OffersKept: only offers come, Run holds one  *)
(* between its receive and its put-back, and a session that waits has had  *)
(* none.                                                                   *)
(***************************************************************************)
OnlyOffers ==
  \A i \in DOMAIN inbox[Self] :
    inbox[Self][i].id = 6 /\ inbox[Self][i].messageType = "SDPExchange"

RunHolds == run[Self].sdp # None <=> run[Self].pc \in {"signal", "putback"}

Waits ==
  \A k \in DOMAIN sess[Self] : sess[Self][k].stage = "waiting" => sess[Self][k].sdp = None

NotYet ==
  proc[Self] = "off" => offers = 0 /\ inbox[Self] = <<>> /\ chans[Self].RemoteSDPCh = <<>>

KeptInv == OnlyOffers /\ RunHolds /\ Waits /\ NotYet /\ OffersKept

LEMMA KeptTypes ==
  ASSUME TypeOK
  PROVE  /\ chans \in [Client -> Chans]
         /\ inbox[Self] \in Seq(FromServer) /\ chans[Self].RemoteSDPCh \in Seq(SDP)
         /\ Len(inbox[Self]) \in Nat /\ Len(chans[Self].RemoteSDPCh) \in Nat
         /\ RunHas \in Nat /\ Cardinality(Used) \in Nat /\ IsFiniteSet(Used)
         /\ sess[Self] \in Seq(SessionState) /\ offers \in Nat
<1>1. /\ chans \in [Client -> Chans] /\ sess[Self] \in Seq(SessionState)
      /\ inbox[Self] \in Seq(FromServer) /\ chans[Self].RemoteSDPCh \in Seq(SDP)
      /\ offers \in Nat
  BY SelfIsClient, ControllerAloneAssumption DEF TypeOK, BaseTypeOK, Chans, Chan
<1>2. Len(sess[Self]) \in Nat /\ DOMAIN sess[Self] = 1..Len(sess[Self])
  BY <1>1
<1>3. IsFiniteSet(Used)
  <2>1. IsFiniteSet(1..Len(sess[Self])) /\ Used \subseteq 1..Len(sess[Self])
    BY <1>2, FS_Interval DEF Used
  <2> QED
    BY <2>1, FS_Subset
<1> QED
  BY <1>1, <1>3, FS_CardinalityType DEF RunHas

(* Nothing is lost and nothing counted twice. *)
LEMMA KeptBy ==
  ASSUME KeptInv, TypeOK, proc[Self] = "up", offers' = offers,
         \A x \in SDP : x \in Held => x \in Held', HeldCount' = HeldCount
  PROVE  OffersKept'
<1>1. {Offer(Peer, n) : n \in 1..offers} \subseteq Held /\ HeldCount = offers
  BY DEF KeptInv, OffersKept
<1>2. \A n \in 1..offers : Offer(Peer, n) \in SDP
  BY KeptTypes, ControllerAloneAssumption DEF Offer, SDP, Session, Client
<1>3. {Offer(Peer, n) : n \in 1..offers'} \subseteq Held'
  BY <1>1, <1>2
<1> QED
  BY <1>1, <1>3 DEF OffersKept

(* A step that moves no offer of Self. *)
LEMMA KeptSame ==
  ASSUME KeptInv, proc'[Self] = proc[Self], offers' = offers, inbox'[Self] = inbox[Self],
         chans'[Self].RemoteSDPCh = chans[Self].RemoteSDPCh,
         run'[Self] = run[Self], sess'[Self] = sess[Self]
  PROVE  KeptInv'
<1>1. Held' = Held /\ HeldCount' = HeldCount
  BY DEF Held, HeldCount
<1> QED
  BY <1>1 DEF KeptInv, OnlyOffers, RunHolds, Waits, NotYet, OffersKept

(* The step of a session that is given nothing. *)
LEMMA KeptStage ==
  ASSUME KeptInv, TypeOK, proc[Self] = "up", UNCHANGED <<proc, offers, inbox, run>>,
         chans'[Self].RemoteSDPCh = chans[Self].RemoteSDPCh,
         NEW k \in DOMAIN sess[Self], NEW e, e.sdp = sess[Self][k].sdp, e.stage # "waiting",
         sess' = [sess EXCEPT ![Self] = [@ EXCEPT ![k] = e]]
  PROVE  KeptInv'
<1>1. /\ DOMAIN sess'[Self] = DOMAIN sess[Self] /\ sess'[Self][k] = e
      /\ \A i \in DOMAIN sess[Self] : i # k => sess'[Self][i] = sess[Self][i]
  BY SelfIsClient DEF TypeOK, BaseTypeOK
<1>2. \A i \in DOMAIN sess[Self] : sess'[Self][i].sdp = sess[Self][i].sdp
  BY <1>1
<1>3. UsedSDPs' = UsedSDPs /\ Used' = Used
  BY <1>1, <1>2 DEF UsedSDPs, Used
<1>4. Held' = Held /\ HeldCount' = HeldCount
  BY <1>3, HeldParts, HeldPartsNext DEF RunHas
<1>5. OffersKept'
  BY <1>4, KeptBy
<1>6. Waits'
  BY <1>1 DEF KeptInv, Waits
<1> QED
  BY <1>5, <1>6 DEF KeptInv, OnlyOffers, RunHolds, NotYet

LEMMA KeptGoTo ==
  ASSUME KeptInv, TypeOK, proc[Self] = "up", UNCHANGED <<proc, offers, inbox, run>>,
         chans'[Self].RemoteSDPCh = chans[Self].RemoteSDPCh,
         NEW k \in DOMAIN sess[Self], NEW stage, stage # "waiting", GoTo(Self, k, stage)
  PROVE  KeptInv'
<1> DEFINE e == [sess[Self][k] EXCEPT !.stage = stage]
<1>1. sess[Self][k] \in SessionState
  BY KeptTypes
<1>2. e.sdp = sess[Self][k].sdp /\ e.stage = stage
  BY <1>1 DEF SessionState
<1>3. sess' = [sess EXCEPT ![Self] = [@ EXCEPT ![k] = e]]
  BY DEF GoTo
<1> HIDE DEF e
<1> QED
  BY <1>2, <1>3, KeptStage

LEMMA KeptDie ==
  ASSUME KeptInv, TypeOK, Die(Self), UNCHANGED offers
  PROVE  KeptInv'
<1>1. /\ proc'[Self] = "down" /\ inbox'[Self] = <<>> /\ sess'[Self] = <<>>
      /\ run'[Self] = NoRun
  BY SelfIsClient DEF Die, TypeOK, BaseTypeOK
<1> QED
  BY <1>1 DEF KeptInv, OnlyOffers, RunHolds, Waits, NotYet, OffersKept, NoRun

LEMMA KeptStart ==
  ASSUME KeptInv, TypeOK, WellFormed(Self), ControllerStart(Self), UNCHANGED offers
  PROVE  KeptInv'
<1>1. proc[Self] = "off" /\ proc'[Self] = "up"
  BY SelfIsClient DEF ControllerStart, Boot, TypeOK, BaseTypeOK
<1>2. /\ offers' = 0 /\ inbox'[Self] = <<>> /\ sess'[Self] = <<>> /\ run[Self].pc = "off"
  BY <1>1 DEF KeptInv, NotYet, WellFormed, ControllerStart, Boot
<1>3. chans'[Self].RemoteSDPCh = <<>>
  BY SelfIsClient DEF ControllerStart, Boot, TypeOK, BaseTypeOK, NoChans
<1>4. run'[Self].pc = "spawn" /\ run'[Self].sdp = None
  <2>1. run[Self].sdp = None
    BY <1>2 DEF KeptInv, RunHolds
  <2> QED
    BY <2>1, SelfIsClient DEF ControllerStart, Boot, TypeOK, BaseTypeOK
<1>5. HeldCount' = 0
  <2>1. Used' = {} /\ RunHas' = 0
    BY <1>2, <1>4 DEF Used, RunHas
  <2>2. Cardinality(Used') = 0
    BY <2>1, FS_EmptySet
  <2>3. HeldCount' = Len(inbox'[Self]) + Len(chans'[Self].RemoteSDPCh) + RunHas' + Cardinality(Used')
    BY DEF HeldCount, Used, RunHas
  <2> QED
    BY <1>2, <1>3, <2>1, <2>2, <2>3
<1>6. OffersKept'
  BY <1>2, <1>5 DEF OffersKept
<1> QED
  BY <1>1, <1>2, <1>4, <1>6 DEF KeptInv, OnlyOffers, RunHolds, Waits, NotYet

(* ServerRecv takes an offer off the connection. *)
LEMMA KeptRecv ==
  ASSUME KeptInv, TypeOK, ServerRecv(Self), UNCHANGED offers
  PROVE  KeptInv'
<1> DEFINE q == inbox[Self]
           x == Head(q).message
           t == chans[Self].RemoteSDPCh
<1>1. Receive(Self) /\ q \in Seq(FromServer) /\ q # <<>> /\ t \in Seq(SDP)
  BY KeptTypes DEF ServerRecv, RecvNotice, RecvSDP, RecvSDPReq, Receive
<1>2. Head(q).id = 6 /\ Head(q).messageType = "SDPExchange" /\ Head(q) \in FromServer
  BY <1>1 DEF KeptInv, OnlyOffers
<1>3. x \in SDP /\ RecvSDP(Self)
  <2>1. x \in SDP
    BY <1>2 DEF FromServer
  <2>2. ASSUME RecvNotice(Self)
        PROVE  FALSE
    BY <1>2, <2>2 DEF RecvNotice
  <2>3. ASSUME RecvSDPReq(Self)
        PROVE  FALSE
    BY <1>2, <2>3 DEF RecvSDPReq
  <2> QED
    BY <2>1, <2>2, <2>3 DEF ServerRecv
<1>4. /\ proc[Self] = "up" /\ inbox'[Self] = Tail(q)
      /\ UNCHANGED <<proc, outbox, run, sess>>
  BY <1>1, SelfIsClient DEF Receive, TypeOK, BaseTypeOK
<1>5. chans'[Self].RemoteSDPCh = Append(t, x)
  BY <1>3, KeptTypes, SelfIsClient, SendPlaces DEF RecvSDP
<1>6. /\ Mail(q) \subseteq {x} \cup Mail(Tail(q)) /\ Elems(t) \cup {x} \subseteq Elems(Append(t, x))
      /\ Len(Tail(q)) = Len(q) - 1 /\ Len(Append(t, x)) = Len(t) + 1
      /\ Len(q) \in Nat /\ Len(t) \in Nat
  BY <1>1, <1>3, SeqElems
<1>7. UsedSDPs' = UsedSDPs /\ Used' = Used /\ RunHas' = RunHas
  BY <1>4 DEF UsedSDPs, Used, RunHas
<1>8. OnlyOffers'
  <2>1. \A i \in DOMAIN Tail(q) : i + 1 \in DOMAIN q /\ Tail(q)[i] = q[i + 1]
    BY <1>1
  <2> QED
    BY <1>4, <2>1 DEF KeptInv, OnlyOffers
<1> HIDE DEF q, x, t
<1>9. Held \subseteq Held'
  BY <1>4, <1>5, <1>6, <1>7, HeldParts, HeldPartsNext DEF q, t
<1>10. HeldCount' = HeldCount
  <2>1. /\ HeldCount = Len(q) + Len(t) + RunHas + Cardinality(Used)
        /\ HeldCount' = (Len(q) - 1) + (Len(t) + 1) + RunHas + Cardinality(Used)
    BY <1>4, <1>5, <1>6, <1>7, HeldParts, HeldPartsNext DEF q, t
  <2>2. RunHas \in Nat /\ Cardinality(Used) \in Nat /\ Len(inbox[Self]) \in Nat
    BY KeptTypes
  <2> QED
    BY <1>6, <2>1, <2>2, Sums
<1>11. OffersKept'
  BY <1>4, <1>9, <1>10, KeptBy
<1> QED
  BY <1>4, <1>8, <1>11 DEF KeptInv, RunHolds, Waits, NotYet

LEMMA KeptSpawn ==
  ASSUME KeptInv, TypeOK, WellFormed(Self), ControllerSpawn(Self), UNCHANGED offers
  PROVE  KeptInv'
<1> DEFINE q == sess[Self]
           n == Len(q) + 1
<1>1. /\ proc[Self] = "up" /\ run[Self].pc = "spawn" /\ UNCHANGED <<proc, chans, inbox>>
      /\ run'[Self].pc \in {"select", "mainloop"} /\ run'[Self].sdp = run[Self].sdp
      /\ sess'[Self] = Append(q, NewSession("waiting")) /\ q \in Seq(SessionState)
  BY SelfIsClient, KeptTypes DEF ControllerSpawn, WellFormed, TypeOK, BaseTypeOK
<1>2. NewSession("waiting").sdp = None
  BY DEF NewSession
<1>3. /\ DOMAIN sess'[Self] = DOMAIN q \cup {n}
      /\ n \notin DOMAIN q /\ sess'[Self][n] = NewSession("waiting")
      /\ \A i \in DOMAIN q : sess'[Self][i] = q[i]
  BY <1>1
<1> HIDE DEF n
<1>4. UsedSDPs \subseteq UsedSDPs' /\ Used' = Used /\ RunHas' = RunHas
  BY <1>1, <1>2, <1>3 DEF UsedSDPs, Used, RunHas
<1>5. Held \subseteq Held' /\ HeldCount' = HeldCount
  BY <1>1, <1>4, HeldParts, HeldPartsNext
<1>6. OffersKept'
  BY <1>1, <1>5, KeptBy
<1>7. RunHolds'
  BY <1>1 DEF KeptInv, RunHolds
<1>8. Waits'
  BY <1>2, <1>3 DEF KeptInv, Waits
<1> QED
  BY <1>1, <1>6, <1>7, <1>8 DEF KeptInv, OnlyOffers, NotYet

(* Run takes an offer, *)
LEMMA KeptRunOffer ==
  ASSUME KeptInv, TypeOK, WellFormed(Self), ControllerRunOffer(Self), UNCHANGED offers
  PROVE  KeptInv'
<1> DEFINE t == chans[Self].RemoteSDPCh
           x == Head(t)
<1>1. /\ proc[Self] = "up" /\ run[Self].pc = "select" /\ UNCHANGED <<proc, inbox, sess>>
      /\ run'[Self].pc = "signal" /\ run'[Self].sdp = x
  BY SelfIsClient DEF ControllerRunOffer, WellFormed, TypeOK, BaseTypeOK
<1>2. t \in Seq(SDP) /\ t # <<>> /\ chans'[Self].RemoteSDPCh = Tail(t)
  BY SelfIsClient, KeptTypes, RecvPlaces DEF ControllerRunOffer
<1>3. x \in SDP /\ x # None
  BY <1>2, SDPAssumption
<1>4. /\ Elems(t) \subseteq {x} \cup Elems(Tail(t))
      /\ Len(Tail(t)) = Len(t) - 1 /\ Len(t) \in Nat
  BY <1>2, SeqElems
<1>5. run[Self].sdp = None
  BY <1>1 DEF KeptInv, RunHolds
<1>6. RunHas = 0 /\ RunHas' = 1 /\ UsedSDPs' = UsedSDPs /\ Used' = Used
  BY <1>1, <1>3, <1>5 DEF RunHas, UsedSDPs, Used
<1> HIDE DEF t, x
<1>7. \A y \in SDP : y \in Held => y \in Held'
  BY <1>1, <1>2, <1>4, <1>5, <1>6, HeldParts, HeldPartsNext, SDPAssumption DEF t
<1>8. HeldCount' = HeldCount
  <2>1. /\ HeldCount = Len(inbox[Self]) + Len(t) + 0 + Cardinality(Used)
        /\ HeldCount' = Len(inbox[Self]) + (Len(t) - 1) + 1 + Cardinality(Used)
    BY <1>1, <1>2, <1>4, <1>6, HeldParts, HeldPartsNext DEF t
  <2>2. RunHas \in Nat /\ Cardinality(Used) \in Nat /\ Len(inbox[Self]) \in Nat
    BY KeptTypes
  <2> QED
    BY <1>4, <2>1, <2>2, Sums
<1>9. OffersKept'
  BY <1>1, <1>7, <1>8, KeptBy
<1>10. RunHolds'
  BY <1>1, <1>3 DEF RunHolds
<1> QED
  BY <1>1, <1>9, <1>10 DEF KeptInv, OnlyOffers, Waits, NotYet

LEMMA KeptRunSignal ==
  ASSUME KeptInv, TypeOK, WellFormed(Self), ControllerRunSignal(Self), UNCHANGED offers
  PROVE  KeptInv'
<1>1. /\ proc[Self] = "up" /\ run[Self].pc = "signal" /\ UNCHANGED <<proc, inbox, sess>>
      /\ run'[Self].pc = "putback" /\ run'[Self].sdp = run[Self].sdp
  BY SelfIsClient DEF ControllerRunSignal, WellFormed, TypeOK, BaseTypeOK
<1>2. chans'[Self].RemoteSDPCh = chans[Self].RemoteSDPCh
  BY SelfIsClient, KeptTypes, SendPlaces DEF ControllerRunSignal
<1>3. Held' = Held /\ HeldCount' = HeldCount
  BY <1>1, <1>2, HeldParts, HeldPartsNext DEF RunHas, UsedSDPs, Used
<1>4. OffersKept'
  BY <1>1, <1>3, KeptBy
<1>5. RunHolds'
  BY <1>1 DEF KeptInv, RunHolds
<1> QED
  BY <1>1, <1>4, <1>5 DEF KeptInv, OnlyOffers, Waits, NotYet

(* and puts it back. *)
LEMMA KeptRunPutBack ==
  ASSUME KeptInv, TypeOK, WellFormed(Self), HasOffer(Self), ControllerRunPutBack(Self),
         UNCHANGED offers
  PROVE  KeptInv'
<1> DEFINE t == chans[Self].RemoteSDPCh
           x == run[Self].sdp
<1>1. /\ proc[Self] = "up" /\ run[Self].pc = "putback" /\ UNCHANGED <<proc, inbox, sess>>
      /\ run'[Self].pc = "spawn" /\ run'[Self].sdp = None
  BY SelfIsClient DEF ControllerRunPutBack, WellFormed, TypeOK, BaseTypeOK
<1>2. x \in SDP /\ t \in Seq(SDP) /\ x # None
  BY <1>1, KeptTypes, SDPAssumption DEF HasOffer
<1>3. chans'[Self].RemoteSDPCh = Append(t, x)
  BY SelfIsClient, KeptTypes, SendPlaces DEF ControllerRunPutBack
<1>4. /\ Elems(t) \cup {x} \subseteq Elems(Append(t, x))
      /\ Len(Append(t, x)) = Len(t) + 1 /\ Len(t) \in Nat
  BY <1>2, SeqElems
<1>5. RunHas = 1 /\ RunHas' = 0 /\ UsedSDPs' = UsedSDPs /\ Used' = Used
  BY <1>1, <1>2 DEF RunHas, UsedSDPs, Used
<1> HIDE DEF t, x
<1>6. Held \subseteq Held'
  BY <1>1, <1>3, <1>4, <1>5, HeldParts, HeldPartsNext DEF t, x
<1>7. HeldCount' = HeldCount
  <2>1. /\ HeldCount = Len(inbox[Self]) + Len(t) + 1 + Cardinality(Used)
        /\ HeldCount' = Len(inbox[Self]) + (Len(t) + 1) + 0 + Cardinality(Used)
    BY <1>1, <1>3, <1>4, <1>5, HeldParts, HeldPartsNext DEF t
  <2>2. RunHas \in Nat /\ Cardinality(Used) \in Nat /\ Len(inbox[Self]) \in Nat
    BY KeptTypes
  <2>3. Len(inbox[Self]) + (Len(t) + 1) + 0 + Cardinality(Used)
          = Len(inbox[Self]) + Len(t) + 1 + Cardinality(Used)
    <3> DEFINE a == Len(inbox[Self])
               b == Len(t)
               d == Cardinality(Used)
    <3>1. a \in Nat /\ b \in Nat /\ d \in Nat
      BY <1>4, <2>2
    <3> HIDE DEF a, b, d
    <3>2. a + (b + 1) + 0 + d = a + b + 1 + d
      BY <3>1
    <3> QED
      BY <3>2 DEF a, b, d
  <2> QED
    BY <2>1, <2>3
<1>8. OffersKept'
  BY <1>1, <1>6, <1>7, KeptBy
<1>9. RunHolds'
  BY <1>1 DEF RunHolds
<1> QED
  BY <1>1, <1>8, <1>9 DEF KeptInv, OnlyOffers, Waits, NotYet

(* A session that waits uses one. *)
LEMMA KeptTakeOffer ==
  ASSUME KeptInv, TypeOK, WellFormed(Self), NEW k \in DOMAIN sess[Self],
         ControllerTakeOffer(Self, k), UNCHANGED offers
  PROVE  KeptInv'
<1> DEFINE t == chans[Self].RemoteSDPCh
           x == Head(t)
           e == [sess[Self][k] EXCEPT !.stage = "answering", !.sdp = x]
<1>1. /\ proc[Self] = "up" /\ UNCHANGED <<proc, inbox, run>>
      /\ sess[Self][k].stage = "waiting"
      /\ sess' = [sess EXCEPT ![Self] = [@ EXCEPT ![k] = e]]
  BY DEF ControllerTakeOffer, GoToWith, StageIs, WellFormed
<1>2. t \in Seq(SDP) /\ t # <<>> /\ chans'[Self].RemoteSDPCh = Tail(t)
  BY SelfIsClient, KeptTypes, RecvPlaces DEF ControllerTakeOffer
<1>3. x \in SDP /\ x # None
  BY <1>2, SDPAssumption
<1>4. /\ Elems(t) \subseteq {x} \cup Elems(Tail(t))
      /\ Len(Tail(t)) = Len(t) - 1 /\ Len(t) \in Nat
  BY <1>2, SeqElems
<1>5. sess[Self][k].sdp = None /\ sess[Self][k] \in SessionState
  BY <1>1, KeptTypes DEF KeptInv, Waits
<1>6. e.sdp = x /\ e.stage = "answering"
  BY <1>5 DEF SessionState
<1> HIDE DEF e
<1>7. /\ DOMAIN sess'[Self] = DOMAIN sess[Self] /\ sess'[Self][k] = e
      /\ \A i \in DOMAIN sess[Self] : i # k => sess'[Self][i] = sess[Self][i]
  BY <1>1, SelfIsClient DEF TypeOK, BaseTypeOK
<1>8. /\ Used' = Used \cup {k} /\ k \notin Used /\ RunHas' = RunHas
      /\ UsedSDPs \ {None} \subseteq UsedSDPs' /\ x \in UsedSDPs'
  BY <1>1, <1>3, <1>5, <1>6, <1>7 DEF Used, RunHas, UsedSDPs
<1>9. Cardinality(Used') = Cardinality(Used) + 1
  BY <1>8, KeptTypes, FS_AddElement
<1> HIDE DEF t, x
<1>10. \A y \in SDP : y \in Held => y \in Held'
  BY <1>1, <1>2, <1>4, <1>8, HeldParts, HeldPartsNext, SDPAssumption DEF t
<1>11. HeldCount' = HeldCount
  <2>1. /\ HeldCount = Len(inbox[Self]) + Len(t) + RunHas + Cardinality(Used)
        /\ HeldCount' = Len(inbox[Self]) + (Len(t) - 1) + RunHas + (Cardinality(Used) + 1)
    BY <1>1, <1>2, <1>4, <1>8, <1>9, HeldParts, HeldPartsNext DEF t
  <2>2. RunHas \in Nat /\ Cardinality(Used) \in Nat /\ Len(inbox[Self]) \in Nat
    BY KeptTypes
  <2> QED
    BY <1>4, <2>1, <2>2, Sums
<1>12. OffersKept'
  BY <1>1, <1>10, <1>11, KeptBy
<1>13. Waits'
  BY <1>6, <1>7 DEF KeptInv, Waits
<1> QED
  BY <1>1, <1>12, <1>13 DEF KeptInv, OnlyOffers, RunHolds, NotYet

(* The network delivers one more. *)
LEMMA KeptNetworkOffers ==
  ASSUME KeptInv, TypeOK, NetworkOffers
  PROVE  KeptInv'
<1> DEFINE q == inbox[Self]
           m == [id |-> 6, from_user |-> 2, messageType |-> "SDPExchange",
                 message |-> Offer(Peer, offers + 1)]
<1>1. /\ proc[Self] = "up" /\ UNCHANGED <<proc, chans, run, sess>> /\ offers' = offers + 1
      /\ inbox'[Self] = Append(q, m) /\ q \in Seq(FromServer) /\ offers \in Nat
  BY SelfIsClient, KeptTypes DEF NetworkOffers, TypeOK, BaseTypeOK
<1>2. Offer(Peer, offers + 1) \in SDP
  BY <1>1, ControllerAloneAssumption DEF Offer, SDP, Session, Client
<1>3. m \in FromServer /\ m.message = Offer(Peer, offers + 1)
  BY <1>2 DEF FromServer, User
<1>4. OnlyOffers'
  <2>1. \A i \in DOMAIN Append(q, m) :
           (i \in DOMAIN q /\ Append(q, m)[i] = q[i]) \/ Append(q, m)[i] = m
    BY <1>1
  <2> QED
    BY <1>1, <2>1 DEF KeptInv, OnlyOffers
<1> HIDE DEF m
<1>5. Mail(q) \cup {m.message} \subseteq Mail(Append(q, m)) /\ Len(Append(q, m)) = Len(q) + 1
  BY <1>1, <1>3, SeqElems
<1>6. UsedSDPs' = UsedSDPs /\ Used' = Used /\ RunHas' = RunHas
  BY <1>1 DEF UsedSDPs, Used, RunHas
<1> HIDE DEF q
<1>7. Held \cup {Offer(Peer, offers + 1)} \subseteq Held'
  BY <1>1, <1>3, <1>5, <1>6, HeldParts, HeldPartsNext DEF q
<1>8. HeldCount' = HeldCount + 1
  <2>1. /\ HeldCount = Len(q) + Len(chans[Self].RemoteSDPCh) + RunHas + Cardinality(Used)
        /\ HeldCount' = (Len(q) + 1) + Len(chans[Self].RemoteSDPCh) + RunHas + Cardinality(Used)
    BY <1>1, <1>5, <1>6, HeldParts, HeldPartsNext DEF q
  <2>2. /\ Len(q) \in Nat /\ RunHas \in Nat /\ Cardinality(Used) \in Nat
        /\ Len(chans[Self].RemoteSDPCh) \in Nat
    BY <1>1, KeptTypes DEF q
  <2>3. (Len(q) + 1) + Len(chans[Self].RemoteSDPCh) + RunHas + Cardinality(Used)
          = (Len(q) + Len(chans[Self].RemoteSDPCh) + RunHas + Cardinality(Used)) + 1
    <3> DEFINE a == Len(q)
               b == Len(chans[Self].RemoteSDPCh)
               c == RunHas
               d == Cardinality(Used)
    <3>1. a \in Nat /\ b \in Nat /\ c \in Nat /\ d \in Nat
      BY <2>2
    <3> HIDE DEF a, b, c, d
    <3>2. (a + 1) + b + c + d = (a + b + c + d) + 1
      BY <3>1
    <3> QED
      BY <3>2 DEF a, b, c, d
  <2> QED
    BY <2>1, <2>3
<1>9. {Offer(Peer, n) : n \in 1..offers} \subseteq Held /\ HeldCount = offers
  BY <1>1 DEF KeptInv, OffersKept
<1>10. {Offer(Peer, n) : n \in 1..offers'} \subseteq Held'
  <2>1. \A n \in 1..offers' : n \in 1..offers \/ n = offers + 1
    BY <1>1
  <2> QED
    BY <1>7, <1>9, <2>1
<1>11. OffersKept'
  BY <1>1, <1>8, <1>9, <1>10 DEF OffersKept
<1> QED
  BY <1>1, <1>4, <1>11 DEF KeptInv, RunHolds, Waits, NotYet

(* What Self does, *)
LEMMA KeptOwn ==
  ASSUME KeptInv, TypeOK, WellFormed(Self), HasOffer(Self), ControllerStep(Self),
         UNCHANGED offers
  PROVE  KeptInv'
<1>0. Self \in Client /\ chans \in [Client -> Chans]
  BY SelfIsClient, KeptTypes
<1>1. CASE ControllerStart(Self)
  BY <1>1, KeptStart
<1>2. CASE Exit(Self)
  BY <1>2, KeptDie DEF Exit
<1>3. CASE SignIn(Self)
  BY <1>3, KeptSame DEF SignIn
<1>4. CASE SendSDP(Self) \/ SendSDPReq(Self)
  <2>1. chans'[Self].RemoteSDPCh = chans[Self].RemoteSDPCh
    BY <1>0, <1>4, RecvPlaces DEF SendSDP, SendSDPReq
  <2> QED
    BY <1>4, <2>1, KeptSame DEF SendSDP, SendSDPReq
<1>5. CASE ServerRecv(Self)
  BY <1>5, KeptRecv
<1>6. CASE ControllerRun(Self)
  BY <1>6, KeptSpawn, KeptRunOffer, KeptRunSignal, KeptRunPutBack DEF ControllerRun
<1>7. ASSUME NEW k \in DOMAIN sess[Self], ControllerSession(Self, k)
      PROVE  KeptInv'
  <2>0. proc[Self] = "up"
    BY DEF WellFormed
  <2>1. CASE ControllerTakeOffer(Self, k)
    BY <2>1, KeptTakeOffer
  <2>2. CASE ControllerAnswer(Self, k)
    <3>1. chans'[Self].RemoteSDPCh = chans[Self].RemoteSDPCh
      BY <1>0, <2>2, SendPlaces DEF ControllerAnswer
    <3>2. UNCHANGED <<proc, inbox, run>> /\ GoTo(Self, k, "serving")
      BY <2>2 DEF ControllerAnswer
    <3> QED
      BY <2>0, <3>1, <3>2, KeptGoTo
  <2>3. CASE ControllerTrackStarts(Self, k)
    <3> DEFINE e == [sess[Self][k] EXCEPT !.track = TRUE]
    <3>1. sess[Self][k] \in SessionState
      BY KeptTypes
    <3>2. e.sdp = sess[Self][k].sdp /\ e.stage = "serving"
      BY <2>3, <3>1 DEF SessionState, ControllerTrackStarts, StageIs
    <3>3. sess' = [sess EXCEPT ![Self] = [@ EXCEPT ![k] = e]]
      BY <2>3 DEF ControllerTrackStarts
    <3>4. UNCHANGED <<proc, inbox, run, chans>>
      BY <2>3 DEF ControllerTrackStarts
    <3> HIDE DEF e
    <3> QED
      BY <2>0, <3>2, <3>3, <3>4, KeptStage
  <2>4. CASE ControllerIceGone(Self, k)
    BY <2>0, <2>4, KeptGoTo DEF ControllerIceGone
  <2>5. CASE ControllerEnd(Self, k)
    <3>1. chans'[Self].RemoteSDPCh = chans[Self].RemoteSDPCh
      BY <1>0, <2>5, RecvPlaces DEF ControllerEnd
    <3>2. UNCHANGED <<proc, inbox, run>> /\ GoTo(Self, k, "closed")
      BY <2>5 DEF ControllerEnd
    <3> QED
      BY <2>0, <3>1, <3>2, KeptGoTo
  <2>6. CASE ControllerTrackPanic(Self, k)
    BY <2>6, KeptDie DEF ControllerTrackPanic
  <2> QED
    BY <1>7, <2>1, <2>2, <2>3, <2>4, <2>5, <2>6 DEF ControllerSession
<1> QED
  BY <1>1, <1>2, <1>3, <1>4, <1>5, <1>6, <1>7 DEF ControllerStep

(* and what another controller leaves alone. *)
LEMMA OthersApart ==
  ASSUME TypeOK, NEW c \in Controller, c # Self, ControllerStep(c)
  PROVE  inbox'[Self] = inbox[Self] /\ chans'[Self] = chans[Self]
<1>0. /\ c \in Client /\ Self \in Client /\ chans \in [Client -> Chans]
      /\ inbox \in [Client -> Seq(FromServer)]
  BY SelfIsClient, ControllerIsClient, KeptTypes DEF TypeOK, BaseTypeOK
<1>1. CASE ControllerStart(c) \/ Exit(c) \/ \E k \in DOMAIN sess[c] : ControllerTrackPanic(c, k)
  BY <1>0, <1>1 DEF ControllerStart, Boot, Exit, ControllerTrackPanic, Die
<1>2. CASE SignIn(c) \/ SendSDP(c) \/ SendSDPReq(c)
  BY <1>0, <1>2, RecvPlaces DEF SignIn, SendSDP, SendSDPReq
<1>3. CASE ServerRecv(c)
  <2>1. inbox'[Self] = inbox[Self]
    BY <1>0, <1>3 DEF ServerRecv, RecvNotice, RecvSDP, RecvSDPReq, Receive
  <2>2. chans'[Self] = chans[Self]
    BY <1>0, <1>3, SendPlaces DEF ServerRecv, RecvNotice, RecvSDP, RecvSDPReq
  <2> QED
    BY <2>1, <2>2
<1>4. CASE ControllerRun(c)
  BY <1>0, <1>4, RecvPlaces, SendPlaces
  DEF ControllerRun, ControllerSpawn, ControllerRunOffer, ControllerRunSignal, ControllerRunPutBack
<1>5. ASSUME NEW k \in DOMAIN sess[c], ControllerSession(c, k), ~ControllerTrackPanic(c, k)
      PROVE  inbox'[Self] = inbox[Self] /\ chans'[Self] = chans[Self]
  BY <1>0, <1>5, RecvPlaces, SendPlaces
  DEF ControllerSession, ControllerTakeOffer, ControllerAnswer, ControllerTrackStarts,
      ControllerIceGone, ControllerEnd
<1> QED
  BY <1>1, <1>2, <1>3, <1>4, <1>5 DEF ControllerStep

LEMMA KeptInit == Init => KeptInv
<1> SUFFICES ASSUME Init PROVE KeptInv
  OBVIOUS
<1>1. /\ proc[Self] = "off" /\ run[Self] = NoRun /\ sess[Self] = <<>> /\ inbox[Self] = <<>>
      /\ chans[Self] = NoChans /\ offers = 0
  BY SelfIsClient DEF Init, BaseInit
<1> QED
  BY <1>1 DEF KeptInv, OnlyOffers, RunHolds, Waits, NotYet, OffersKept, NoRun, NoChans

LEMMA KeptNext == KeptInv /\ Inv /\ [Next]_vars => KeptInv'
<1> SUFFICES ASSUME KeptInv, Inv, [Next]_vars PROVE KeptInv'
  OBVIOUS
<1>0. TypeOK /\ WellFormed(Self) /\ HasOffer(Self) /\ Self \in Client
  BY SelfIsClient DEF Inv
<1>1. ASSUME NEW c \in Controller, Own(ControllerStep(c))
      PROVE  KeptInv'
  <2>1. ControllerStep(c) /\ offers' = offers
    BY <1>1 DEF Own
  <2>2. CASE c = Self
    BY <1>0, <2>1, <2>2, KeptOwn
  <2>3. CASE c # Self
    <3>1. Step(c)
      BY <2>1, ControllerStepStep DEF Inv, TypeOK
    <3>2. proc'[Self] = proc[Self] /\ run'[Self] = run[Self] /\ sess'[Self] = sess[Self]
      BY <1>0, <2>3, <3>1 DEF Step, Same
    <3>3. inbox'[Self] = inbox[Self] /\ chans'[Self] = chans[Self]
      BY <1>0, <2>1, <2>3, OthersApart
    <3> QED
      BY <2>1, <3>2, <3>3, KeptSame
  <2> QED
    BY <2>2, <2>3
<1>2. ASSUME NEW c \in Controller, NetworkTakes(c)
      PROVE  KeptInv'
  BY <1>2, KeptSame DEF NetworkTakes
<1>3. CASE NetworkOffers
  BY <1>0, <1>3, KeptNetworkOffers
<1>4. CASE UNCHANGED vars
  BY <1>4, KeptSame DEF vars, baseVars
<1> QED
  BY <1>1, <1>2, <1>3, <1>4 DEF Next

LEMMA KeptHolds == Spec => []KeptInv
BY KeptInit, KeptNext, InvHolds, PTL DEF Spec

(* However many offers come, none that reached a controller is lost or     *)
(* used twice on its way from the connection through RemoteSDPCh, out of   *)
(* it into Run, back into it, and into a session (base/service.go:152,     *)
(* controller/service.go:309, 403-405).                                    *)
THEOREM OffersKeptHolds == Spec => []OffersKept
<1>1. KeptInv => OffersKept
  BY DEF KeptInv
<1> QED
  BY <1>1, KeptHolds, PTL

=============================================================================
