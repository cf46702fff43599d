--------------------------- MODULE HomeRoverProofs ---------------------------
(***************************************************************************)
(* Theorems about the composed system.  What ServiceProofs shows of a step *)
(* of one process holds while all of them run and the relay connects them: *)
(* types and the accounting of sessions.  Then where session descriptions  *)
(* are (one copy of each), whose answer a rover's session may be given,    *)
(* and how many requests for a session there can be.                       *)
(***************************************************************************)
EXTENDS HomeRover, ServiceProofs

(***************************************************************************)
(* The inductive invariant: Balanced of every process needs WellFormed,    *)
(* the types of the controllers' answers need HasOffer, and those of what  *)
(* the relay forwards need that its handlers hold sends only.              *)
(***************************************************************************)
Inv ==
  /\ BaseTypeOK
  /\ RelayTypeOK
  /\ \A d \in Client : WellFormed(d) /\ Balanced(d)
  /\ \A c \in Controller : HasOffer(c)

LEMMA InvInit == Init => Inv
<1> SUFFICES ASSUME Init PROVE Inv
  OBVIOUS
<1>1. BaseTypeOK
  BY NoChansType DEF Init, BaseInit, BaseTypeOK, NoRun, RunPc
<1>2. RelayTypeOK
  BY DEF Init, RelayInit, RelayTypeOK
<1>3. ASSUME NEW d \in Client
      PROVE  WellFormed(d) /\ HasOffer(d) /\ Balanced(d)
  <2>1. /\ proc[d] = "off" /\ run[d].pc = "off" /\ sess[d] = <<>>
        /\ chans[d].WebrtcEndSignal = <<>>
    BY DEF Init, BaseInit, NoRun, NoChans
  <2>2. Live(d) = 0
    BY <2>1, LiveNone
  <2> QED
    BY <2>1, <2>2 DEF WellFormed, HasOffer, Balanced, RunIsSpawning, Live
<1> QED
  BY <1>1, <1>2, <1>3, ControllerIsClient DEF Inv

(* What a step of the system does to every process. *)
Everywhere ==
  /\ BaseTypeOK' /\ RelayTypeOK'
  /\ \A d \in Client : Effect(d)
  /\ \A c \in Controller : HasOffer(c)'

LEMMA StepEverywhere ==
  ASSUME Inv, NEW d \in Client, Step(d), d \in Controller => HasOffer(d)',
         UNCHANGED relayVars
  PROVE  Everywhere
<1>1. BaseTypeOK' /\ \A e \in Client : Effect(e)
  BY DEF Step, Effect
<1>2. RelayTypeOK'
  BY DEF Inv, RelayTypeOK, relayVars
<1>3. ASSUME NEW c \in Controller, c # d
      PROVE  HasOffer(c)'
  <2>1. run'[c] = run[c] /\ sess'[c] = sess[c]
    BY <1>3, ControllerIsClient DEF Step, Same
  <2> QED
    BY <2>1 DEF Inv, HasOffer
<1> QED
  BY <1>1, <1>2, <1>3 DEF Everywhere

LEMMA QuietEverywhere ==
  ASSUME Inv, BaseTypeOK', RelayTypeOK', Quiet
  PROVE  Everywhere
<1>1. \A d \in Client : Effect(d)
  BY QuietSame DEF Effect
<1>2. \A c \in Controller : HasOffer(c)'
  BY DEF Inv, Quiet, HasOffer
<1> QED
  BY <1>1, <1>2 DEF Everywhere

LEMMA NextEverywhere == ASSUME Inv, [Next]_vars PROVE Everywhere
<1>1. CASE Rovers
  <2>1. PICK r \in Rover : RoverStep(r) /\ UNCHANGED relayVars
    BY <1>1 DEF Rovers
  <2>2. r \in Client /\ r \notin Controller
    BY RoverIsClient, BaseAssumption
  <2>3. Step(r)
    BY <2>1, <2>2, RoverStepStep DEF Inv
  <2> QED
    BY <2>1, <2>2, <2>3, StepEverywhere
<1>2. CASE Controllers
  <2>1. PICK c \in Controller : ControllerStep(c) /\ UNCHANGED relayVars
    BY <1>2 DEF Controllers
  <2>2. c \in Client
    BY ControllerIsClient
  <2>3. Step(c) /\ HasOffer(c)'
    BY <2>1, <2>2, ControllerStepStep DEF Inv
  <2> QED
    BY <2>1, <2>2, <2>3, StepEverywhere
<1>3. CASE Relay
  BY <1>3, ServeType, QuietEverywhere DEF Relay, Inv
<1>4. CASE UNCHANGED vars
  <2>1. Quiet
    BY <1>4 DEF vars, baseVars, Quiet
  <2>2. BaseTypeOK' /\ RelayTypeOK'
    BY <1>4 DEF Inv, BaseTypeOK, RelayTypeOK, vars, baseVars, relayVars
  <2> QED
    BY <2>1, <2>2, QuietEverywhere
<1> QED
  BY <1>1, <1>2, <1>3, <1>4 DEF Next

LEMMA InvNext == Inv /\ [Next]_vars => Inv'
<1> SUFFICES ASSUME Inv, [Next]_vars PROVE Inv'
  OBVIOUS
<1>1. Everywhere
  BY NextEverywhere
<1>2. ASSUME NEW d \in Client
      PROVE  WellFormed(d)' /\ Balanced(d)'
  BY <1>1, EffectKeeps DEF Everywhere, Inv
<1> QED
  BY <1>1, <1>2 DEF Everywhere, Inv

LEMMA InvHolds == Spec => []Inv
BY InvInit, InvNext, PTL DEF Spec

(* Types of the whole system: what Send writes, the relay forwards and     *)
(* ServerRecv reads is well formed from end to end, and no channel holds   *)
(* more than one element (base/service.go:53-56, server/service.go:86-123).*)
THEOREM TypeCorrect == Spec => []TypeOK
<1>1. Inv => TypeOK
  BY DEF Inv, TypeOK, RelayTypeOK, Sends
<1> QED
  BY <1>1, InvHolds, PTL

(* In every rover and every controller at once, over the relay and under   *)
(* every schedule: one session that has not exited per unread end signal,  *)
(* and one more except while Run is about to start it                      *)
(* (rover/service.go:372-383, controller/service.go:394-408).              *)
THEOREM BalancedEverywhere == Spec => []ClientsBalanced
<1>1. Inv => ClientsBalanced
  BY DEF Inv, ClientsBalanced
<1> QED
  BY <1>1, InvHolds, PTL

(* The refinement mapping of one process to SessionSupervisor. *)
Supervisor(d) == INSTANCE SessionSupervisor WITH
  SignalCap <- ChanCap,
  phase <- SupervisorPhase(d),
  live <- Cardinality(LiveSessions(d)),
  ending <- Len(chans[d].WebrtcEndSignal)

(* In the composed system, whatever the relay and the other processes do,  *)
(* Run and the sessions of every rover and every controller do nothing but *)
(* what SessionSupervisor allows (rover/service.go:353-385,                *)
(* controller/service.go:377-411).                                         *)
THEOREM EveryoneIsSupervised ==
  ASSUME NEW d \in Client
  PROVE  Spec => Supervisor(d)!Spec
<1>1. Init => Supervisor(d)!Init
  <2> SUFFICES ASSUME Init PROVE Supervisor(d)!Init
    OBVIOUS
  <2>1. /\ run[d].pc = "off" /\ sess[d] = <<>>
        /\ chans[d].WebrtcEndSignal = <<>>
    BY DEF Init, BaseInit, NoRun, NoChans
  <2>2. Cardinality(LiveSessions(d)) = 0
    BY <2>1, LiveNone DEF Live
  <2> QED
    BY <2>1, <2>2 DEF Supervisor!Init, SupervisorPhase
<1>2. Inv /\ [Next]_vars => [Supervisor(d)!Next]_(Supervisor(d)!vars)
  <2> SUFFICES ASSUME Inv, [Next]_vars
               PROVE  [Supervisor(d)!Next]_(Supervisor(d)!vars)
    OBVIOUS
  <2>1. BaseTypeOK' /\ Effect(d)
    BY NextEverywhere DEF Everywhere
  <2>2. Seen(d)
    BY <2>1, EffectSeen DEF Inv
  <2> QED
    BY <2>2
    DEF Seen, Supervisor!vars, Supervisor!Next, Supervisor!Start, Supervisor!Spawn,
        Supervisor!Request, Supervisor!Signal, Supervisor!EndSession, Supervisor!Die
<1> QED
  BY <1>1, <1>2, InvHolds, PTL DEF Spec, Supervisor!Spec

(***************************************************************************)
(* Where session descriptions are: what a sequence of them, with gaps,     *)
(* holds, and what its operations do to that.                              *)
(***************************************************************************)
Held(q) == {q[i] : i \in DOMAIN q} \ {None}

Distinct(q) == \A i, j \in DOMAIN q : q[i] = q[j] /\ q[i] # None => i = j

(* From q to t: nothing comes in, x goes out, x comes in. *)
Thins(q, t) == Held(t) \subseteq Held(q) /\ (Distinct(q) => Distinct(t))

Loses(q, t, x) == Held(t) \subseteq Held(q) /\ (Distinct(q) => Distinct(t) /\ x \notin Held(t))

Gains(q, t, x) ==
  /\ Held(t) \subseteq Held(q) \cup {x}
  /\ Distinct(q) /\ x \notin Held(q) => Distinct(t)

LEMMA TailLoses ==
  ASSUME NEW S, NEW q \in Seq(S), q # <<>>
  PROVE  Loses(q, Tail(q), Head(q)) /\ Head(q) \in Held(q) \cup {None}
<1> DEFINE t == Tail(q)
<1>1. /\ Len(q) \in Nat \ {0} /\ DOMAIN q = 1..Len(q) /\ DOMAIN t = 1..(Len(q) - 1)
      /\ \A i \in DOMAIN t : i + 1 \in DOMAIN q /\ t[i] = q[i + 1]
      /\ Head(q) = q[1] /\ 1 \in DOMAIN q
  OBVIOUS
<1> HIDE DEF t
<1>2. Held(t) \subseteq Held(q)
  BY <1>1 DEF Held
<1>3. ASSUME Distinct(q)
      PROVE  Distinct(t) /\ Head(q) \notin Held(t)
  <2>1. ASSUME NEW i \in DOMAIN t, NEW j \in DOMAIN t, t[i] = t[j], t[i] # None
        PROVE  i = j
    <3>1. i + 1 = j + 1
      BY <1>1, <1>3, <2>1 DEF Distinct
    <3> QED
      BY <1>1, <3>1
  <2>2. ASSUME NEW i \in DOMAIN t, t[i] = q[1], t[i] # None
        PROVE  FALSE
    <3>1. i + 1 = 1
      BY <1>1, <1>3, <2>2 DEF Distinct
    <3> QED
      BY <1>1, <3>1
  <2> QED
    BY <1>1, <2>1, <2>2 DEF Distinct, Held
<1>4. Head(q) \in Held(q) \cup {None}
  BY <1>1 DEF Held
<1> QED
  BY <1>2, <1>3, <1>4 DEF Loses, t

LEMMA AppendGains ==
  ASSUME NEW S, NEW q \in Seq(S), NEW x
  PROVE  Gains(q, Append(q, x), x)
<1> DEFINE t == Append(q, x)
           n == Len(q) + 1
<1>1. /\ n \in Nat /\ DOMAIN q = 1..(n - 1) /\ DOMAIN t = 1..n
      /\ \A i \in DOMAIN q : t[i] = q[i]
      /\ t[n] = x
  OBVIOUS
<1> HIDE DEF t, n
<1>2. \A i \in DOMAIN t : i \in DOMAIN q \/ i = n
  BY <1>1
<1>3. Held(t) \subseteq Held(q) \cup {x}
  BY <1>1, <1>2 DEF Held
<1>4. ASSUME Distinct(q), x \notin Held(q)
      PROVE  Distinct(t)
  BY <1>1, <1>2, <1>4 DEF Distinct, Held
<1> QED
  BY <1>3, <1>4 DEF Gains, t

LEMMA PutGains ==
  ASSUME NEW S, NEW q \in Seq(S), NEW t, NEW i \in DOMAIN q, NEW x,
         DOMAIN t = DOMAIN q, t[i] = x, \A j \in DOMAIN q : j # i => t[j] = q[j]
  PROVE  Gains(q, t, x)
BY DEF Gains, Held, Distinct

LEMMA GainsNone == ASSUME NEW q, NEW t, Gains(q, t, None) PROVE Thins(q, t)
BY DEF Gains, Thins, Held

LEMMA LosesThins == ASSUME NEW q, NEW t, NEW x, Loses(q, t, x) PROVE Thins(q, t)
BY DEF Loses, Thins

LEMMA ThinsBasic ==
  /\ \A q : Thins(q, q)
  /\ \A q : Thins(q, <<>>) /\ Thins(q, <<None>>)
BY DEF Thins, Held, Distinct

(* Messages on a connection. *)
Message == ToServer \cup FromServer

Letter(m) == IF m.id \in {5, 6} THEN m.message ELSE None

LEMMA LettersTail ==
  ASSUME NEW q \in Seq(Message), q # <<>>
  PROVE  /\ Loses(Letters(q), Letters(Tail(q)), Letter(Head(q)))
         /\ Letter(Head(q)) \in Held(Letters(q)) \cup {None}
<1> DEFINE a == Letters(q)
           t == Letters(Tail(q))
<1>1. /\ Len(q) \in Nat \ {0} /\ DOMAIN q = 1..Len(q) /\ DOMAIN Tail(q) = 1..(Len(q) - 1)
      /\ \A i \in DOMAIN Tail(q) : i + 1 \in DOMAIN q /\ Tail(q)[i] = q[i + 1]
      /\ Head(q) = q[1] /\ 1 \in DOMAIN q
  OBVIOUS
<1>2. /\ DOMAIN a = DOMAIN q /\ DOMAIN t = DOMAIN Tail(q)
      /\ \A i \in DOMAIN t : i + 1 \in DOMAIN a /\ t[i] = a[i + 1]
      /\ Letter(Head(q)) = a[1] /\ 1 \in DOMAIN a
  BY <1>1 DEF Letters, Letter
<1> HIDE DEF a, t
<1>3. Held(t) \subseteq Held(a) /\ a[1] \in Held(a) \cup {None}
  BY <1>2 DEF Held
<1>4. ASSUME Distinct(a)
      PROVE  Distinct(t) /\ a[1] \notin Held(t)
  <2>1. ASSUME NEW i \in DOMAIN t, NEW j \in DOMAIN t, t[i] = t[j], t[i] # None
        PROVE  i = j
    <3>1. i + 1 = j + 1
      BY <1>2, <1>4, <2>1 DEF Distinct
    <3> QED
      BY <1>1, <1>2, <3>1
  <2>2. ASSUME NEW i \in DOMAIN t, t[i] = a[1], t[i] # None
        PROVE  FALSE
    <3>1. i + 1 = 1
      BY <1>2, <1>4, <2>2 DEF Distinct
    <3> QED
      BY <1>1, <1>2, <3>1
  <2> QED
    BY <1>2, <2>1, <2>2 DEF Distinct, Held
<1> QED
  BY <1>2, <1>3, <1>4 DEF Loses, a, t

LEMMA LettersAppend ==
  ASSUME NEW q \in Seq(Message), NEW m
  PROVE  Gains(Letters(q), Letters(Append(q, m)), Letter(m))
<1> DEFINE a == Letters(q)
           t == Letters(Append(q, m))
           n == Len(q) + 1
<1>1. /\ n \in Nat /\ DOMAIN q = 1..(n - 1) /\ DOMAIN Append(q, m) = 1..n
      /\ \A i \in DOMAIN q : Append(q, m)[i] = q[i]
      /\ Append(q, m)[n] = m
  OBVIOUS
<1>2. /\ DOMAIN a = 1..(n - 1) /\ DOMAIN t = 1..n
      /\ \A i \in DOMAIN a : t[i] = a[i]
      /\ t[n] = Letter(m)
  BY <1>1 DEF Letters, Letter
<1> HIDE DEF a, t, n
<1>3. \A i \in DOMAIN t : i \in DOMAIN a \/ i = n
  BY <1>1, <1>2
<1>4. Held(t) \subseteq Held(a) \cup {Letter(m)}
  BY <1>2, <1>3 DEF Held
<1>5. ASSUME Distinct(a), Letter(m) \notin Held(a)
      PROVE  Distinct(t)
  BY <1>2, <1>3, <1>5 DEF Distinct, Held
<1> QED
  BY <1>4, <1>5 DEF Gains, a, t

LEMMA LettersCut ==
  ASSUME NEW q \in Seq(Message), NEW n \in 0..Len(q)
  PROVE  Thins(Letters(q), Letters(SubSeq(q, 1, n)))
<1> DEFINE a == Letters(q)
           t == Letters(SubSeq(q, 1, n))
<1>1. /\ DOMAIN q = 1..Len(q) /\ DOMAIN SubSeq(q, 1, n) = 1..n /\ 1..n \subseteq 1..Len(q)
      /\ \A i \in 1..n : SubSeq(q, 1, n)[i] = q[i]
  OBVIOUS
<1>2. DOMAIN t \subseteq DOMAIN a /\ \A i \in DOMAIN t : t[i] = a[i]
  BY <1>1 DEF Letters
<1> HIDE DEF a, t
<1>3. Thins(a, t)
  BY <1>2 DEF Thins, Held, Distinct
<1> QED
  BY <1>3 DEF a, t

LEMMA LettersType ==
  ASSUME NEW q \in Seq(Message)
  PROVE  Letters(q) \in Seq(SDP \cup {None})
<1>1. DOMAIN q = 1..Len(q) /\ Len(q) \in Nat
  OBVIOUS
<1>2. ASSUME NEW m \in Message, m.id \in {5, 6}
      PROVE  m.message \in SDP \cup {None}
  BY <1>2 DEF Message, ToServer, FromServer
<1>3. Letters(q) \in [1..Len(q) -> SDP \cup {None}]
  <2> SUFFICES ASSUME NEW i \in 1..Len(q)
               PROVE  (IF q[i].id \in {5, 6} THEN q[i].message ELSE None) \in SDP \cup {None}
    BY <1>1 DEF Letters
  <2>1. q[i] \in Message
    BY <1>1
  <2> QED
    BY <1>2, <2>1
<1> QED
  BY <1>1, <1>3

(***************************************************************************)
(* The places of the system, and what a step may do to them.               *)
(***************************************************************************)
At(d, p) == SDPsAt(d)[p]

LEMMA AtPlaces ==
  ASSUME NEW d
  PROVE  /\ At(d, "SendCh") = chans[d].SendCh
         /\ At(d, "RemoteSDPCh") = chans[d].RemoteSDPCh
         /\ At(d, "outbox") = Letters(outbox[d])
         /\ At(d, "inbox") = Letters(inbox[d])
         /\ At(d, "handling") = IF handling[d] = None THEN <<>> ELSE <<handling[d].message>>
         /\ At(d, "run") = <<run[d].sdp>>
         /\ At(d, "sess") = [s \in DOMAIN sess[d] |-> sess[d][s].sdp]
BY DEF At, SDPsAt

LEMMA AtPlacesNext ==
  ASSUME NEW d
  PROVE  /\ At(d, "SendCh")' = chans'[d].SendCh
         /\ At(d, "RemoteSDPCh")' = chans'[d].RemoteSDPCh
         /\ At(d, "outbox")' = Letters(outbox'[d])
         /\ At(d, "inbox")' = Letters(inbox'[d])
         /\ At(d, "handling")' = IF handling'[d] = None THEN <<>> ELSE <<handling'[d].message>>
         /\ At(d, "run")' = <<run'[d].sdp>>
         /\ At(d, "sess")' = [s \in DOMAIN sess'[d] |-> sess'[d][s].sdp]
BY DEF At, SDPsAt

LEMMA PlaceStays ==
  ASSUME NEW d
  PROVE  /\ chans' = chans => At(d, "SendCh")' = At(d, "SendCh")
         /\ chans' = chans => At(d, "RemoteSDPCh")' = At(d, "RemoteSDPCh")
         /\ outbox' = outbox => At(d, "outbox")' = At(d, "outbox")
         /\ inbox' = inbox => At(d, "inbox")' = At(d, "inbox")
         /\ handling' = handling => At(d, "handling")' = At(d, "handling")
         /\ run' = run => At(d, "run")' = At(d, "run")
         /\ sess' = sess => At(d, "sess")' = At(d, "sess")
BY DEF At, SDPsAt, Letters

LEMMA ShortSeq == ASSUME NEW S PROVE <<>> \in Seq(S) /\ \A x \in S : <<x>> \in Seq(S)
OBVIOUS

LEMMA AtType ==
  ASSUME BaseTypeOK, RelayTypeOK, NEW d \in Client
  PROVE  /\ \A p \in Place : At(d, p) \in Seq(SDP \cup {None})
         /\ outbox[d] \in Seq(Message) /\ inbox[d] \in Seq(Message)
<1>1. outbox[d] \in Seq(Message) /\ inbox[d] \in Seq(Message)
  <2>1. outbox[d] \in Seq(ToServer) /\ inbox[d] \in Seq(FromServer)
    BY DEF BaseTypeOK
  <2> QED
    BY <2>1 DEF Message
<1>2. At(d, "outbox") \in Seq(SDP \cup {None}) /\ At(d, "inbox") \in Seq(SDP \cup {None})
  BY <1>1, LettersType, AtPlaces
<1>3. At(d, "SendCh") \in Seq(SDP \cup {None}) /\ At(d, "RemoteSDPCh") \in Seq(SDP \cup {None})
  <2>1. chans[d].SendCh \in Seq(SDP) /\ chans[d].RemoteSDPCh \in Seq(SDP)
    BY DEF BaseTypeOK, Chans, Chan
  <2>2. chans[d].SendCh \in Seq(SDP \cup {None}) /\ chans[d].RemoteSDPCh \in Seq(SDP \cup {None})
    BY <2>1
  <2> QED
    BY <2>2, AtPlaces
<1>4. At(d, "handling") \in Seq(SDP \cup {None})
  <2>1. CASE handling[d] = None
    BY <2>1, AtPlaces, ShortSeq
  <2>2. CASE handling[d] # None
    <3>1. handling[d].message \in SDP \cup {None}
      BY <2>2 DEF RelayTypeOK, Sends, ToServer
    <3>2. At(d, "handling") = <<handling[d].message>>
      BY <2>2, AtPlaces
    <3> QED
      BY <3>1, <3>2, ShortSeq
  <2> QED
    BY <2>1, <2>2
<1>5. At(d, "run") \in Seq(SDP \cup {None})
  <2>1. run[d].sdp \in SDP \cup {None}
    BY DEF BaseTypeOK
  <2> QED
    BY <2>1, AtPlaces, ShortSeq
<1>6. At(d, "sess") \in Seq(SDP \cup {None})
  <2>1. DOMAIN sess[d] = 1..Len(sess[d]) /\ Len(sess[d]) \in Nat
    BY DEF BaseTypeOK
  <2>2. \A s \in DOMAIN sess[d] : sess[d][s].sdp \in SDP \cup {None}
    <3>1. \A s \in DOMAIN sess[d] : sess[d][s] \in SessionState
      BY DEF BaseTypeOK
    <3> QED
      BY <3>1 DEF SessionState
  <2>3. At(d, "sess") \in [1..Len(sess[d]) -> SDP \cup {None}]
    BY <2>1, <2>2, AtPlaces
  <2> QED
    BY <2>1, <2>3
<1> QED
  BY <1>1, <1>2, <1>3, <1>4, <1>5, <1>6 DEF Place

(* No session description is in two places, or twice in one. *)
Apart ==
  \A d, e \in Client, p, q \in Place :
    d # e \/ p # q => Held(At(d, p)) \cap Held(At(e, q)) = {}

Single == \A d \in Client, p \in Place : Distinct(At(d, p))

(* A step that brings x, and nothing else, to place q of e. *)
Brings(e, q, x) ==
  /\ \A d \in Client, p \in Place : Distinct(At(d, p)')
  /\ \A d \in Client, p \in Place :
       d # e \/ p # q => Held(At(d, p)') \subseteq Held(At(d, p)) /\ x \notin Held(At(d, p)')
  /\ Held(At(e, q)') \subseteq Held(At(e, q)) \cup {x}

(* One that brings nothing. *)
BringsNothing == \A d \in Client, p \in Place : Thins(At(d, p), At(d, p)')

LEMMA BringsApart ==
  ASSUME Apart, Single, NEW e \in Client, NEW q \in Place, NEW x, Brings(e, q, x)
  PROVE  Apart' /\ Single'
<1>1. Single'
  BY DEF Single, Brings
<1>2. ASSUME NEW d \in Client, NEW f \in Client, NEW p \in Place, NEW r \in Place,
             d # f \/ p # r, NEW y, y \in Held(At(d, p)'), y \in Held(At(f, r)')
      PROVE  FALSE
  BY <1>2 DEF Brings, Apart
<1>3. Apart'
  BY <1>2 DEF Apart
<1> QED
  BY <1>1, <1>3

LEMMA NothingApart ==
  ASSUME Apart, Single, BringsNothing
  PROVE  Apart' /\ Single'
BY DEF BringsNothing, Thins, Apart, Single

(* What goes from one place to another: not in two places before, it is    *)
(* not in two places afterwards.                                           *)
LEMMA MoveBrings ==
  ASSUME Apart, Single, NEW d \in Client, NEW e \in Client, NEW p \in Place, NEW q \in Place,
         d # e \/ p # q, NEW x, x \in Held(At(d, p)) \cup {None},
         Loses(At(d, p), At(d, p)', x), Gains(At(e, q), At(e, q)', x),
         \A f \in Client, r \in Place :
           (f # d \/ r # p) /\ (f # e \/ r # q) => Thins(At(f, r), At(f, r)')
  PROVE  Brings(e, q, x)
<1>1. None \notin Held(At(d, p)) /\ \A f, r : None \notin Held(At(f, r)')
  BY DEF Held
<1>2. \A f \in Client, r \in Place : f # d \/ r # p => x \notin Held(At(f, r))
  BY DEF Apart, Held
<1>3. Distinct(At(d, p)') /\ Held(At(d, p)') \subseteq Held(At(d, p)) /\ x \notin Held(At(d, p)')
  BY DEF Loses, Single
<1>4. Distinct(At(e, q)') /\ Held(At(e, q)') \subseteq Held(At(e, q)) \cup {x}
  BY <1>2 DEF Gains, Single
<1>5. ASSUME NEW f \in Client, NEW r \in Place, f # d \/ r # p, f # e \/ r # q
      PROVE  /\ Distinct(At(f, r)') /\ Held(At(f, r)') \subseteq Held(At(f, r))
             /\ x \notin Held(At(f, r)')
  BY <1>2, <1>5 DEF Thins, Single
<1> QED
  BY <1>3, <1>4, <1>5 DEF Brings

LEMMA MakeBrings ==
  ASSUME Single, NEW e \in Client, NEW q \in Place, NEW x,
         \A f \in Client, r \in Place : x \notin Held(At(f, r)),
         Gains(At(e, q), At(e, q)', x),
         \A f \in Client, r \in Place : f # e \/ r # q => Thins(At(f, r), At(f, r)')
  PROVE  Brings(e, q, x)
BY DEF Brings, Gains, Thins, Single

(***************************************************************************)
(* Where the descriptions come from.                                       *)
(***************************************************************************)

(* The stages of a session that has not made its description yet. *)
Before(c) ==
  IF c \in Rover THEN {"starting", "listening", "offering"} ELSE {"waiting", "answering"}

(* Session y has been there, and has made its description. *)
Existing(y) ==
  \/ proc[y[1]] = "down"
  \/ /\ proc[y[1]] = "up"
     /\ y[2] \in DOMAIN sess[y[1]]
     /\ sess[y[1]][y[2]].stage \notin Before(y[1])

(* A description that is made is new.                                      *)
Known == \A d \in Client, p \in Place : \A x \in Held(At(d, p)) : Existing(x.from)

(* Rovers send offers and controllers answers. *)
OfferPlace(d, p) ==
  IF d \in Rover THEN p \in {"SendCh", "outbox", "handling"}
                 ELSE p \notin {"SendCh", "outbox", "handling"}

Right(d, p, x) ==
  IF OfferPlace(d, p) THEN x.from[1] \in Rover
                      ELSE x.re \in Session /\ x.re[1] \in Rover /\ Existing(x.re)

Kinds == \A d \in Client, p \in Place : \A x \in Held(At(d, p)) : Right(d, p, x)

FlowInv == Apart /\ Single /\ Known /\ Kinds

Older == \A y \in Session : Existing(y) => Existing(y)'

(* What every step does to descriptions. *)
Flows ==
  /\ Older
  /\ \/ BringsNothing
     \/ \E e \in Client, q \in Place, x \in SDP \cup {None} :
          Brings(e, q, x) /\ (x # None => Existing(x.from)' /\ Right(e, q, x)')

LEMMA HeldSDP ==
  ASSUME BaseTypeOK, RelayTypeOK, NEW d \in Client, NEW p \in Place
  PROVE  Held(At(d, p)) \subseteq SDP
<1>1. At(d, p) \in Seq(SDP \cup {None})
  BY AtType
<1>2. \A i \in DOMAIN At(d, p) : At(d, p)[i] \in SDP \cup {None}
  BY <1>1
<1> QED
  BY <1>2 DEF Held

LEMMA FlowsKeep ==
  ASSUME BaseTypeOK, RelayTypeOK, FlowInv, Flows
  PROVE  FlowInv'
<1>1. \A d \in Client, p \in Place : \A y \in Held(At(d, p)) :
        /\ y \in SDP /\ y.from \in Session
        /\ Existing(y.from)' /\ Right(d, p, y)'
  <2> SUFFICES ASSUME NEW d \in Client, NEW p \in Place, NEW y \in Held(At(d, p))
               PROVE  /\ y \in SDP /\ y.from \in Session
                      /\ Existing(y.from)' /\ Right(d, p, y)'
    OBVIOUS
  <2>1. y \in SDP /\ y.from \in Session
    BY HeldSDP DEF SDP
  <2>2. Existing(y.from)'
    BY <2>1 DEF FlowInv, Known, Flows, Older
  <2>3. Right(d, p, y)
    BY DEF FlowInv, Kinds
  <2>4. Right(d, p, y)'
    BY <2>3 DEF Right, OfferPlace, Flows, Older
  <2> QED
    BY <2>1, <2>2, <2>4
<1>2. CASE BringsNothing
  <2>1. Apart' /\ Single'
    BY <1>2, NothingApart DEF FlowInv
  <2>2. Known' /\ Kinds'
    BY <1>1, <1>2 DEF Known, Kinds, BringsNothing, Thins
  <2> QED
    BY <2>1, <2>2 DEF FlowInv
<1>3. ASSUME NEW e \in Client, NEW q \in Place, NEW x \in SDP \cup {None},
             Brings(e, q, x), x # None => Existing(x.from)' /\ Right(e, q, x)'
      PROVE  FlowInv'
  <2>1. Apart' /\ Single'
    BY <1>3, BringsApart DEF FlowInv
  <2>2. \A d \in Client, p \in Place : \A y \in Held(At(d, p)') :
          y \in Held(At(d, p)) \/ (d = e /\ p = q /\ y = x /\ x # None)
    BY <1>3 DEF Brings, Held
  <2>3. Known' /\ Kinds'
    BY <1>1, <1>3, <2>2 DEF Known, Kinds
  <2> QED
    BY <2>1, <2>3 DEF FlowInv
<1> QED
  BY <1>2, <1>3 DEF Flows

(* A description that is taken from one place to another. *)
LEMMA MoveFlows ==
  ASSUME BaseTypeOK, RelayTypeOK, FlowInv, Older,
         NEW d \in Client, NEW e \in Client, NEW p \in Place, NEW q \in Place,
         d # e \/ p # q, OfferPlace(d, p) <=> OfferPlace(e, q),
         NEW x, x \in Held(At(d, p)) \cup {None},
         Loses(At(d, p), At(d, p)', x), Gains(At(e, q), At(e, q)', x),
         \A f \in Client, r \in Place :
           (f # d \/ r # p) /\ (f # e \/ r # q) => Thins(At(f, r), At(f, r)')
  PROVE  Flows
<1>1. Brings(e, q, x)
  BY MoveBrings DEF FlowInv
<1>2. x \in SDP \cup {None}
  BY HeldSDP
<1>3. ASSUME x # None
      PROVE  Existing(x.from)' /\ Right(e, q, x)'
  <2>1. x \in Held(At(d, p)) /\ x.from \in Session
    BY <1>2, <1>3 DEF SDP
  <2>2. Existing(x.from)'
    BY <2>1 DEF FlowInv, Known, Older
  <2>3. Right(d, p, x)
    BY <2>1 DEF FlowInv, Kinds
  <2>4. Right(e, q, x)'
    BY <2>3 DEF Right, OfferPlace, Older
  <2> QED
    BY <2>2, <2>4
<1> QED
  BY <1>1, <1>2, <1>3 DEF Flows

(* One that is made. *)
LEMMA MakeFlows ==
  ASSUME BaseTypeOK, RelayTypeOK, FlowInv, Older,
         NEW e \in Client, NEW q \in Place, NEW x \in SDP,
         ~Existing(x.from), Existing(x.from)', Right(e, q, x)',
         Gains(At(e, q), At(e, q)', x),
         \A f \in Client, r \in Place : f # e \/ r # q => Thins(At(f, r), At(f, r)')
  PROVE  Flows
<1>1. \A f \in Client, r \in Place : x \notin Held(At(f, r))
  BY DEF FlowInv, Known
<1>2. Brings(e, q, x)
  BY <1>1, MakeBrings DEF FlowInv
<1> QED
  BY <1>2 DEF Flows

LEMMA OlderBy ==
  ASSUME NEW c \in Client,
         \A e \in Client \ {c} : proc'[e] = proc[e] /\ sess'[e] = sess[e],
         proc[c] = "down" => proc'[c] = "down",
         proc[c] = "up" =>
           \/ proc'[c] = "down"
           \/ /\ proc'[c] = "up"
              /\ \A s \in DOMAIN sess[c] :
                   /\ s \in DOMAIN sess'[c]
                   /\ sess[c][s].stage \notin Before(c) => sess'[c][s].stage \notin Before(c)
  PROVE  Older
<1> SUFFICES ASSUME NEW y \in Session, Existing(y) PROVE Existing(y)'
  BY DEF Older
<1>1. y[1] \in Client
  BY DEF Session
<1>2. CASE y[1] # c
  BY <1>1, <1>2 DEF Existing, Before
<1>3. CASE y[1] = c
  BY <1>3 DEF Existing, Before
<1> QED
  BY <1>2, <1>3

LEMMA OlderSame == ASSUME UNCHANGED <<proc, sess>> PROVE Older
BY DEF Older, Existing, Before

(***************************************************************************)
(* The steps of one process: what they do to its places.                   *)
(***************************************************************************)
Alone(c) ==
  \A e \in Client \ {c} :
    /\ proc'[e] = proc[e] /\ chans'[e] = chans[e] /\ outbox'[e] = outbox[e]
    /\ inbox'[e] = inbox[e] /\ run'[e] = run[e] /\ sess'[e] = sess[e]

LEMMA AloneThins ==
  ASSUME NEW c \in Client, Alone(c), UNCHANGED handling
  PROVE  /\ \A e \in Client, p \in Place : e # c => Thins(At(e, p), At(e, p)')
         /\ At(c, "handling")' = At(c, "handling")
<1>1. At(c, "handling")' = At(c, "handling")
  BY AtPlaces, AtPlacesNext
<1>2. ASSUME NEW e \in Client, NEW p \in Place, e # c
      PROVE  At(e, p)' = At(e, p)
  BY <1>2 DEF Alone, At, SDPsAt
<1> QED
  BY <1>1, <1>2, ThinsBasic

(* A process that passes no description on. *)
LEMMA ThinFlows ==
  ASSUME NEW c \in Client, Alone(c), UNCHANGED handling, Older,
         Thins(At(c, "SendCh"), At(c, "SendCh")'),
         Thins(At(c, "RemoteSDPCh"), At(c, "RemoteSDPCh")'),
         Thins(At(c, "outbox"), At(c, "outbox")'),
         Thins(At(c, "inbox"), At(c, "inbox")'),
         Thins(At(c, "run"), At(c, "run")'),
         Thins(At(c, "sess"), At(c, "sess")')
  PROVE  Flows
<1>1. Thins(At(c, "handling"), At(c, "handling")')
  BY AloneThins, ThinsBasic
<1>2. \A p \in Place : Thins(At(c, p), At(c, p)')
  BY <1>1 DEF Place
<1>3. BringsNothing
  BY <1>2, AloneThins DEF BringsNothing
<1> QED
  BY <1>3 DEF Flows

(* One that passes a description from place p to place q. *)
LEMMA PassFlows ==
  ASSUME BaseTypeOK, RelayTypeOK, FlowInv, NEW c \in Client, Alone(c), UNCHANGED handling, Older,
         NEW p \in Place, NEW q \in Place, p # q, OfferPlace(c, p) <=> OfferPlace(c, q),
         NEW x, x \in Held(At(c, p)) \cup {None},
         Loses(At(c, p), At(c, p)', x), Gains(At(c, q), At(c, q)', x),
         \A r \in Place \ {p, q} : Thins(At(c, r), At(c, r)')
  PROVE  Flows
<1>1. \A f \in Client, r \in Place :
        (f # c \/ r # p) /\ (f # c \/ r # q) => Thins(At(f, r), At(f, r)')
  BY AloneThins
<1>2. c # c \/ p # q
  OBVIOUS
<1> QED
  BY <1>1, <1>2, MoveFlows

(* A channel that a description is sent to or received from. *)
LEMMA ChanMoves ==
  ASSUME BaseTypeOK, NEW c \in Client
  PROVE  /\ ChanRecv(c, "SendCh")
              => /\ Loses(At(c, "SendCh"), At(c, "SendCh")', Head(chans[c].SendCh))
                 /\ Head(chans[c].SendCh) \in Held(At(c, "SendCh")) \cup {None}
                 /\ At(c, "RemoteSDPCh")' = At(c, "RemoteSDPCh")
                 /\ \A e \in Client \ {c} : chans'[e] = chans[e]
         /\ ChanRecv(c, "RemoteSDPCh")
              => /\ Loses(At(c, "RemoteSDPCh"), At(c, "RemoteSDPCh")', Head(chans[c].RemoteSDPCh))
                 /\ Head(chans[c].RemoteSDPCh) \in Held(At(c, "RemoteSDPCh")) \cup {None}
                 /\ At(c, "SendCh")' = At(c, "SendCh")
                 /\ \A e \in Client \ {c} : chans'[e] = chans[e]
         /\ \A x : ChanSend(c, "SendCh", x)
              => /\ Gains(At(c, "SendCh"), At(c, "SendCh")', x)
                 /\ At(c, "RemoteSDPCh")' = At(c, "RemoteSDPCh")
                 /\ \A e \in Client \ {c} : chans'[e] = chans[e]
         /\ \A x : ChanSend(c, "RemoteSDPCh", x)
              => /\ Gains(At(c, "RemoteSDPCh"), At(c, "RemoteSDPCh")', x)
                 /\ At(c, "SendCh")' = At(c, "SendCh")
                 /\ \A e \in Client \ {c} : chans'[e] = chans[e]
<1>0. /\ chans \in [Client -> Chans]
      /\ chans[c].SendCh \in Seq(SDP) /\ chans[c].RemoteSDPCh \in Seq(SDP)
  BY DEF BaseTypeOK, Chans, Chan
<1>1. ASSUME ChanRecv(c, "SendCh")
      PROVE  /\ Loses(At(c, "SendCh"), At(c, "SendCh")', Head(chans[c].SendCh))
             /\ Head(chans[c].SendCh) \in Held(At(c, "SendCh")) \cup {None}
             /\ At(c, "RemoteSDPCh")' = At(c, "RemoteSDPCh")
             /\ \A e \in Client \ {c} : chans'[e] = chans[e]
  <2>1. /\ chans[c].SendCh # <<>> /\ chans'[c].SendCh = Tail(chans[c].SendCh)
        /\ chans'[c].RemoteSDPCh = chans[c].RemoteSDPCh
        /\ \A e \in Client \ {c} : chans'[e] = chans[e]
    BY <1>0, <1>1, RecvPlaces
  <2> QED
    BY <1>0, <2>1, TailLoses, AtPlaces, AtPlacesNext
<1>2. ASSUME ChanRecv(c, "RemoteSDPCh")
      PROVE  /\ Loses(At(c, "RemoteSDPCh"), At(c, "RemoteSDPCh")', Head(chans[c].RemoteSDPCh))
             /\ Head(chans[c].RemoteSDPCh) \in Held(At(c, "RemoteSDPCh")) \cup {None}
             /\ At(c, "SendCh")' = At(c, "SendCh")
             /\ \A e \in Client \ {c} : chans'[e] = chans[e]
  <2>1. /\ chans[c].RemoteSDPCh # <<>> /\ chans'[c].RemoteSDPCh = Tail(chans[c].RemoteSDPCh)
        /\ chans'[c].SendCh = chans[c].SendCh
        /\ \A e \in Client \ {c} : chans'[e] = chans[e]
    BY <1>0, <1>2, RecvPlaces
  <2> QED
    BY <1>0, <2>1, TailLoses, AtPlaces, AtPlacesNext
<1>3. ASSUME NEW x, ChanSend(c, "SendCh", x)
      PROVE  /\ Gains(At(c, "SendCh"), At(c, "SendCh")', x)
             /\ At(c, "RemoteSDPCh")' = At(c, "RemoteSDPCh")
             /\ \A e \in Client \ {c} : chans'[e] = chans[e]
  <2>1. /\ chans'[c].SendCh = Append(chans[c].SendCh, x)
        /\ chans'[c].RemoteSDPCh = chans[c].RemoteSDPCh
        /\ \A e \in Client \ {c} : chans'[e] = chans[e]
    BY <1>0, <1>3, SendPlaces
  <2>2. Gains(chans[c].SendCh, Append(chans[c].SendCh, x), x)
    BY <1>0, AppendGains
  <2> QED
    BY <2>1, <2>2, AtPlaces, AtPlacesNext
<1>4. ASSUME NEW x, ChanSend(c, "RemoteSDPCh", x)
      PROVE  /\ Gains(At(c, "RemoteSDPCh"), At(c, "RemoteSDPCh")', x)
             /\ At(c, "SendCh")' = At(c, "SendCh")
             /\ \A e \in Client \ {c} : chans'[e] = chans[e]
  <2>1. /\ chans'[c].RemoteSDPCh = Append(chans[c].RemoteSDPCh, x)
        /\ chans'[c].SendCh = chans[c].SendCh
        /\ \A e \in Client \ {c} : chans'[e] = chans[e]
    BY <1>0, <1>4, SendPlaces
  <2>2. Gains(chans[c].RemoteSDPCh, Append(chans[c].RemoteSDPCh, x), x)
    BY <1>0, AppendGains
  <2> QED
    BY <2>1, <2>2, AtPlaces, AtPlacesNext
<1> QED
  BY <1>1, <1>2, <1>3, <1>4

(* A channel that carries none. *)
LEMMA ChanStays ==
  ASSUME BaseTypeOK, NEW c \in Client, NEW x,
         \/ ChanRecv(c, "SDPReqCh")
         \/ ChanRecv(c, "WebrtcEndSignal")
         \/ ChanSend(c, "SDPReqCh", x)
         \/ ChanSend(c, "WebrtcEndSignal", x)
         \/ chans' = chans
  PROVE  /\ At(c, "SendCh")' = At(c, "SendCh")
         /\ At(c, "RemoteSDPCh")' = At(c, "RemoteSDPCh")
         /\ \A e \in Client \ {c} : chans'[e] = chans[e]
<1>1. chans \in [Client -> Chans]
  BY DEF BaseTypeOK
<1>2. /\ chans'[c].SendCh = chans[c].SendCh /\ chans'[c].RemoteSDPCh = chans[c].RemoteSDPCh
      /\ \A e \in Client \ {c} : chans'[e] = chans[e]
  BY <1>1, RecvPlaces, SendPlaces
<1> QED
  BY <1>2, AtPlaces, AtPlacesNext

LEMMA WriteMoves ==
  ASSUME BaseTypeOK, RelayTypeOK, NEW c \in Client, NEW m, Write(c, m)
  PROVE  /\ Gains(At(c, "outbox"), At(c, "outbox")', Letter(m))
         /\ \A e \in Client \ {c} : outbox'[e] = outbox[e]
<1>1. outbox[c] \in Seq(Message) /\ outbox \in [Client -> Seq(ToServer)]
  BY AtType DEF BaseTypeOK
<1>2. /\ outbox'[c] = Append(outbox[c], m)
      /\ \A e \in Client \ {c} : outbox'[e] = outbox[e]
  BY <1>1 DEF Write
<1>3. Gains(Letters(outbox[c]), Letters(Append(outbox[c], m)), Letter(m))
  BY <1>1, LettersAppend
<1>4. At(c, "outbox") = Letters(outbox[c]) /\ At(c, "outbox")' = Letters(Append(outbox[c], m))
  BY <1>2, AtPlaces, AtPlacesNext
<1> QED
  BY <1>2, <1>3, <1>4

LEMMA ReceiveMoves ==
  ASSUME BaseTypeOK, RelayTypeOK, NEW c \in Client, Receive(c)
  PROVE  /\ Loses(At(c, "inbox"), At(c, "inbox")', Letter(Head(inbox[c])))
         /\ Letter(Head(inbox[c])) \in Held(At(c, "inbox")) \cup {None}
         /\ \A e \in Client \ {c} : inbox'[e] = inbox[e]
<1>1. inbox[c] \in Seq(Message) /\ inbox \in [Client -> Seq(FromServer)]
  BY AtType DEF BaseTypeOK
<1>2. /\ inbox[c] # <<>> /\ inbox'[c] = Tail(inbox[c])
      /\ \A e \in Client \ {c} : inbox'[e] = inbox[e]
  BY <1>1 DEF Receive
<1>3. /\ Loses(Letters(inbox[c]), Letters(Tail(inbox[c])), Letter(Head(inbox[c])))
      /\ Letter(Head(inbox[c])) \in Held(Letters(inbox[c])) \cup {None}
  BY <1>1, <1>2, LettersTail
<1> QED
  BY <1>2, <1>3, AtPlaces, AtPlacesNext

(* What a session holds. *)
LEMMA StageStays ==
  ASSUME BaseTypeOK, NEW c \in Client, NEW k \in DOMAIN sess[c], NEW e,
         e.sdp = sess[c][k].sdp, sess' = [sess EXCEPT ![c] = [@ EXCEPT ![k] = e]]
  PROVE  /\ At(c, "sess")' = At(c, "sess")
         /\ \A d \in Client \ {c} : sess'[d] = sess[d]
         /\ DOMAIN sess'[c] = DOMAIN sess[c] /\ sess'[c][k] = e
         /\ \A s \in DOMAIN sess[c] \ {k} : sess'[c][s] = sess[c][s]
<1>1. /\ \A d \in Client \ {c} : sess'[d] = sess[d]
      /\ sess'[c] = [sess[c] EXCEPT ![k] = e]
  BY DEF BaseTypeOK
<1>2. /\ DOMAIN sess'[c] = DOMAIN sess[c] /\ sess'[c][k] = e
      /\ \A s \in DOMAIN sess[c] \ {k} : sess'[c][s] = sess[c][s]
  BY <1>1 DEF BaseTypeOK
<1>3. \A s \in DOMAIN sess[c] : sess'[c][s].sdp = sess[c][s].sdp
  BY <1>2
<1>4. /\ At(c, "sess") = [s \in DOMAIN sess[c] |-> sess[c][s].sdp]
      /\ At(c, "sess")' = [s \in DOMAIN sess'[c] |-> sess'[c][s].sdp]
  BY AtPlaces, AtPlacesNext
<1>5. At(c, "sess")' = At(c, "sess")
  BY <1>2, <1>3, <1>4
<1> QED
  BY <1>1, <1>2, <1>5

LEMMA GivenMoves ==
  ASSUME BaseTypeOK, NEW c \in Client, NEW k \in DOMAIN sess[c], NEW e,
         sess' = [sess EXCEPT ![c] = [@ EXCEPT ![k] = e]]
  PROVE  /\ Gains(At(c, "sess"), At(c, "sess")', e.sdp)
         /\ \A d \in Client \ {c} : sess'[d] = sess[d]
         /\ DOMAIN sess'[c] = DOMAIN sess[c] /\ sess'[c][k] = e
         /\ \A s \in DOMAIN sess[c] \ {k} : sess'[c][s] = sess[c][s]
<1>1. /\ \A d \in Client \ {c} : sess'[d] = sess[d]
      /\ sess'[c] = [sess[c] EXCEPT ![k] = e]
  BY DEF BaseTypeOK
<1>2. /\ DOMAIN sess'[c] = DOMAIN sess[c] /\ sess'[c][k] = e
      /\ \A s \in DOMAIN sess[c] \ {k} : sess'[c][s] = sess[c][s]
  BY <1>1 DEF BaseTypeOK
<1> DEFINE q == At(c, "sess")
           t == At(c, "sess")'
<1>3. /\ DOMAIN q = DOMAIN sess[c] /\ DOMAIN t = DOMAIN q /\ t[k] = e.sdp
      /\ \A s \in DOMAIN q : s # k => t[s] = q[s]
  BY <1>2, AtPlaces, AtPlacesNext
<1> HIDE DEF q, t
<1>4. Gains(q, t, e.sdp)
  BY <1>3 DEF Gains, Held, Distinct
<1> QED
  BY <1>1, <1>2, <1>4 DEF q, t

LEMMA SpawnMoves ==
  ASSUME BaseTypeOK, NEW c \in Client, NEW stage \in Stage,
         sess' = [sess EXCEPT ![c] = Append(@, NewSession(stage))]
  PROVE  /\ Thins(At(c, "sess"), At(c, "sess")')
         /\ \A d \in Client \ {c} : sess'[d] = sess[d]
         /\ \A s \in DOMAIN sess[c] : s \in DOMAIN sess'[c] /\ sess'[c][s] = sess[c][s]
         /\ DOMAIN sess'[c] = DOMAIN sess[c] \cup {Len(sess[c]) + 1}
         /\ sess'[c][Len(sess[c]) + 1] = NewSession(stage)
<1> DEFINE n == Len(sess[c]) + 1
<1>1. /\ \A d \in Client \ {c} : sess'[d] = sess[d]
      /\ sess'[c] = Append(sess[c], NewSession(stage)) /\ sess[c] \in Seq(SessionState)
      /\ NewSession(stage) \in SessionState
  BY DEF BaseTypeOK, NewSession, SessionState
<1>2. /\ DOMAIN sess'[c] = DOMAIN sess[c] \cup {n} /\ n \notin DOMAIN sess[c]
      /\ \A s \in DOMAIN sess[c] : sess'[c][s] = sess[c][s]
      /\ sess'[c][n] = NewSession(stage)
  BY <1>1
<1> DEFINE q == At(c, "sess")
           t == At(c, "sess")'
<1>3. /\ DOMAIN t = DOMAIN q \cup {n} /\ t[n] = None
      /\ \A s \in DOMAIN q : t[s] = q[s]
  <2>1. /\ q = [s \in DOMAIN sess[c] |-> sess[c][s].sdp]
        /\ t = [s \in DOMAIN sess'[c] |-> sess'[c][s].sdp]
    BY AtPlaces, AtPlacesNext
  <2> HIDE DEF q, t, n
  <2>2. /\ DOMAIN t = DOMAIN q \cup {n}
        /\ \A s \in DOMAIN q : t[s] = q[s]
    BY <1>2, <2>1
  <2>3. t[n] = NewSession(stage).sdp
    BY <1>2, <2>1
  <2> QED
    BY <2>2, <2>3 DEF NewSession
<1> HIDE DEF q, t, n
<1>4. Thins(q, t)
  BY <1>3 DEF Thins, Held, Distinct
<1> QED
  BY <1>1, <1>2, <1>4 DEF q, t, n

(* What Run holds. *)
LEMMA RunStays ==
  ASSUME BaseTypeOK, NEW c \in Client, NEW pc, run' = [run EXCEPT ![c].pc = pc]
  PROVE  At(c, "run")' = At(c, "run") /\ \A d \in Client \ {c} : run'[d] = run[d]
<1>1. run'[c].sdp = run[c].sdp /\ \A d \in Client \ {c} : run'[d] = run[d]
  BY DEF BaseTypeOK
<1>2. At(c, "run") = <<run[c].sdp>> /\ At(c, "run")' = <<run'[c].sdp>>
  BY AtPlaces, AtPlacesNext
<1> QED
  BY <1>1, <1>2

LEMMA DieFlows ==
  ASSUME BaseTypeOK, RelayTypeOK, NEW c \in Client, proc[c] = "up", Die(c), UNCHANGED handling
  PROVE  Flows
<1>1. PICK n \in 0..Len(outbox[c]) : outbox' = [outbox EXCEPT ![c] = SubSeq(@, 1, n)]
  BY DEF Die
<1>2. /\ proc'[c] = "down" /\ chans'[c] = NoChans /\ run'[c] = NoRun /\ sess'[c] = <<>>
      /\ inbox'[c] = <<>> /\ outbox'[c] = SubSeq(outbox[c], 1, n)
  BY <1>1 DEF Die, BaseTypeOK
<1>3. Alone(c)
  BY <1>1 DEF Die, BaseTypeOK, Alone
<1>4. Older
  BY <1>2, <1>3, OlderBy DEF Alone
<1>5. /\ At(c, "SendCh")' = <<>> /\ At(c, "RemoteSDPCh")' = <<>> /\ At(c, "run")' = <<None>>
  BY <1>2, AtPlacesNext DEF NoChans, NoRun
<1>6. /\ At(c, "inbox")' = <<>> /\ At(c, "sess")' = <<>>
  <2>1. DOMAIN <<>> = {}
    OBVIOUS
  <2>2. At(c, "inbox")' = Letters(<<>>) /\ At(c, "sess")' = [s \in DOMAIN <<>> |-> sess'[c][s].sdp]
    BY <1>2, AtPlacesNext
  <2>3. \A q : q = [i \in {} |-> q[i]] => q = <<>>
    OBVIOUS
  <2> QED
    BY <2>1, <2>2, <2>3 DEF Letters
<1>7. Thins(At(c, "outbox"), At(c, "outbox")')
  <2>1. outbox[c] \in Seq(Message)
    BY AtType
  <2>2. Thins(Letters(outbox[c]), Letters(SubSeq(outbox[c], 1, n)))
    BY <2>1, LettersCut
  <2>3. /\ At(c, "outbox") = Letters(outbox[c])
        /\ At(c, "outbox")' = Letters(outbox'[c])
    BY AtPlaces, AtPlacesNext
  <2>4. outbox'[c] = SubSeq(outbox[c], 1, n)
    BY <1>2
  <2> QED
    BY <2>2, <2>3, <2>4
<1> QED
  BY <1>3, <1>4, <1>5, <1>6, <1>7, ThinsBasic, ThinFlows

(***************************************************************************)
(* Each action of a process.                                               *)
(***************************************************************************)
LEMMA SignInFlows ==
  ASSUME BaseTypeOK, RelayTypeOK, NEW c \in Client, SignIn(c), UNCHANGED handling
  PROVE  Flows
<1>1. Thins(At(c, "outbox"), At(c, "outbox")') /\ \A e \in Client \ {c} : outbox'[e] = outbox[e]
  BY WriteMoves, GainsNone DEF SignIn, Letter
<1>2. Alone(c) /\ Older
  BY <1>1, OlderSame DEF SignIn, Alone
<1>3. /\ At(c, "SendCh")' = At(c, "SendCh") /\ At(c, "RemoteSDPCh")' = At(c, "RemoteSDPCh")
      /\ At(c, "inbox")' = At(c, "inbox") /\ At(c, "run")' = At(c, "run")
      /\ At(c, "sess")' = At(c, "sess")
  BY PlaceStays DEF SignIn
<1> QED
  BY <1>1, <1>2, <1>3, ThinsBasic, ThinFlows

LEMMA SendSDPFlows ==
  ASSUME BaseTypeOK, RelayTypeOK, FlowInv, NEW c \in Client, SendSDP(c), UNCHANGED handling
  PROVE  Flows
<1> DEFINE x == Head(chans[c].SendCh)
<1>1. /\ Loses(At(c, "SendCh"), At(c, "SendCh")', x) /\ x \in Held(At(c, "SendCh")) \cup {None}
      /\ At(c, "RemoteSDPCh")' = At(c, "RemoteSDPCh")
      /\ \A e \in Client \ {c} : chans'[e] = chans[e]
  BY ChanMoves DEF SendSDP
<1>2. Letter(SendMsg(c, "SDPExchange", x)) = x
  BY DEF Letter, SendMsg
<1>3. Write(c, SendMsg(c, "SDPExchange", x))
  BY DEF SendSDP
<1> HIDE DEF x
<1>4. /\ Gains(At(c, "outbox"), At(c, "outbox")', x)
      /\ \A e \in Client \ {c} : outbox'[e] = outbox[e]
  BY <1>2, <1>3, WriteMoves
<1>5. Alone(c) /\ Older
  BY <1>1, <1>4, OlderSame DEF SendSDP, Alone
<1>6. /\ At(c, "inbox")' = At(c, "inbox") /\ At(c, "run")' = At(c, "run")
      /\ At(c, "sess")' = At(c, "sess") /\ At(c, "handling")' = At(c, "handling")
  BY PlaceStays DEF SendSDP
<1>7. \A r \in Place \ {"SendCh", "outbox"} : Thins(At(c, r), At(c, r)')
  BY <1>1, <1>6, ThinsBasic DEF Place
<1>8. (OfferPlace(c, "SendCh") <=> OfferPlace(c, "outbox")) /\ "SendCh" \in Place /\ "outbox" \in Place
  BY DEF OfferPlace, Place
<1> QED
  BY <1>1, <1>4, <1>5, <1>7, <1>8, PassFlows

LEMMA SendSDPReqFlows ==
  ASSUME BaseTypeOK, RelayTypeOK, NEW c \in Client, SendSDPReq(c), UNCHANGED handling
  PROVE  Flows
<1>1. Thins(At(c, "outbox"), At(c, "outbox")') /\ \A e \in Client \ {c} : outbox'[e] = outbox[e]
  <2>1. Letter(SendMsg(c, "SDPReq", None)) = None /\ Write(c, SendMsg(c, "SDPReq", None))
    BY DEF Letter, SendMsg, SendSDPReq
  <2> QED
    BY <2>1, WriteMoves, GainsNone
<1>2. /\ At(c, "SendCh")' = At(c, "SendCh") /\ At(c, "RemoteSDPCh")' = At(c, "RemoteSDPCh")
      /\ \A e \in Client \ {c} : chans'[e] = chans[e]
  BY ChanStays DEF SendSDPReq
<1>3. Alone(c) /\ Older
  BY <1>1, <1>2, OlderSame DEF SendSDPReq, Alone
<1>4. /\ At(c, "inbox")' = At(c, "inbox") /\ At(c, "run")' = At(c, "run")
      /\ At(c, "sess")' = At(c, "sess")
  BY PlaceStays DEF SendSDPReq
<1> QED
  BY <1>1, <1>2, <1>3, <1>4, ThinsBasic, ThinFlows

LEMMA ServerRecvFlows ==
  ASSUME BaseTypeOK, RelayTypeOK, FlowInv, NEW c \in Client, ServerRecv(c), UNCHANGED handling
  PROVE  Flows
<1> DEFINE x == Letter(Head(inbox[c]))
<1>1. Receive(c)
  BY DEF ServerRecv, RecvNotice, RecvSDP, RecvSDPReq
<1>2. /\ Loses(At(c, "inbox"), At(c, "inbox")', x) /\ x \in Held(At(c, "inbox")) \cup {None}
      /\ \A e \in Client \ {c} : inbox'[e] = inbox[e]
  BY <1>1, ReceiveMoves
<1>3. /\ At(c, "outbox")' = At(c, "outbox") /\ At(c, "run")' = At(c, "run")
      /\ At(c, "sess")' = At(c, "sess") /\ At(c, "handling")' = At(c, "handling")
  BY <1>1, PlaceStays DEF Receive
<1>4. Older
  BY <1>1, OlderSame DEF Receive
<1>5. CASE RecvNotice(c) \/ RecvSDPReq(c)
  <2>1. /\ At(c, "SendCh")' = At(c, "SendCh") /\ At(c, "RemoteSDPCh")' = At(c, "RemoteSDPCh")
        /\ \A e \in Client \ {c} : chans'[e] = chans[e]
    BY <1>5, ChanStays DEF RecvNotice, RecvSDPReq
  <2>2. Alone(c)
    BY <1>1, <1>2, <2>1 DEF Receive, Alone
  <2>3. Thins(At(c, "inbox"), At(c, "inbox")')
    BY <1>2, LosesThins
  <2> QED
    BY <1>3, <1>4, <2>1, <2>2, <2>3, ThinsBasic, ThinFlows
<1>6. CASE RecvSDP(c)
  <2>1. x = Head(inbox[c]).message
    BY <1>6 DEF RecvSDP, Letter
  <2>2. ChanSend(c, "RemoteSDPCh", x)
    BY <1>6, <2>1 DEF RecvSDP
  <2> HIDE DEF x
  <2>3. /\ Gains(At(c, "RemoteSDPCh"), At(c, "RemoteSDPCh")', x)
        /\ At(c, "SendCh")' = At(c, "SendCh")
        /\ \A e \in Client \ {c} : chans'[e] = chans[e]
    BY <2>2, ChanMoves
  <2>4. Alone(c)
    BY <1>1, <1>2, <2>3 DEF Receive, Alone
  <2>5. \A r \in Place \ {"inbox", "RemoteSDPCh"} : Thins(At(c, r), At(c, r)')
    BY <1>3, <2>3, ThinsBasic DEF Place
  <2>6. /\ OfferPlace(c, "inbox") <=> OfferPlace(c, "RemoteSDPCh")
        /\ "inbox" \in Place /\ "RemoteSDPCh" \in Place
    BY DEF OfferPlace, Place
  <2> QED
    BY <1>2, <1>4, <2>3, <2>4, <2>5, <2>6, PassFlows
<1> QED
  BY <1>5, <1>6 DEF ServerRecv

LEMMA BootFlows ==
  ASSUME BaseTypeOK, RelayTypeOK, NEW c \in Client, NEW ch, Boot(c, ch),
         ch.SendCh = <<>>, ch.RemoteSDPCh = <<>>, UNCHANGED handling
  PROVE  Flows
<1>1. /\ chans'[c] = ch /\ \A e \in Client \ {c} : chans'[e] = chans[e] /\ proc'[e] = proc[e]
  BY DEF Boot, BaseTypeOK
<1>2. At(c, "SendCh")' = <<>> /\ At(c, "RemoteSDPCh")' = <<>>
  <2>1. chans'[c].SendCh = <<>> /\ chans'[c].RemoteSDPCh = <<>>
    BY <1>1
  <2> QED
    BY <2>1, AtPlacesNext
<1>3. At(c, "run")' = At(c, "run") /\ \A d \in Client \ {c} : run'[d] = run[d]
  BY RunStays DEF Boot
<1>4. Alone(c)
  BY <1>1, <1>3 DEF Boot, Alone
<1>5. Older
  <2>1. proc[c] = "off"
    BY DEF Boot
  <2> QED
    BY <1>4, <2>1, OlderBy DEF Alone
<1>6. /\ At(c, "inbox")' = At(c, "inbox") /\ At(c, "outbox")' = At(c, "outbox")
      /\ At(c, "sess")' = At(c, "sess")
  BY PlaceStays DEF Boot
<1> QED
  BY <1>2, <1>3, <1>4, <1>5, <1>6, ThinsBasic, ThinFlows

(* Run starts a session, which holds nothing yet. *)
LEMMA SpawnFlows ==
  ASSUME BaseTypeOK, RelayTypeOK, NEW c \in Client, WellFormed(c), run[c].pc = "spawn",
         NEW pc, run' = [run EXCEPT ![c].pc = pc],
         NEW stage \in Stage, sess' = [sess EXCEPT ![c] = Append(@, NewSession(stage))],
         UNCHANGED <<proc, chans, outbox, inbox, handling>>
  PROVE  Flows
<1>1. At(c, "run")' = At(c, "run") /\ \A d \in Client \ {c} : run'[d] = run[d]
  BY RunStays
<1>2. /\ Thins(At(c, "sess"), At(c, "sess")')
      /\ \A d \in Client \ {c} : sess'[d] = sess[d]
      /\ \A s \in DOMAIN sess[c] : s \in DOMAIN sess'[c] /\ sess'[c][s] = sess[c][s]
  BY SpawnMoves
<1>3. Alone(c)
  BY <1>1, <1>2 DEF Alone
<1>4. Older
  BY <1>2, <1>3, OlderBy DEF Alone
<1>5. /\ At(c, "SendCh")' = At(c, "SendCh") /\ At(c, "RemoteSDPCh")' = At(c, "RemoteSDPCh")
      /\ At(c, "inbox")' = At(c, "inbox") /\ At(c, "outbox")' = At(c, "outbox")
  BY PlaceStays
<1> QED
  BY <1>1, <1>2, <1>3, <1>4, <1>5, ThinsBasic, ThinFlows

(* Run takes a request, or posts an end signal. *)
LEMMA RunFlows ==
  ASSUME BaseTypeOK, RelayTypeOK, NEW c \in Client,
         NEW pc, run' = [run EXCEPT ![c].pc = pc],
         ChanRecv(c, "SDPReqCh") \/ ChanSend(c, "WebrtcEndSignal", TRUE),
         UNCHANGED <<proc, outbox, inbox, sess, handling>>
  PROVE  Flows
<1>1. At(c, "run")' = At(c, "run") /\ \A d \in Client \ {c} : run'[d] = run[d]
  BY RunStays
<1>2. /\ At(c, "SendCh")' = At(c, "SendCh") /\ At(c, "RemoteSDPCh")' = At(c, "RemoteSDPCh")
      /\ \A e \in Client \ {c} : chans'[e] = chans[e]
  BY ChanStays
<1>3. Alone(c) /\ Older
  BY <1>1, <1>2, OlderSame DEF Alone
<1>4. /\ At(c, "sess")' = At(c, "sess")
      /\ At(c, "inbox")' = At(c, "inbox") /\ At(c, "outbox")' = At(c, "outbox")
  BY PlaceStays
<1> QED
  BY <1>1, <1>2, <1>3, <1>4, ThinsBasic, ThinFlows

(* A session goes on without passing anything on. *)
LEMMA StageFlows ==
  ASSUME BaseTypeOK, RelayTypeOK, NEW c \in Client, NEW k \in DOMAIN sess[c], NEW e,
         e.sdp = sess[c][k].sdp, sess' = [sess EXCEPT ![c] = [@ EXCEPT ![k] = e]],
         sess[c][k].stage \notin Before(c) => e.stage \notin Before(c),
         ChanRecv(c, "WebrtcEndSignal") \/ chans' = chans,
         UNCHANGED <<proc, outbox, inbox, run, handling>>
  PROVE  Flows
<1>1. /\ At(c, "sess")' = At(c, "sess")
      /\ \A d \in Client \ {c} : sess'[d] = sess[d]
      /\ DOMAIN sess'[c] = DOMAIN sess[c] /\ sess'[c][k] = e
      /\ \A s \in DOMAIN sess[c] \ {k} : sess'[c][s] = sess[c][s]
  BY StageStays
<1>2. /\ At(c, "SendCh")' = At(c, "SendCh") /\ At(c, "RemoteSDPCh")' = At(c, "RemoteSDPCh")
      /\ \A d \in Client \ {c} : chans'[d] = chans[d]
  BY ChanStays
<1>3. Alone(c)
  BY <1>1, <1>2 DEF Alone
<1>4. Older
  BY <1>1, <1>3, OlderBy DEF Alone
<1>5. /\ At(c, "run")' = At(c, "run")
      /\ At(c, "inbox")' = At(c, "inbox") /\ At(c, "outbox")' = At(c, "outbox")
  BY PlaceStays
<1> QED
  BY <1>1, <1>2, <1>3, <1>4, <1>5, ThinsBasic, ThinFlows

LEMMA GoToFlows ==
  ASSUME BaseTypeOK, RelayTypeOK, NEW c \in Client, NEW k \in DOMAIN sess[c], NEW stage,
         GoTo(c, k, stage), sess[c][k].stage \notin Before(c) => stage \notin Before(c),
         ChanRecv(c, "WebrtcEndSignal") \/ chans' = chans,
         UNCHANGED <<proc, outbox, inbox, run, handling>>
  PROVE  Flows
<1> DEFINE e == [sess[c][k] EXCEPT !.stage = stage]
<1>1. sess[c][k] \in SessionState
  BY DEF BaseTypeOK
<1>2. e.sdp = sess[c][k].sdp /\ e.stage = stage
  BY <1>1 DEF SessionState
<1>3. sess' = [sess EXCEPT ![c] = [@ EXCEPT ![k] = e]]
  BY DEF GoTo
<1> HIDE DEF e
<1> QED
  BY <1>2, <1>3, StageFlows

(* A session takes a description from RemoteSDPCh. *)
LEMMA GivenFlows ==
  ASSUME BaseTypeOK, RelayTypeOK, FlowInv, NEW c \in Client, NEW k \in DOMAIN sess[c], NEW stage,
         ChanRecv(c, "RemoteSDPCh"), GoToWith(c, k, stage, Head(chans[c].RemoteSDPCh)),
         sess[c][k].stage \notin Before(c) => stage \notin Before(c),
         UNCHANGED <<proc, outbox, inbox, run, handling>>
  PROVE  Flows
<1> DEFINE x == Head(chans[c].RemoteSDPCh)
           e == [sess[c][k] EXCEPT !.stage = stage, !.sdp = x]
<1>1. sess[c][k] \in SessionState
  BY DEF BaseTypeOK
<1>2. e.sdp = x /\ e.stage = stage
  BY <1>1 DEF SessionState
<1>3. sess' = [sess EXCEPT ![c] = [@ EXCEPT ![k] = e]]
  BY DEF GoToWith
<1> HIDE DEF e
<1>4. /\ Loses(At(c, "RemoteSDPCh"), At(c, "RemoteSDPCh")', x)
      /\ x \in Held(At(c, "RemoteSDPCh")) \cup {None}
      /\ At(c, "SendCh")' = At(c, "SendCh")
      /\ \A d \in Client \ {c} : chans'[d] = chans[d]
  BY ChanMoves
<1> HIDE DEF x
<1>5. /\ Gains(At(c, "sess"), At(c, "sess")', e.sdp)
      /\ \A d \in Client \ {c} : sess'[d] = sess[d]
      /\ DOMAIN sess'[c] = DOMAIN sess[c] /\ sess'[c][k] = e
      /\ \A s \in DOMAIN sess[c] \ {k} : sess'[c][s] = sess[c][s]
  BY <1>3, GivenMoves
<1>6. Gains(At(c, "sess"), At(c, "sess")', x)
  BY <1>2, <1>5
<1>7. Alone(c)
  BY <1>4, <1>5 DEF Alone
<1>8. Older
  BY <1>2, <1>5, <1>7, OlderBy DEF Alone
<1>9. /\ At(c, "run")' = At(c, "run") /\ At(c, "handling")' = At(c, "handling")
      /\ At(c, "inbox")' = At(c, "inbox") /\ At(c, "outbox")' = At(c, "outbox")
  BY PlaceStays
<1>10. \A r \in Place \ {"RemoteSDPCh", "sess"} : Thins(At(c, r), At(c, r)')
  BY <1>4, <1>9, ThinsBasic DEF Place
<1>11. /\ OfferPlace(c, "RemoteSDPCh") <=> OfferPlace(c, "sess")
       /\ "RemoteSDPCh" \in Place /\ "sess" \in Place
  BY DEF OfferPlace, Place
<1> QED
  BY <1>4, <1>6, <1>7, <1>8, <1>10, <1>11, PassFlows

LEMMA OneGains ==
  /\ \A x, y : Gains(<<y>>, <<x>>, x)
  /\ \A x : Loses(<<x>>, <<None>>, x) /\ x \in Held(<<x>>) \cup {None}
<1>1. \A x : DOMAIN <<x>> = {1} /\ <<x>>[1] = x
  OBVIOUS
<1>2. \A x : Held(<<x>>) = {x} \ {None} /\ Distinct(<<x>>)
  BY <1>1 DEF Held, Distinct
<1> QED
  BY <1>2 DEF Gains, Loses

(* Run of a controller takes an offer, and puts it back. *)
LEMMA RunOfferFlows ==
  ASSUME BaseTypeOK, RelayTypeOK, FlowInv, NEW c \in Client, ControllerRunOffer(c),
         UNCHANGED handling
  PROVE  Flows
<1> DEFINE x == Head(chans[c].RemoteSDPCh)
<1>1. run'[c].sdp = x /\ \A d \in Client \ {c} : run'[d] = run[d]
  BY DEF ControllerRunOffer, BaseTypeOK
<1>2. /\ Loses(At(c, "RemoteSDPCh"), At(c, "RemoteSDPCh")', x)
      /\ x \in Held(At(c, "RemoteSDPCh")) \cup {None}
      /\ At(c, "SendCh")' = At(c, "SendCh")
      /\ \A d \in Client \ {c} : chans'[d] = chans[d]
  BY ChanMoves DEF ControllerRunOffer
<1> HIDE DEF x
<1>3. At(c, "run") = <<run[c].sdp>> /\ At(c, "run")' = <<run'[c].sdp>>
  BY AtPlaces, AtPlacesNext
<1>4. Gains(At(c, "run"), At(c, "run")', x)
  BY <1>1, <1>3, OneGains
<1>5. Alone(c) /\ Older
  BY <1>1, <1>2, OlderSame DEF ControllerRunOffer, Alone
<1>6. /\ At(c, "sess")' = At(c, "sess") /\ At(c, "handling")' = At(c, "handling")
      /\ At(c, "inbox")' = At(c, "inbox") /\ At(c, "outbox")' = At(c, "outbox")
  BY PlaceStays DEF ControllerRunOffer
<1>7. \A r \in Place \ {"RemoteSDPCh", "run"} : Thins(At(c, r), At(c, r)')
  BY <1>2, <1>6, ThinsBasic DEF Place
<1>8. /\ OfferPlace(c, "RemoteSDPCh") <=> OfferPlace(c, "run")
      /\ "RemoteSDPCh" \in Place /\ "run" \in Place
  BY DEF OfferPlace, Place
<1> QED
  BY <1>2, <1>4, <1>5, <1>7, <1>8, PassFlows

LEMMA RunPutBackFlows ==
  ASSUME BaseTypeOK, RelayTypeOK, FlowInv, NEW c \in Client, ControllerRunPutBack(c),
         UNCHANGED handling
  PROVE  Flows
<1> DEFINE x == run[c].sdp
<1>1. run'[c].sdp = None /\ \A d \in Client \ {c} : run'[d] = run[d]
  BY DEF ControllerRunPutBack, BaseTypeOK
<1>2. ChanSend(c, "RemoteSDPCh", x)
  BY DEF ControllerRunPutBack
<1>3. At(c, "run") = <<x>> /\ At(c, "run")' = <<run'[c].sdp>>
  BY AtPlaces, AtPlacesNext
<1> HIDE DEF x
<1>4. /\ Gains(At(c, "RemoteSDPCh"), At(c, "RemoteSDPCh")', x)
      /\ At(c, "SendCh")' = At(c, "SendCh")
      /\ \A d \in Client \ {c} : chans'[d] = chans[d]
  BY <1>2, ChanMoves
<1>5. Loses(At(c, "run"), At(c, "run")', x) /\ x \in Held(At(c, "run")) \cup {None}
  BY <1>1, <1>3, OneGains
<1>6. Alone(c) /\ Older
  BY <1>1, <1>4, OlderSame DEF ControllerRunPutBack, Alone
<1>7. /\ At(c, "sess")' = At(c, "sess") /\ At(c, "handling")' = At(c, "handling")
      /\ At(c, "inbox")' = At(c, "inbox") /\ At(c, "outbox")' = At(c, "outbox")
  BY PlaceStays DEF ControllerRunPutBack
<1>8. \A r \in Place \ {"run", "RemoteSDPCh"} : Thins(At(c, r), At(c, r)')
  BY <1>4, <1>7, ThinsBasic DEF Place
<1>9. /\ OfferPlace(c, "run") <=> OfferPlace(c, "RemoteSDPCh")
      /\ "RemoteSDPCh" \in Place /\ "run" \in Place
  BY DEF OfferPlace, Place
<1> QED
  BY <1>4, <1>5, <1>6, <1>8, <1>9, PassFlows

(* A session makes its description and gives it to Send. *)
LEMMA MadeFlows ==
  ASSUME BaseTypeOK, RelayTypeOK, FlowInv, NEW c \in Client, NEW k \in DOMAIN sess[c], NEW stage,
         NEW x \in SDP, x.from = <<c, k>>, proc[c] = "up",
         sess[c][k].stage \in Before(c), stage \notin Before(c),
         ChanSend(c, "SendCh", x), GoTo(c, k, stage),
         Older => Right(c, "SendCh", x)',
         UNCHANGED <<proc, outbox, inbox, run, handling>>
  PROVE  Flows
<1> DEFINE e == [sess[c][k] EXCEPT !.stage = stage]
<1>1. sess[c][k] \in SessionState
  BY DEF BaseTypeOK
<1>2. e.sdp = sess[c][k].sdp /\ e.stage = stage
  BY <1>1 DEF SessionState
<1>3. sess' = [sess EXCEPT ![c] = [@ EXCEPT ![k] = e]]
  BY DEF GoTo
<1> HIDE DEF e
<1>4. /\ At(c, "sess")' = At(c, "sess")
      /\ \A d \in Client \ {c} : sess'[d] = sess[d]
      /\ DOMAIN sess'[c] = DOMAIN sess[c] /\ sess'[c][k] = e
      /\ \A s \in DOMAIN sess[c] \ {k} : sess'[c][s] = sess[c][s]
  BY <1>2, <1>3, StageStays
<1>5. /\ Gains(At(c, "SendCh"), At(c, "SendCh")', x)
      /\ At(c, "RemoteSDPCh")' = At(c, "RemoteSDPCh")
      /\ \A d \in Client \ {c} : chans'[d] = chans[d]
  BY ChanMoves
<1>6. Alone(c)
  BY <1>4, <1>5 DEF Alone
<1>7. Older
  BY <1>2, <1>4, <1>6, OlderBy DEF Alone
<1>8. /\ At(c, "run")' = At(c, "run") /\ At(c, "handling")' = At(c, "handling")
      /\ At(c, "inbox")' = At(c, "inbox") /\ At(c, "outbox")' = At(c, "outbox")
  BY PlaceStays
<1>9. \A r \in Place : r # "SendCh" => Thins(At(c, r), At(c, r)')
  BY <1>4, <1>5, <1>8, ThinsBasic DEF Place
<1>10. \A f \in Client, r \in Place : f # c \/ r # "SendCh" => Thins(At(f, r), At(f, r)')
  BY <1>6, <1>9, AloneThins
<1>11. ~Existing(x.from) /\ Existing(x.from)'
  BY <1>2, <1>4 DEF Existing, Before
<1>12. "SendCh" \in Place /\ Right(c, "SendCh", x)'
  BY <1>7 DEF Place
<1> QED
  BY <1>5, <1>7, <1>10, <1>11, <1>12, MakeFlows

LEMMA RoverOfferFlows ==
  ASSUME BaseTypeOK, RelayTypeOK, FlowInv, NEW r \in Rover, WellFormed(r),
         NEW s \in DOMAIN sess[r], RoverOffer(r, s), UNCHANGED handling
  PROVE  Flows
<1> DEFINE x == Offer(r, s)
<1>1. r \in Client /\ s \in Nat \ {0}
  BY RoverIsClient DEF BaseTypeOK
<1>2. x \in SDP /\ x.from = <<r, s>> /\ x.from[1] \in Rover
  BY <1>1 DEF Offer, SDP, Session
<1>3. ChanSend(r, "SendCh", x) /\ GoTo(r, s, "waiting")
  BY DEF RoverOffer
<1> HIDE DEF x
<1>4. Right(r, "SendCh", x)'
  BY <1>2 DEF Right, OfferPlace
<1>5. proc[r] = "up"
  BY DEF WellFormed
<1>6. sess[r][s].stage \in Before(r) /\ "waiting" \notin Before(r)
  BY DEF RoverOffer, StageIs, Before
<1>7. UNCHANGED <<proc, outbox, inbox, run, handling>>
  BY DEF RoverOffer
<1> QED
  BY <1>1, <1>2, <1>3, <1>4, <1>5, <1>6, <1>7, MadeFlows

(* An answer names the session whose offer it answers. *)
LEMMA ControllerAnswerFlows ==
  ASSUME BaseTypeOK, RelayTypeOK, FlowInv, NEW c \in Controller, WellFormed(c), HasOffer(c),
         NEW k \in DOMAIN sess[c], ControllerAnswer(c, k), UNCHANGED handling
  PROVE  Flows
<1> DEFINE y == sess[c][k].sdp
           x == Answer(c, k, y)
<1>1. c \in Client /\ c \notin Rover /\ k \in Nat \ {0}
  BY ControllerIsClient, BaseAssumption DEF BaseTypeOK
<1>2. y \in SDP
  BY DEF ControllerAnswer, StageIs, HasOffer
<1>3. x \in SDP /\ x.from = <<c, k>> /\ x.re = y.from /\ y.from \in Session
  BY <1>1, <1>2 DEF Answer, SDP, Session
<1>4. ChanSend(c, "SendCh", x) /\ GoTo(c, k, "serving")
  BY DEF ControllerAnswer
<1>5. At(c, "sess") = [i \in DOMAIN sess[c] |-> sess[c][i].sdp]
  BY AtPlaces
<1>6. k \in DOMAIN At(c, "sess") /\ At(c, "sess")[k] = y
  BY <1>5
<1> HIDE DEF y, x
<1>7. y.from[1] \in Rover /\ Existing(y.from)
  <2>1. y \in Held(At(c, "sess")) /\ "sess" \in Place /\ OfferPlace(c, "sess")
    BY <1>1, <1>2, <1>6, SDPAssumption DEF Held, Place, OfferPlace
  <2>2. Right(c, "sess", y) /\ Existing(y.from)
    BY <1>1, <2>1 DEF FlowInv, Known, Kinds
  <2> QED
    BY <2>1, <2>2 DEF Right
<1>8. PICK z \in SDP : z = x
  BY <1>3
<1>9. z.from = <<c, k>> /\ ChanSend(c, "SendCh", z)
  BY <1>3, <1>4, <1>8
<1>10. z.re \in Session /\ z.re[1] \in Rover /\ Existing(z.re)
  BY <1>3, <1>7, <1>8
<1>11. ASSUME Older
       PROVE  Right(c, "SendCh", z)'
  <2>1. Existing(z.re)'
    BY <1>10, <1>11 DEF Older
  <2> QED
    BY <1>1, <1>10, <2>1 DEF Right, OfferPlace
<1>12. proc[c] = "up"
  BY <1>1 DEF WellFormed
<1>13. sess[c][k].stage \in Before(c) /\ "serving" \notin Before(c)
  BY <1>1 DEF ControllerAnswer, StageIs, Before
<1>14. UNCHANGED <<proc, outbox, inbox, run, handling>>
  BY DEF ControllerAnswer
<1> QED
  BY <1>1, <1>4, <1>9, <1>11, <1>12, <1>13, <1>14, MadeFlows

LEMMA RoverStepFlows ==
  ASSUME BaseTypeOK, RelayTypeOK, FlowInv, NEW r \in Rover, WellFormed(r), RoverStep(r),
         UNCHANGED handling
  PROVE  Flows
<1>0. r \in Client
  BY RoverIsClient
<1>1. CASE RoverStart(r)
  <2>1. NoChans.SendCh = <<>> /\ NoChans.RemoteSDPCh = <<>>
    BY DEF NoChans
  <2> QED
    BY <1>0, <1>1, <2>1, BootFlows DEF RoverStart
<1>2. CASE Exit(r)
  BY <1>0, <1>2, DieFlows DEF Exit
<1>3. CASE SignIn(r) \/ SendSDP(r) \/ SendSDPReq(r) \/ ServerRecv(r)
  BY <1>0, <1>3, SignInFlows, SendSDPFlows, SendSDPReqFlows, ServerRecvFlows
<1>4. CASE RoverSpawn(r)
  <2> DEFINE stage == IF r \in GstreamerCli THEN "starting" ELSE "offering"
  <2>1. stage \in Stage
    BY DEF Stage
  <2>2. /\ run[r].pc = "spawn" /\ run' = [run EXCEPT ![r].pc = "select"]
        /\ sess' = [sess EXCEPT ![r] = Append(@, NewSession(stage))]
        /\ UNCHANGED <<proc, chans, outbox, inbox, handling>>
    BY <1>4 DEF RoverSpawn
  <2> HIDE DEF stage
  <2> QED
    BY <1>0, <2>1, <2>2, SpawnFlows
<1>5. CASE RoverRunRequest(r)
  BY <1>0, <1>5, RunFlows DEF RoverRunRequest
<1>6. CASE RoverRunSignal(r)
  BY <1>0, <1>6, RunFlows DEF RoverRunSignal
<1>7. ASSUME NEW s \in DOMAIN sess[r], RoverSession(r, s)
      PROVE  Flows
  <2>1. CASE RoverListen(r, s)
    <3>1. sess[r][s].stage \in Before(r)
      BY <2>1 DEF RoverListen, StageIs, Before
    <3> QED
      BY <1>0, <2>1, <3>1, GoToFlows DEF RoverListen
  <2>2. CASE RoverPortConflict(r, s)
    <3>1. proc[r] = "up"
      BY <2>2 DEF RoverPortConflict, StageIs, WellFormed
    <3> QED
      BY <1>0, <2>2, <3>1, DieFlows DEF RoverPortConflict
  <2>3. CASE RoverFirstPacket(r, s)
    <3>1. sess[r][s].stage \in Before(r)
      BY <2>3 DEF RoverFirstPacket, StageIs, Before
    <3> QED
      BY <1>0, <2>3, <3>1, GoToFlows DEF RoverFirstPacket
  <2>4. CASE RoverOffer(r, s)
    BY <2>4, RoverOfferFlows
  <2>5. CASE RoverAnswered(r, s)
    <3>1. "streaming" \notin Before(r)
      BY DEF Before
    <3> QED
      BY <1>0, <2>5, <3>1, GivenFlows DEF RoverAnswered
  <2>6. CASE RoverEnd(r, s)
    <3>1. "closing" \notin Before(r)
      BY DEF Before
    <3> QED
      BY <1>0, <2>6, <3>1, GoToFlows DEF RoverEnd
  <2>7. CASE RoverClosed(r, s)
    <3>1. "closed" \notin Before(r)
      BY DEF Before
    <3> QED
      BY <1>0, <2>7, <3>1, GoToFlows DEF RoverClosed
  <2> QED
    BY <1>7, <2>1, <2>2, <2>3, <2>4, <2>5, <2>6, <2>7 DEF RoverSession
<1> QED
  BY <1>1, <1>2, <1>3, <1>4, <1>5, <1>6, <1>7 DEF RoverStep, RoverRun

LEMMA ControllerStepFlows ==
  ASSUME BaseTypeOK, RelayTypeOK, FlowInv, NEW c \in Controller, WellFormed(c), HasOffer(c),
         ControllerStep(c), UNCHANGED handling
  PROVE  Flows
<1>0. c \in Client /\ c \notin Rover
  BY ControllerIsClient, BaseAssumption
<1>1. CASE ControllerStart(c)
  <2> DEFINE ch == [NoChans EXCEPT !.SDPReqCh = <<TRUE>>]
  <2>1. ch.SendCh = <<>> /\ ch.RemoteSDPCh = <<>>
    BY DEF NoChans
  <2>2. Boot(c, ch)
    BY <1>1 DEF ControllerStart
  <2> HIDE DEF ch
  <2> QED
    BY <1>0, <2>1, <2>2, BootFlows
<1>2. CASE Exit(c)
  BY <1>0, <1>2, DieFlows DEF Exit
<1>3. CASE SignIn(c) \/ SendSDP(c) \/ SendSDPReq(c) \/ ServerRecv(c)
  BY <1>0, <1>3, SignInFlows, SendSDPFlows, SendSDPReqFlows, ServerRecvFlows
<1>4. CASE ControllerSpawn(c)
  <2> DEFINE pc == IF c \in GstreamerCli THEN "select" ELSE "mainloop"
  <2>1. "waiting" \in Stage
    BY DEF Stage
  <2>2. /\ run[c].pc = "spawn" /\ run' = [run EXCEPT ![c].pc = pc]
        /\ sess' = [sess EXCEPT ![c] = Append(@, NewSession("waiting"))]
        /\ UNCHANGED <<proc, chans, outbox, inbox, handling>>
    BY <1>4 DEF ControllerSpawn
  <2> HIDE DEF pc
  <2> QED
    BY <1>0, <2>1, <2>2, SpawnFlows
<1>5. CASE ControllerRunOffer(c)
  BY <1>0, <1>5, RunOfferFlows
<1>6. CASE ControllerRunSignal(c)
  BY <1>0, <1>6, RunFlows DEF ControllerRunSignal
<1>7. CASE ControllerRunPutBack(c)
  BY <1>0, <1>7, RunPutBackFlows
<1>8. ASSUME NEW k \in DOMAIN sess[c], ControllerSession(c, k)
      PROVE  Flows
  <2>0. Before(c) = {"waiting", "answering"}
    BY <1>0 DEF Before
  <2>1. CASE ControllerTakeOffer(c, k)
    <3>1. sess[c][k].stage \in Before(c)
      BY <2>0, <2>1 DEF ControllerTakeOffer, StageIs
    <3> QED
      BY <1>0, <2>1, <3>1, GivenFlows DEF ControllerTakeOffer
  <2>2. CASE ControllerAnswer(c, k)
    BY <2>2, ControllerAnswerFlows
  <2>3. CASE ControllerTrackStarts(c, k)
    <3> DEFINE e == [sess[c][k] EXCEPT !.track = TRUE]
    <3>1. sess[c][k] \in SessionState
      BY <1>0 DEF BaseTypeOK
    <3>2. e.sdp = sess[c][k].sdp /\ e.stage = sess[c][k].stage
      BY <3>1 DEF SessionState
    <3>3. sess' = [sess EXCEPT ![c] = [@ EXCEPT ![k] = e]]
      BY <2>3 DEF ControllerTrackStarts
    <3> HIDE DEF e
    <3>4. sess[c][k].stage \notin Before(c) => e.stage \notin Before(c)
      BY <3>2
    <3>5. chans' = chans /\ UNCHANGED <<proc, outbox, inbox, run, handling>>
      BY <2>3 DEF ControllerTrackStarts
    <3> QED
      BY <1>0, <3>2, <3>3, <3>4, <3>5, StageFlows
  <2>4. CASE ControllerIceGone(c, k)
    BY <1>0, <2>0, <2>4, GoToFlows DEF ControllerIceGone
  <2>5. CASE ControllerEnd(c, k)
    BY <1>0, <2>0, <2>5, GoToFlows DEF ControllerEnd
  <2>6. CASE ControllerTrackPanic(c, k)
    <3>1. proc[c] = "up"
      BY <1>0, <2>6 DEF ControllerTrackPanic, StageIs, WellFormed
    <3> QED
      BY <1>0, <2>6, <3>1, DieFlows DEF ControllerTrackPanic
  <2> QED
    BY <1>8, <2>1, <2>2, <2>3, <2>4, <2>5, <2>6 DEF ControllerSession
<1> QED
  BY <1>1, <1>2, <1>3, <1>4, <1>5, <1>6, <1>7, <1>8 DEF ControllerStep, ControllerRun

(***************************************************************************)
(* The relay: to whom it passes what is addressed to whom.                 *)
(***************************************************************************)
Posted(c, q) == \A i \in DOMAIN q : q[i].id = 5 => q[i].to_user = RemoteId(c)

(* Processes write to their peers' user, and the pool has every user under *)
(* the user's own name.                                                    *)
Addressed ==
  /\ \A u \in User : pool[u] # None => Id(pool[u]) = u
  /\ \A c \in Client : Posted(c, outbox[c])
  /\ \A c \in Client : handling[c] # None => handling[c].to_user = RemoteId(c)

LEMMA PlaceSame ==
  ASSUME NEW d
  PROVE  /\ chans'[d] = chans[d] => At(d, "SendCh")' = At(d, "SendCh")
         /\ chans'[d] = chans[d] => At(d, "RemoteSDPCh")' = At(d, "RemoteSDPCh")
         /\ outbox'[d] = outbox[d] => At(d, "outbox")' = At(d, "outbox")
         /\ inbox'[d] = inbox[d] => At(d, "inbox")' = At(d, "inbox")
         /\ handling'[d] = handling[d] => At(d, "handling")' = At(d, "handling")
         /\ run'[d] = run[d] => At(d, "run")' = At(d, "run")
         /\ sess'[d] = sess[d] => At(d, "sess")' = At(d, "sess")
BY DEF At, SDPsAt, Letters

LEMMA TakeMoves ==
  ASSUME BaseTypeOK, RelayTypeOK, NEW c \in Client, NEW id, Take(c, id)
  PROVE  /\ Loses(At(c, "outbox"), At(c, "outbox")', Letter(Head(outbox[c])))
         /\ Letter(Head(outbox[c])) \in Held(At(c, "outbox")) \cup {None}
         /\ \A f \in Client \ {c} : outbox'[f] = outbox[f]
<1>1. outbox[c] \in Seq(Message) /\ outbox \in [Client -> Seq(ToServer)]
  BY AtType DEF BaseTypeOK
<1>2. /\ outbox[c] # <<>> /\ outbox'[c] = Tail(outbox[c])
      /\ \A f \in Client \ {c} : outbox'[f] = outbox[f]
  BY <1>1 DEF Take
<1>3. /\ Loses(Letters(outbox[c]), Letters(Tail(outbox[c])), Letter(Head(outbox[c])))
      /\ Letter(Head(outbox[c])) \in Held(Letters(outbox[c])) \cup {None}
  BY <1>1, <1>2, LettersTail
<1>4. At(c, "outbox") = Letters(outbox[c]) /\ At(c, "outbox")' = Letters(outbox'[c])
  BY AtPlaces, AtPlacesNext
<1> QED
  BY <1>2, <1>3, <1>4

LEMMA DeliverMoves ==
  ASSUME BaseTypeOK, RelayTypeOK, NEW d \in Client, NEW m, Deliver(d, m)
  PROVE  /\ Gains(At(d, "inbox"), At(d, "inbox")', Letter(m))
         /\ \A f \in Client \ {d} : inbox'[f] = inbox[f]
<1>1. inbox[d] \in Seq(Message) /\ inbox \in [Client -> Seq(FromServer)]
  BY AtType DEF BaseTypeOK
<1>2. At(d, "inbox") = Letters(inbox[d]) /\ At(d, "inbox")' = Letters(inbox'[d])
  BY AtPlaces, AtPlacesNext
<1>3. CASE proc[d] = "up"
  <2>1. /\ inbox'[d] = Append(inbox[d], m)
        /\ \A f \in Client \ {d} : inbox'[f] = inbox[f]
    BY <1>1, <1>3 DEF Deliver
  <2>2. Gains(Letters(inbox[d]), Letters(Append(inbox[d], m)), Letter(m))
    BY <1>1, LettersAppend
  <2> QED
    BY <1>2, <2>1, <2>2
<1>4. CASE proc[d] # "up"
  <2>1. inbox' = inbox
    BY <1>4 DEF Deliver
  <2>2. \A q, x : Gains(q, q, x)
    BY DEF Gains
  <2> QED
    BY <1>2, <2>1, <2>2
<1> QED
  BY <1>3, <1>4

LEMMA HandlerMoves ==
  ASSUME RelayTypeOK, NEW c \in Client
  PROVE  /\ \A m : m # None /\ handling[c] = None /\ handling' = [handling EXCEPT ![c] = m]
              => /\ Gains(At(c, "handling"), At(c, "handling")', m.message)
                 /\ \A f \in Client \ {c} : handling'[f] = handling[f]
         /\ \A m : m # None /\ handling[c] = m /\ handling' = [handling EXCEPT ![c] = None]
              => /\ Loses(At(c, "handling"), At(c, "handling")', m.message)
                 /\ m.message \in Held(At(c, "handling")) \cup {None}
                 /\ \A f \in Client \ {c} : handling'[f] = handling[f]
<1>1. \A x : DOMAIN <<x>> = {1} /\ <<x>>[1] = x
  OBVIOUS
<1>2. \A x : Held(<<x>>) = {x} \ {None} /\ Distinct(<<x>>)
  BY <1>1 DEF Held, Distinct
<1>3. Held(<<>>) = {} /\ Distinct(<<>>)
  BY DEF Held, Distinct
<1>4. /\ At(c, "handling") = IF handling[c] = None THEN <<>> ELSE <<handling[c].message>>
      /\ At(c, "handling")' = IF handling'[c] = None THEN <<>> ELSE <<handling'[c].message>>
  BY AtPlaces, AtPlacesNext
<1>5. ASSUME NEW m, m # None, handling[c] = None, handling' = [handling EXCEPT ![c] = m]
      PROVE  /\ Gains(At(c, "handling"), At(c, "handling")', m.message)
             /\ \A f \in Client \ {c} : handling'[f] = handling[f]
  <2>1. handling'[c] = m /\ \A f \in Client \ {c} : handling'[f] = handling[f]
    BY <1>5 DEF RelayTypeOK
  <2>2. At(c, "handling") = <<>> /\ At(c, "handling")' = <<m.message>>
    BY <1>4, <1>5, <2>1
  <2>3. Gains(<<>>, <<m.message>>, m.message)
    BY <1>2, <1>3 DEF Gains
  <2> QED
    BY <2>1, <2>2, <2>3
<1>6. ASSUME NEW m, m # None, handling[c] = m, handling' = [handling EXCEPT ![c] = None]
      PROVE  /\ Loses(At(c, "handling"), At(c, "handling")', m.message)
             /\ m.message \in Held(At(c, "handling")) \cup {None}
             /\ \A f \in Client \ {c} : handling'[f] = handling[f]
  <2>1. handling'[c] = None /\ \A f \in Client \ {c} : handling'[f] = handling[f]
    BY <1>6 DEF RelayTypeOK
  <2>2. At(c, "handling") = <<m.message>> /\ At(c, "handling")' = <<>>
    BY <1>4, <1>6, <2>1
  <2>3. Loses(<<m.message>>, <<>>, m.message) /\ m.message \in Held(<<m.message>>) \cup {None}
    BY <1>2, <1>3 DEF Loses
  <2> QED
    BY <2>1, <2>2, <2>3
<1> QED
  BY <1>5, <1>6

LEMMA OnlineFlows ==
  ASSUME BaseTypeOK, RelayTypeOK, NEW c \in Client, Online(c)
  PROVE  Flows
<1>1. /\ Loses(At(c, "outbox"), At(c, "outbox")', Letter(Head(outbox[c])))
      /\ \A f \in Client \ {c} : outbox'[f] = outbox[f]
  BY TakeMoves DEF Online
<1>2. UNCHANGED <<proc, chans, inbox, run, sess, handling>>
  BY DEF Online
<1>3. \A f \in Client : Thins(At(f, "outbox"), At(f, "outbox")')
  BY <1>1, LosesThins, ThinsBasic, PlaceSame
<1>4. \A f \in Client : \A r \in Place : Thins(At(f, r), At(f, r)')
  BY <1>2, <1>3, ThinsBasic, PlaceStays DEF Place
<1> QED
  BY <1>2, <1>4, OlderSame DEF Flows, BringsNothing

LEMMA SendOfflineFlows ==
  ASSUME BaseTypeOK, RelayTypeOK, NEW c \in Client, SendOffline(c)
  PROVE  Flows
<1>1. /\ Loses(At(c, "outbox"), At(c, "outbox")', Letter(Head(outbox[c])))
      /\ \A f \in Client \ {c} : outbox'[f] = outbox[f]
  BY TakeMoves DEF SendOffline
<1>2. UNCHANGED <<proc, chans, run, sess, handling>>
  BY DEF SendOffline
<1>3. \A f \in Client : Thins(At(f, "outbox"), At(f, "outbox")')
  BY <1>1, LosesThins, ThinsBasic, PlaceSame
<1>4. /\ Thins(At(c, "inbox"), At(c, "inbox")')
      /\ \A f \in Client \ {c} : inbox'[f] = inbox[f]
  <2>1. Deliver(c, [id |-> 200]) /\ Letter([id |-> 200]) = None
    BY DEF SendOffline, Letter
  <2> QED
    BY <2>1, DeliverMoves, GainsNone
<1>5. \A f \in Client : Thins(At(f, "inbox"), At(f, "inbox")')
  BY <1>4, ThinsBasic, PlaceSame
<1>6. \A f \in Client : \A r \in Place : Thins(At(f, r), At(f, r)')
  BY <1>2, <1>3, <1>5, ThinsBasic, PlaceStays DEF Place
<1> QED
  BY <1>2, <1>6, OlderSame DEF Flows, BringsNothing

(* send() takes a message off the connection. *)
LEMMA SendOnlineFlows ==
  ASSUME BaseTypeOK, RelayTypeOK, FlowInv, NEW c \in Client, SendOnline(c)
  PROVE  Flows
<1> DEFINE m == Head(outbox[c])
           x == m.message
<1>1. /\ Loses(At(c, "outbox"), At(c, "outbox")', Letter(m))
      /\ Letter(m) \in Held(At(c, "outbox")) \cup {None}
      /\ \A f \in Client \ {c} : outbox'[f] = outbox[f]
  BY TakeMoves DEF SendOnline
<1>2. m \in ToServer /\ m.id = 5
  BY TakeType DEF SendOnline
<1>3. m # None /\ Letter(m) = x
  BY <1>2, RelayAssumption DEF Letter
<1>4. handling[c] = None /\ handling' = [handling EXCEPT ![c] = m]
  BY DEF SendOnline, Take
<1>5. /\ Gains(At(c, "handling"), At(c, "handling")', x)
      /\ \A f \in Client \ {c} : handling'[f] = handling[f]
  BY <1>3, <1>4, HandlerMoves
<1>6. UNCHANGED <<proc, chans, inbox, run, sess>>
  BY DEF SendOnline
<1> HIDE DEF m, x
<1>7. \A f \in Client : \A r \in Place :
        (f # c \/ r # "outbox") /\ (f # c \/ r # "handling") => Thins(At(f, r), At(f, r)')
  <2>1. \A f \in Client \ {c} : At(f, "outbox")' = At(f, "outbox") /\ At(f, "handling")' = At(f, "handling")
    BY <1>1, <1>5, PlaceSame
  <2> QED
    BY <1>6, <2>1, ThinsBasic, PlaceStays DEF Place
<1>8. /\ OfferPlace(c, "outbox") <=> OfferPlace(c, "handling")
      /\ "outbox" \in Place /\ "handling" \in Place
  BY DEF OfferPlace, Place
<1>9. Older
  BY <1>6, OlderSame
<1> QED
  BY <1>1, <1>3, <1>5, <1>7, <1>8, <1>9, MoveFlows

(* send() passes it to whoever has the recipient's name, or drops it. *)
LEMMA ForwardFlows ==
  ASSUME BaseTypeOK, RelayTypeOK, FlowInv, Addressed, NEW c \in Client, Forward(c)
  PROVE  Flows
<1> DEFINE m == handling[c]
           d == pool[m.to_user]
           x == m.message
<1>1. m # None /\ handling' = [handling EXCEPT ![c] = None]
  BY DEF Forward
<1>2. m \in Sends /\ m.to_user \in User /\ m.to_user = RemoteId(c)
  BY <1>1, ForwardedType DEF RelayTypeOK, Addressed
<1>3. /\ Loses(At(c, "handling"), At(c, "handling")', x)
      /\ x \in Held(At(c, "handling")) \cup {None}
      /\ \A f \in Client \ {c} : handling'[f] = handling[f]
  BY <1>1, HandlerMoves
<1>4. UNCHANGED <<proc, chans, outbox, run, sess>>
  BY DEF Forward
<1>5. \A f \in Client \ {c} : At(f, "handling")' = At(f, "handling")
  BY <1>3, PlaceSame
<1>6. Older
  BY <1>4, OlderSame
<1>7. CASE d = None
  <2>1. inbox' = inbox
    BY <1>7 DEF Forward
  <2> HIDE DEF m, d, x
  <2>2. \A f \in Client : Thins(At(f, "handling"), At(f, "handling")')
    BY <1>3, <1>5, LosesThins, ThinsBasic
  <2>3. \A f \in Client : \A r \in Place : Thins(At(f, r), At(f, r)')
    BY <1>4, <2>1, <2>2, ThinsBasic, PlaceStays DEF Place
  <2> QED
    BY <1>6, <2>3 DEF Flows, BringsNothing
<1>8. CASE d # None
  <2>1. PICK e \in Client : e = d
    BY <1>2, <1>8 DEF RelayTypeOK
  <2>2. Id(e) = RemoteId(c)
    BY <1>2, <1>8, <2>1 DEF Addressed
  <2>3. PICK l : l = Forwarded(m)
    OBVIOUS
  <2>4. Deliver(e, l) /\ Letter(l) = x
    BY <1>8, <2>1, <2>3 DEF Forward, Forwarded, Letter
  <2> HIDE DEF m, d, x
  <2>5. /\ Gains(At(e, "inbox"), At(e, "inbox")', Letter(l))
        /\ \A f \in Client \ {e} : inbox'[f] = inbox[f]
    BY <2>4, DeliverMoves
  <2>6. Gains(At(e, "inbox"), At(e, "inbox")', x)
    BY <2>4, <2>5
  <2>7. \A f \in Client \ {e} : At(f, "inbox")' = At(f, "inbox")
    BY <2>5, PlaceSame
  <2>8. \A f \in Client : \A r \in Place :
          (f # c \/ r # "handling") /\ (f # e \/ r # "inbox") => Thins(At(f, r), At(f, r)')
    BY <1>4, <1>5, <2>7, ThinsBasic, PlaceStays DEF Place
  <2>9. /\ OfferPlace(c, "handling") <=> OfferPlace(e, "inbox")
        /\ "handling" \in Place /\ "inbox" \in Place
    BY <2>2 DEF OfferPlace, Place, Id, RemoteId
  <2> QED
    BY <1>3, <1>6, <2>6, <2>8, <2>9, MoveFlows
<1> QED
  BY <1>7, <1>8

LEMMA ServeFlows ==
  ASSUME BaseTypeOK, RelayTypeOK, FlowInv, Addressed, NEW c \in Client, Serve(c)
  PROVE  Flows
<1>1. CASE ConnClosed(c)
  <2>1. UNCHANGED <<proc, chans, outbox, inbox, run, sess, handling>>
    BY <1>1 DEF ConnClosed
  <2>2. \A f \in Client : \A r \in Place : Thins(At(f, r), At(f, r)')
    BY <2>1, ThinsBasic, PlaceStays DEF Place
  <2> QED
    BY <2>1, <2>2, OlderSame DEF Flows, BringsNothing
<1> QED
  BY <1>1, OnlineFlows, SendOnlineFlows, SendOfflineFlows, ForwardFlows DEF Serve

LEMMA PostedSeq ==
  ASSUME NEW c, NEW q \in Seq(ToServer), Posted(c, q)
  PROVE  /\ q # <<>> => Posted(c, Tail(q)) /\ (Head(q).id = 5 => Head(q).to_user = RemoteId(c))
         /\ \A n \in 0..Len(q) : Posted(c, SubSeq(q, 1, n))
         /\ \A m \in ToServer : (m.id = 5 => m.to_user = RemoteId(c)) => Posted(c, Append(q, m))
<1>1. DOMAIN q = 1..Len(q) /\ Len(q) \in Nat
  OBVIOUS
<1>2. ASSUME q # <<>>
      PROVE  Posted(c, Tail(q)) /\ (Head(q).id = 5 => Head(q).to_user = RemoteId(c))
  <2>1. /\ Head(q) = q[1] /\ 1 \in DOMAIN q
        /\ \A i \in DOMAIN Tail(q) : i + 1 \in DOMAIN q /\ Tail(q)[i] = q[i + 1]
    BY <1>2
  <2> QED
    BY <2>1 DEF Posted
<1>3. ASSUME NEW n \in 0..Len(q)
      PROVE  Posted(c, SubSeq(q, 1, n))
  <2>1. \A i \in DOMAIN SubSeq(q, 1, n) : i \in DOMAIN q /\ SubSeq(q, 1, n)[i] = q[i]
    OBVIOUS
  <2> QED
    BY <2>1 DEF Posted
<1>4. ASSUME NEW m \in ToServer, m.id = 5 => m.to_user = RemoteId(c)
      PROVE  Posted(c, Append(q, m))
  <2>1. \A i \in DOMAIN Append(q, m) :
           (i \in DOMAIN q /\ Append(q, m)[i] = q[i]) \/ Append(q, m)[i] = m
    BY <1>1
  <2> QED
    BY <1>4, <2>1 DEF Posted
<1> QED
  BY <1>2, <1>3, <1>4

(* A process that touches its own outbox alone, and writes to its peer. *)
LEMMA OutboxAddressed ==
  ASSUME BaseTypeOK, Addressed, NEW c \in Client, UNCHANGED relayVars,
         \/ outbox' = outbox
         \/ \E m \in ToServer : Write(c, m) /\ (m.id = 5 => m.to_user = RemoteId(c))
         \/ Die(c)
  PROVE  Addressed'
<1>1. outbox \in [Client -> Seq(ToServer)] /\ Posted(c, outbox[c])
  BY DEF BaseTypeOK, Addressed
<1>2. CASE outbox' = outbox
  BY <1>2 DEF Addressed, relayVars, Posted
<1>3. ASSUME NEW m \in ToServer, Write(c, m), m.id = 5 => m.to_user = RemoteId(c)
      PROVE  Addressed'
  <2>1. /\ outbox'[c] = Append(outbox[c], m)
        /\ \A e \in Client \ {c} : outbox'[e] = outbox[e]
    BY <1>1, <1>3 DEF Write
  <2>2. Posted(c, outbox'[c])
    BY <1>1, <1>3, <2>1, PostedSeq
  <2> QED
    BY <2>1, <2>2 DEF Addressed, relayVars, Posted
<1>4. CASE Die(c)
  <2>1. PICK n \in 0..Len(outbox[c]) : outbox' = [outbox EXCEPT ![c] = SubSeq(@, 1, n)]
    BY <1>4 DEF Die
  <2>2. /\ outbox'[c] = SubSeq(outbox[c], 1, n)
        /\ \A e \in Client \ {c} : outbox'[e] = outbox[e]
    BY <1>1, <2>1
  <2>3. Posted(c, outbox'[c])
    BY <1>1, <2>2, PostedSeq
  <2> QED
    BY <2>2, <2>3 DEF Addressed, relayVars, Posted
<1> QED
  BY <1>2, <1>3, <1>4

LEMMA CommonAddressed ==
  ASSUME BaseTypeOK, Addressed, NEW c \in Client, UNCHANGED relayVars,
         SignIn(c) \/ SendSDP(c) \/ SendSDPReq(c) \/ ServerRecv(c) \/ Exit(c)
  PROVE  Addressed'
<1>1. CASE SignIn(c)
  <2>1. [id |-> 1] \in ToServer /\ [id |-> 1].id # 5
    BY DEF ToServer
  <2> QED
    BY <1>1, <2>1, OutboxAddressed DEF SignIn
<1>2. CASE SendSDP(c)
  <2> DEFINE m == SendMsg(c, "SDPExchange", Head(chans[c].SendCh))
  <2>1. Head(chans[c].SendCh) \in SDP
    BY <1>2, RecvType DEF SendSDP, BaseTypeOK
  <2>2. m \in ToServer /\ m.to_user = RemoteId(c) /\ Write(c, m)
    BY <1>2, <2>1, SendMsgType DEF SendSDP, SendMsg
  <2> QED
    BY <2>2, OutboxAddressed
<1>3. CASE SendSDPReq(c)
  <2> DEFINE m == SendMsg(c, "SDPReq", None)
  <2>1. m \in ToServer /\ m.to_user = RemoteId(c) /\ Write(c, m)
    BY <1>3 DEF SendSDPReq, SendMsg, ToServer, RemoteId, User
  <2> QED
    BY <2>1, OutboxAddressed
<1>4. CASE ServerRecv(c)
  BY <1>4, OutboxAddressed DEF ServerRecv, RecvNotice, RecvSDP, RecvSDPReq, Receive
<1>5. CASE Exit(c)
  BY <1>5, OutboxAddressed DEF Exit
<1> QED
  BY <1>1, <1>2, <1>3, <1>4, <1>5

LEMMA RoverAddressed ==
  ASSUME BaseTypeOK, Addressed, NEW r \in Rover, UNCHANGED relayVars, RoverStep(r)
  PROVE  Addressed'
<1>0. r \in Client
  BY RoverIsClient
<1>1. CASE RoverStart(r)
  BY <1>0, <1>1, OutboxAddressed DEF RoverStart, Boot
<1>2. CASE SignIn(r) \/ SendSDP(r) \/ SendSDPReq(r) \/ ServerRecv(r) \/ Exit(r)
  BY <1>0, <1>2, CommonAddressed
<1>3. CASE RoverRun(r)
  BY <1>0, <1>3, OutboxAddressed DEF RoverRun, RoverSpawn, RoverRunRequest, RoverRunSignal
<1>4. ASSUME NEW s \in DOMAIN sess[r], RoverSession(r, s)
      PROVE  Addressed'
  BY <1>0, <1>4, OutboxAddressed
  DEF RoverSession, RoverListen, RoverPortConflict, RoverFirstPacket, RoverOffer,
      RoverAnswered, RoverEnd, RoverClosed
<1> QED
  BY <1>1, <1>2, <1>3, <1>4 DEF RoverStep

LEMMA ControllerAddressed ==
  ASSUME BaseTypeOK, Addressed, NEW c \in Controller, UNCHANGED relayVars, ControllerStep(c)
  PROVE  Addressed'
<1>0. c \in Client
  BY ControllerIsClient
<1>1. CASE ControllerStart(c)
  BY <1>0, <1>1, OutboxAddressed DEF ControllerStart, Boot
<1>2. CASE SignIn(c) \/ SendSDP(c) \/ SendSDPReq(c) \/ ServerRecv(c) \/ Exit(c)
  BY <1>0, <1>2, CommonAddressed
<1>3. CASE ControllerRun(c)
  BY <1>0, <1>3, OutboxAddressed
  DEF ControllerRun, ControllerSpawn, ControllerRunOffer, ControllerRunSignal, ControllerRunPutBack
<1>4. ASSUME NEW k \in DOMAIN sess[c], ControllerSession(c, k)
      PROVE  Addressed'
  BY <1>0, <1>4, OutboxAddressed
  DEF ControllerSession, ControllerTakeOffer, ControllerAnswer, ControllerTrackStarts,
      ControllerIceGone, ControllerEnd, ControllerTrackPanic
<1> QED
  BY <1>1, <1>2, <1>3, <1>4 DEF ControllerStep

LEMMA TakeAddressed ==
  ASSUME BaseTypeOK, Addressed, NEW c \in Client, NEW id, Take(c, id)
  PROVE  /\ \A e \in Client : Posted(e, outbox'[e])
         /\ id = 5 => Head(outbox[c]).to_user = RemoteId(c)
<1>1. /\ outbox'[c] = Tail(outbox[c]) /\ outbox[c] \in Seq(ToServer)
      /\ outbox[c] # <<>> /\ Head(outbox[c]).id = id
      /\ \A e \in Client \ {c} : outbox'[e] = outbox[e]
  BY DEF Take, BaseTypeOK
<1>2. \A e \in Client : Posted(e, outbox[e])
  BY DEF Addressed
<1>3. Posted(c, Tail(outbox[c])) /\ (id = 5 => Head(outbox[c]).to_user = RemoteId(c))
  BY <1>1, <1>2, PostedSeq
<1> QED
  BY <1>1, <1>2, <1>3

LEMMA ServeAddressed ==
  ASSUME BaseTypeOK, RelayTypeOK, Addressed, NEW c \in Client, Serve(c)
  PROVE  Addressed'
<1>0. pool \in [User -> Client \cup {None}] /\ handling \in [Client -> Sends \cup {None}]
  BY DEF RelayTypeOK
<1>1. CASE Online(c)
  <2>1. \A e \in Client : Posted(e, outbox'[e])
    BY <1>1, TakeAddressed DEF Online
  <2>2. \A u \in User : pool'[u] # None => Id(pool'[u]) = u
    BY <1>0, <1>1 DEF Online, Addressed
  <2>3. handling' = handling
    BY <1>1 DEF Online
  <2> QED
    BY <2>1, <2>2, <2>3 DEF Addressed, Posted
<1>2. CASE SendOffline(c)
  <2>1. \A e \in Client : Posted(e, outbox'[e])
    BY <1>2, TakeAddressed DEF SendOffline
  <2>2. handling' = handling /\ pool' = pool
    BY <1>2 DEF SendOffline
  <2> QED
    BY <2>1, <2>2 DEF Addressed, Posted
<1>3. CASE SendOnline(c)
  <2>1. (\A e \in Client : Posted(e, outbox'[e])) /\ Head(outbox[c]).to_user = RemoteId(c)
    BY <1>3, TakeAddressed DEF SendOnline
  <2>2. \A e \in Client : handling'[e] # None => handling'[e].to_user = RemoteId(e)
    BY <1>0, <1>3, <2>1 DEF SendOnline, Addressed
  <2>3. pool' = pool
    BY <1>3 DEF SendOnline
  <2> QED
    BY <2>1, <2>2, <2>3 DEF Addressed, Posted
<1>4. CASE Forward(c)
  <2>1. \A e \in Client : handling'[e] # None => handling'[e].to_user = RemoteId(e)
    BY <1>0, <1>4 DEF Forward, Addressed
  <2>2. outbox' = outbox /\ pool' = pool
    BY <1>4 DEF Forward
  <2> QED
    BY <2>1, <2>2 DEF Addressed, Posted
<1>5. CASE ConnClosed(c)
  <2>1. \A u \in User : pool'[u] # None => Id(pool'[u]) = u
    BY <1>0, <1>5 DEF ConnClosed, Addressed
  <2>2. outbox' = outbox /\ handling' = handling
    BY <1>5 DEF ConnClosed
  <2> QED
    BY <2>1, <2>2 DEF Addressed, Posted
<1> QED
  BY <1>1, <1>2, <1>3, <1>4, <1>5 DEF Serve

(***************************************************************************)
(* The invariant of the descriptions, along with that of the sessions.     *)
(***************************************************************************)
WholeInv == Inv /\ FlowInv /\ Addressed

LEMMA WholeInit == Init => WholeInv
<1> SUFFICES ASSUME Init PROVE WholeInv
  OBVIOUS
<1>1. Inv
  BY InvInit
<1>2. ASSUME NEW d \in Client
      PROVE  /\ chans[d] = NoChans /\ run[d] = NoRun /\ sess[d] = <<>>
             /\ outbox[d] = <<>> /\ inbox[d] = <<>> /\ handling[d] = None
  BY DEF Init, BaseInit, RelayInit
<1>3. ASSUME NEW d \in Client, NEW p \in Place
      PROVE  Held(At(d, p)) = {} /\ Distinct(At(d, p))
  <2>1. \A q : DOMAIN q = {} => Held(q) = {} /\ Distinct(q)
    BY DEF Held, Distinct
  <2>2. DOMAIN <<>> = {}
    OBVIOUS
  <2>3. /\ At(d, "SendCh") = <<>> /\ At(d, "RemoteSDPCh") = <<>>
        /\ At(d, "handling") = <<>> /\ At(d, "run") = <<None>>
    BY <1>2, AtPlaces DEF NoChans, NoRun
  <2>4. /\ DOMAIN At(d, "outbox") = {} /\ DOMAIN At(d, "inbox") = {}
        /\ DOMAIN At(d, "sess") = {}
    BY <1>2, <2>2, AtPlaces DEF Letters
  <2>5. Held(<<None>>) = {} /\ Distinct(<<None>>)
    <3>1. DOMAIN <<None>> = {1} /\ <<None>>[1] = None
      OBVIOUS
    <3> QED
      BY <3>1 DEF Held, Distinct
  <2> QED
    BY <2>1, <2>2, <2>3, <2>4, <2>5 DEF Place
<1>4. FlowInv
  BY <1>3 DEF FlowInv, Apart, Single, Known, Kinds
<1>5. Addressed
  BY <1>2 DEF Addressed, Posted, Init, RelayInit
<1> QED
  BY <1>1, <1>4, <1>5 DEF WholeInv

LEMMA NextFlows ==
  ASSUME WholeInv, [Next]_vars
  PROVE  Flows /\ Addressed'
<1>0. BaseTypeOK /\ RelayTypeOK /\ FlowInv /\ Addressed
  BY DEF WholeInv, Inv
<1>1. CASE Rovers
  <2>1. PICK r \in Rover : RoverStep(r) /\ UNCHANGED relayVars
    BY <1>1 DEF Rovers
  <2>2. WellFormed(r) /\ UNCHANGED handling
    BY <2>1, RoverIsClient DEF WholeInv, Inv, relayVars
  <2> QED
    BY <1>0, <2>1, <2>2, RoverStepFlows, RoverAddressed
<1>2. CASE Controllers
  <2>1. PICK c \in Controller : ControllerStep(c) /\ UNCHANGED relayVars
    BY <1>2 DEF Controllers
  <2>2. WellFormed(c) /\ HasOffer(c) /\ UNCHANGED handling
    BY <2>1, ControllerIsClient DEF WholeInv, Inv, relayVars
  <2> QED
    BY <1>0, <2>1, <2>2, ControllerStepFlows, ControllerAddressed
<1>3. CASE Relay
  BY <1>0, <1>3, ServeFlows, ServeAddressed DEF Relay
<1>4. CASE UNCHANGED vars
  <2>1. UNCHANGED <<proc, chans, outbox, inbox, run, sess, handling, pool>>
    BY <1>4 DEF vars, baseVars, relayVars
  <2>2. \A f \in Client : \A r \in Place : Thins(At(f, r), At(f, r)')
    BY <2>1, ThinsBasic, PlaceStays DEF Place
  <2>3. Addressed'
    BY <1>0, <2>1 DEF Addressed, Posted
  <2> QED
    BY <2>1, <2>2, <2>3, OlderSame DEF Flows, BringsNothing
<1> QED
  BY <1>1, <1>2, <1>3, <1>4 DEF Next

LEMMA WholeNext == WholeInv /\ [Next]_vars => WholeInv'
<1> SUFFICES ASSUME WholeInv, [Next]_vars PROVE WholeInv'
  OBVIOUS
<1>1. Flows /\ Addressed'
  BY NextFlows
<1>2. Inv'
  BY InvNext DEF WholeInv
<1>3. FlowInv'
  BY <1>1, FlowsKeep DEF WholeInv, Inv
<1> QED
  BY <1>1, <1>2, <1>3 DEF WholeInv

LEMMA WholeHolds == Spec => []WholeInv
BY WholeInit, WholeNext, PTL DEF Spec

(* A session description exists once, from the session that makes it,      *)
(* through Send, the relay, ServerRecv and the hands of Run to the one     *)
(* session that applies it (rover/service.go:143-147, base/service.go:75,  *)
(* 152, server/service.go:103, controller/service.go:137, 403-405).        *)
THEOREM OneCopyHolds == Spec => []OneCopy
<1>1. WholeInv => OneCopy
  <2> SUFFICES ASSUME Apart, Single, NEW l \in SDPSpots, NEW m \in SDPSpots,
                      SDPsAt(l[1])[l[2]][l[3]] = SDPsAt(m[1])[m[2]][m[3]]
               PROVE  l = m
    BY DEF WholeInv, FlowInv, OneCopy
  <2>1. \A k \in SDPSpots : \E d \in Client, p \in Place : \E i \in DOMAIN At(d, p) :
          k = <<d, p, i>> /\ At(d, p)[i] # None
    BY DEF SDPSpots, At
  <2>2. PICK d \in Client, p \in Place : \E i \in DOMAIN At(d, p) :
          l = <<d, p, i>> /\ At(d, p)[i] # None
    BY <2>1
  <2>3. PICK i \in DOMAIN At(d, p) : l = <<d, p, i>> /\ At(d, p)[i] # None
    BY <2>2
  <2>4. PICK e \in Client, q \in Place : \E j \in DOMAIN At(e, q) :
          m = <<e, q, j>> /\ At(e, q)[j] # None
    BY <2>1
  <2>5. PICK j \in DOMAIN At(e, q) : m = <<e, q, j>> /\ At(e, q)[j] # None
    BY <2>4
  <2>6. At(d, p)[i] = At(e, q)[j]
    BY <2>3, <2>5 DEF At
  <2>7. At(d, p)[i] \in Held(At(d, p)) /\ At(e, q)[j] \in Held(At(e, q))
    BY <2>3, <2>5 DEF Held
  <2>8. d = e /\ p = q
    BY <2>6, <2>7 DEF Apart
  <2>9. i = j
    BY <2>3, <2>5, <2>6, <2>8 DEF Single, Distinct
  <2> QED
    BY <2>3, <2>5, <2>8, <2>9
<1> QED
  BY <1>1, WholeHolds, PTL

(***************************************************************************)
(* The sessions of a rover that come one after the other: with webrtc(),   *)
(* and a sleep that outlasts the end of a session, a session has been      *)
(* closed when the next one is started.                                    *)
(***************************************************************************)
Closed(r) == \A s \in DOMAIN sess[r] : s < Len(sess[r]) => sess[r][s].stage = "closed"

Unsignalled(r) == run[r].pc \in {"select", "signal"} => chans[r].WebrtcEndSignal = <<>>

(* What session s of r has been given is no later than s. *)
Timely(r, s, x) == x # None /\ x.re[1] = r => x.re[2] <= s

Turn(r) ==
  /\ Closed(r)
  /\ Unsignalled(r)
  /\ \A s \in DOMAIN sess[r] : Timely(r, s, sess[r][s].sdp)

InTurn == SleepSuffices => \A r \in Rover \ GstreamerCli : Turn(r)

LEMMA TurnSame ==
  ASSUME NEW r \in Rover, Turn(r), Same(r)
  PROVE  Turn(r)'
BY DEF Turn, Closed, Unsignalled, Timely, Same

(* A session that has not been closed is the last. *)
LEMMA TurnStage ==
  ASSUME BaseTypeOK, NEW r \in Rover, Turn(r), NEW s \in DOMAIN sess[r],
         sess[r][s].stage # "closed", NEW e, Timely(r, s, e.sdp),
         sess' = [sess EXCEPT ![r] = [@ EXCEPT ![s] = e]], run' = run, Unsignalled(r)'
  PROVE  Turn(r)'
<1>1. r \in Client /\ sess[r] \in Seq(SessionState) /\ sess'[r] = [sess[r] EXCEPT ![s] = e]
  BY RoverIsClient DEF BaseTypeOK
<1>2. /\ Len(sess[r]) \in Nat /\ DOMAIN sess[r] = 1..Len(sess[r])
      /\ DOMAIN sess'[r] = DOMAIN sess[r] /\ Len(sess'[r]) = Len(sess[r])
      /\ sess'[r][s] = e
      /\ \A i \in DOMAIN sess[r] : i # s => sess'[r][i] = sess[r][i]
  BY <1>1
<1>3. ~(s < Len(sess[r]))
  BY DEF Turn, Closed
<1>4. Closed(r)'
  BY <1>2, <1>3 DEF Turn, Closed
<1>5. \A i \in DOMAIN sess'[r] : Timely(r, i, sess'[r][i].sdp)
  BY <1>2 DEF Turn
<1> QED
  BY <1>4, <1>5 DEF Turn, Timely

LEMMA TurnGoTo ==
  ASSUME BaseTypeOK, NEW r \in Rover, Turn(r), NEW s \in DOMAIN sess[r], NEW stage,
         sess[r][s].stage # "closed", GoTo(r, s, stage), run' = run, Unsignalled(r)'
  PROVE  Turn(r)'
<1> DEFINE e == [sess[r][s] EXCEPT !.stage = stage]
<1>1. sess[r][s] \in SessionState
  BY RoverIsClient DEF BaseTypeOK
<1>2. e.sdp = sess[r][s].sdp
  BY <1>1 DEF SessionState
<1>3. sess' = [sess EXCEPT ![r] = [@ EXCEPT ![s] = e]]
  BY DEF GoTo
<1>4. Timely(r, s, e.sdp)
  BY <1>2 DEF Turn
<1> HIDE DEF e
<1> QED
  BY <1>3, <1>4, TurnStage

(* By Balanced none is live when Run starts one and no signal is unread. *)
LEMMA TurnSpawn ==
  ASSUME SleepSuffices, BaseTypeOK, NEW r \in Rover \ GstreamerCli, Turn(r), Balanced(r),
         RoverSpawn(r)
  PROVE  Turn(r)'
<1>1. /\ r \in Client /\ run[r].pc = "spawn" /\ chans' = chans
      /\ sess' = [sess EXCEPT ![r] = Append(@, NewSession("offering"))]
      /\ sess[r] \in Seq(SessionState) /\ Len(sess[r]) \in Nat
      /\ chans[r].WebrtcEndSignal # <<>> => LiveSessions(r) = {}
      /\ \A s \in DOMAIN sess[r] : ~StageIs(r, s, "closing")
  BY RoverIsClient DEF RoverSpawn, BaseTypeOK
<1>2. Cardinality(LiveSessions(r)) = Len(chans[r].WebrtcEndSignal)
  <2>1. RunIsSpawning(r)
    BY <1>1 DEF RunIsSpawning
  <2>2. chans[r].WebrtcEndSignal \in Chan({TRUE})
    BY <1>1 DEF BaseTypeOK, Chans
  <2>3. Len(chans[r].WebrtcEndSignal) \in Nat
    BY <2>2 DEF Chan
  <2> QED
    BY <2>1, <2>3 DEF Balanced
<1>3. LiveSessions(r) = {} /\ chans[r].WebrtcEndSignal = <<>>
  <2>1. IsFiniteSet(LiveSessions(r))
    BY <1>1, LiveFinite DEF BaseTypeOK
  <2>2. CASE chans[r].WebrtcEndSignal = <<>>
    BY <1>2, <2>1, <2>2, FS_EmptySet
  <2>3. CASE chans[r].WebrtcEndSignal # <<>>
    <3>1. Len(chans[r].WebrtcEndSignal) = 0
      BY <1>1, <1>2, <2>3, FS_EmptySet
    <3>2. chans[r].WebrtcEndSignal \in Chan({TRUE})
      BY <1>1 DEF BaseTypeOK, Chans
    <3> QED
      BY <2>3, <3>1, <3>2 DEF Chan
  <2> QED
    BY <2>2, <2>3
<1>4. \A s \in DOMAIN sess[r] : sess[r][s].stage = "closed"
  BY <1>1, <1>3 DEF LiveSessions, StageIs
<1>5. sess'[r] = Append(sess[r], NewSession("offering"))
  BY <1>1 DEF BaseTypeOK
<1>6. /\ Len(sess'[r]) = Len(sess[r]) + 1
      /\ \A s \in DOMAIN sess'[r] :
           \/ s \in DOMAIN sess[r] /\ sess'[r][s] = sess[r][s]
           \/ s = Len(sess[r]) + 1 /\ sess'[r][s] = NewSession("offering")
  BY <1>1, <1>5
<1>7. Closed(r)'
  BY <1>1, <1>4, <1>6 DEF Closed
<1>8. Unsignalled(r)'
  BY <1>1, <1>3 DEF Unsignalled
<1>9. \A s \in DOMAIN sess'[r] : Timely(r, s, sess'[r][s].sdp)
  <2>1. NewSession("offering").sdp = None
    BY DEF NewSession
  <2> QED
    BY <1>6, <2>1 DEF Turn, Timely
<1> QED
  BY <1>7, <1>8, <1>9 DEF Turn, Timely

(* What the channel holds is for a session that has made its offer. *)
LEMMA TurnAnswered ==
  ASSUME BaseTypeOK, RelayTypeOK, FlowInv, NEW r \in Rover, WellFormed(r), Turn(r),
         NEW s \in DOMAIN sess[r], RoverAnswered(r, s)
  PROVE  Turn(r)'
<1> DEFINE x == Head(chans[r].RemoteSDPCh)
           e == [sess[r][s] EXCEPT !.stage = "streaming", !.sdp = x]
<1>1. r \in Client /\ sess[r][s] \in SessionState /\ sess[r] \in Seq(SessionState)
  BY RoverIsClient DEF BaseTypeOK
<1>2. e.sdp = x
  BY <1>1 DEF SessionState
<1>3. sess' = [sess EXCEPT ![r] = [@ EXCEPT ![s] = e]] /\ sess[r][s].stage = "waiting"
  BY DEF RoverAnswered, GoToWith, StageIs
<1>4. x \in Held(At(r, "RemoteSDPCh")) \cup {None}
  BY <1>1, ChanMoves DEF RoverAnswered
<1>5. Unsignalled(r)' /\ run' = run
  <2>1. chans'[r].WebrtcEndSignal = chans[r].WebrtcEndSignal /\ run' = run
    BY <1>1, RecvType DEF RoverAnswered, BaseTypeOK
  <2> QED
    BY <2>1 DEF Turn, Unsignalled
<1> HIDE DEF x
<1>6. Timely(r, s, x)
  <2> SUFFICES ASSUME x # None, x.re[1] = r PROVE x.re[2] <= s
    BY DEF Timely
  <2>1. "RemoteSDPCh" \in Place /\ ~OfferPlace(r, "RemoteSDPCh")
    BY DEF Place, OfferPlace
  <2>2. x.re \in Session /\ Existing(x.re)
    BY <1>1, <1>4, <2>1 DEF FlowInv, Kinds, Right
  <2>3. proc[r] = "up"
    BY DEF WellFormed
  <2>4. x.re[2] \in DOMAIN sess[r]
    BY <2>2, <2>3 DEF Existing
  <2>5. ~(s < Len(sess[r]))
    BY <1>3 DEF Turn, Closed
  <2>6. DOMAIN sess[r] = 1..Len(sess[r]) /\ Len(sess[r]) \in Nat
    BY <1>1
  <2> QED
    BY <2>4, <2>5, <2>6
<1>7. Timely(r, s, e.sdp)
  BY <1>2, <1>6
<1> HIDE DEF e
<1> QED
  BY <1>3, <1>5, <1>7, TurnStage

LEMMA RoverTurn ==
  ASSUME SleepSuffices, BaseTypeOK, RelayTypeOK, FlowInv,
         NEW r \in Rover \ GstreamerCli, WellFormed(r), Balanced(r), Turn(r), RoverStep(r)
  PROVE  Turn(r)'
<1>0. r \in Client /\ chans \in [Client -> Chans]
  BY RoverIsClient DEF BaseTypeOK
<1>d. ASSUME Die(r)
      PROVE  Turn(r)'
  <2>1. sess'[r] = <<>> /\ run'[r].pc = "off"
    BY <1>0, <1>d DEF Die, BaseTypeOK, NoRun
  <2> QED
    BY <2>1 DEF Turn, Closed, Unsignalled
<1>1. CASE RoverStart(r)
  <2>1. run'[r].pc = "spawn" /\ sess' = sess
    BY <1>0, <1>1 DEF RoverStart, Boot, BaseTypeOK
  <2> QED
    BY <2>1 DEF Turn, Closed, Unsignalled, Timely
<1>2. CASE Exit(r)
  BY <1>2, <1>d DEF Exit
<1>3. CASE SignIn(r) \/ SendSDP(r) \/ SendSDPReq(r) \/ ServerRecv(r)
  <2>1. Quiet
    BY <1>0, <1>3, SignInStep, SendStep, ServerRecvStep
  <2> QED
    BY <1>0, <2>1, QuietSame, TurnSame
<1>4. CASE RoverSpawn(r)
  BY <1>4, TurnSpawn
<1>5. CASE RoverRunRequest(r)
  <2>1. /\ chans'[r].WebrtcEndSignal = chans[r].WebrtcEndSignal /\ sess' = sess
        /\ run[r].pc = "select"
    BY <1>0, <1>5, RecvType DEF RoverRunRequest
  <2> QED
    BY <2>1 DEF Turn, Closed, Unsignalled, Timely
<1>6. CASE RoverRunSignal(r)
  <2>1. run'[r].pc = "spawn" /\ sess' = sess
    BY <1>0, <1>6 DEF RoverRunSignal, BaseTypeOK
  <2> QED
    BY <2>1 DEF Turn, Closed, Unsignalled, Timely
<1>7. ASSUME NEW s \in DOMAIN sess[r], RoverSession(r, s)
      PROVE  Turn(r)'
  <2>1. CASE RoverListen(r, s) \/ RoverFirstPacket(r, s)
    <3>1. Unsignalled(r)' /\ run' = run /\ sess[r][s].stage # "closed"
      BY <2>1 DEF RoverListen, RoverFirstPacket, StageIs, Turn, Unsignalled
    <3> QED
      BY <2>1, <3>1, TurnGoTo DEF RoverListen, RoverFirstPacket
  <2>2. CASE RoverPortConflict(r, s)
    BY <1>d, <2>2 DEF RoverPortConflict
  <2>3. CASE RoverOffer(r, s)
    <3>1. chans'[r].WebrtcEndSignal = chans[r].WebrtcEndSignal
      BY <1>0, <2>3 DEF RoverOffer, ChanSend, Chans
    <3>2. Unsignalled(r)' /\ run' = run /\ sess[r][s].stage # "closed"
      BY <2>3, <3>1 DEF RoverOffer, StageIs, Turn, Unsignalled
    <3> QED
      BY <2>3, <3>2, TurnGoTo DEF RoverOffer
  <2>4. CASE RoverAnswered(r, s)
    BY <2>4, TurnAnswered
  <2>5. CASE RoverEnd(r, s)
    <3>1. chans[r].WebrtcEndSignal # <<>>
      BY <2>5 DEF RoverEnd, ChanRecv
    <3>2. Unsignalled(r)' /\ run' = run /\ sess[r][s].stage # "closed"
      BY <2>5, <3>1 DEF RoverEnd, StageIs, Turn, Unsignalled
    <3> QED
      BY <2>5, <3>2, TurnGoTo DEF RoverEnd
  <2>6. CASE RoverClosed(r, s)
    <3>1. Unsignalled(r)' /\ run' = run /\ sess[r][s].stage # "closed"
      BY <2>6 DEF RoverClosed, StageIs, Turn, Unsignalled
    <3> QED
      BY <2>6, <3>1, TurnGoTo DEF RoverClosed
  <2> QED
    BY <1>7, <2>1, <2>2, <2>3, <2>4, <2>5, <2>6 DEF RoverSession
<1> QED
  BY <1>1, <1>2, <1>3, <1>4, <1>5, <1>6, <1>7 DEF RoverStep, RoverRun

LEMMA TurnInit == Init => InTurn
<1> SUFFICES ASSUME Init, NEW r \in Rover \ GstreamerCli PROVE Turn(r)
  BY DEF InTurn
<1>1. sess[r] = <<>> /\ run[r].pc = "off"
  BY RoverIsClient DEF Init, BaseInit, NoRun
<1> QED
  BY <1>1 DEF Turn, Closed, Unsignalled

LEMMA TurnNext == WholeInv /\ InTurn /\ [Next]_vars => InTurn'
<1> SUFFICES ASSUME WholeInv, InTurn, [Next]_vars, SleepSuffices,
                    NEW r \in Rover \ GstreamerCli
             PROVE  Turn(r)'
  BY DEF InTurn
<1>0. /\ BaseTypeOK /\ RelayTypeOK /\ FlowInv /\ Turn(r)
      /\ r \in Client /\ WellFormed(r) /\ Balanced(r)
  BY RoverIsClient DEF WholeInv, Inv, InTurn
<1>1. CASE Rovers
  <2>1. PICK q \in Rover : RoverStep(q) /\ UNCHANGED relayVars
    BY <1>1 DEF Rovers
  <2>2. CASE q = r
    BY <1>0, <2>1, <2>2, RoverTurn
  <2>3. CASE q # r
    <3>1. Step(q)
      BY <2>1, RoverIsClient, RoverStepStep DEF WholeInv, Inv
    <3> QED
      BY <1>0, <2>3, <3>1, TurnSame DEF Step
  <2> QED
    BY <2>2, <2>3
<1>2. CASE Controllers
  <2>1. PICK c \in Controller : ControllerStep(c) /\ UNCHANGED relayVars
    BY <1>2 DEF Controllers
  <2>2. Step(c) /\ c # r
    BY <2>1, ControllerIsClient, ControllerStepStep, BaseAssumption DEF WholeInv, Inv
  <2> QED
    BY <1>0, <2>2, TurnSame DEF Step
<1>3. CASE Relay
  <2>1. Quiet
    BY <1>0, <1>3, ServeType DEF Relay
  <2> QED
    BY <1>0, <2>1, QuietSame, TurnSame
<1>4. CASE UNCHANGED vars
  <2>1. Same(r)
    BY <1>4 DEF vars, baseVars, Same
  <2> QED
    BY <1>0, <2>1, TurnSame
<1> QED
  BY <1>1, <1>2, <1>3, <1>4 DEF Next

LEMMA TurnHolds == Spec => []InTurn
BY TurnInit, TurnNext, WholeHolds, PTL DEF Spec

(* With webrtc() and a sleep that outlasts the end of a session,           *)
(* a rover's session is misled by the past only: the answer it was given   *)
(* is its own, or for one that Run had ended before, of this process or of *)
(* an earlier one (rover/service.go:147, 378-382).                         *)
THEOREM MisledByThePastHolds ==
  Spec => [](SleepSuffices /\ GstreamerCli \cap Rover = {} => MisledByThePast)
<1>1. WholeInv /\ InTurn
        => (SleepSuffices /\ GstreamerCli \cap Rover = {} => MisledByThePast)
  <2> SUFFICES ASSUME WholeInv, NEW r \in Rover, Turn(r), NEW s \in DOMAIN sess[r],
                      sess[r][s].sdp # None, sess[r][s].sdp.re # <<r, s>>,
                      sess[r][s].sdp.re[1] = r
               PROVE  /\ sess[r][s].sdp.re[2] < s
                      /\ sess[r][sess[r][s].sdp.re[2]].stage = "closed"
    BY DEF InTurn, MisledByThePast
  <2> DEFINE x == sess[r][s].sdp
  <2>1. r \in Client /\ sess[r] \in Seq(SessionState)
    BY RoverIsClient DEF WholeInv, Inv, BaseTypeOK
  <2>2. At(r, "sess") = [i \in DOMAIN sess[r] |-> sess[r][i].sdp]
    BY AtPlaces
  <2>3. x \in Held(At(r, "sess")) /\ "sess" \in Place /\ ~OfferPlace(r, "sess")
    BY <2>2 DEF Held, Place, OfferPlace
  <2>4. x.re \in Session
    BY <2>1, <2>3 DEF WholeInv, FlowInv, Kinds, Right
  <2>5. x.re[2] <= s
    BY DEF Turn, Timely
  <2>6. x.re = <<x.re[1], x.re[2]>> /\ x.re[2] \in Nat \ {0}
    BY <2>4 DEF Session
  <2>7. x.re[2] # s
    BY <2>6
  <2>8. s \in 1..Len(sess[r]) /\ Len(sess[r]) \in Nat /\ DOMAIN sess[r] = 1..Len(sess[r])
    BY <2>1
  <2> HIDE DEF x
  <2>9. x.re[2] < s /\ x.re[2] \in DOMAIN sess[r] /\ x.re[2] < Len(sess[r])
    BY <2>5, <2>6, <2>7, <2>8
  <2>10. x.re[2] < s /\ sess[r][x.re[2]].stage = "closed"
    BY <2>9 DEF Turn, Closed
  <2> QED
    BY <2>10 DEF x
<1> QED
  BY <1>1, WholeHolds, TurnHolds, PTL

(***************************************************************************)
(* The requests for a session: what a queue holds of them, and what its    *)
(* operations do to that.                                                  *)
(***************************************************************************)
One(m) == IF IsReq(m) THEN 1 ELSE 0

LEMMA OneNat == \A m : One(m) \in {0, 1}
BY DEF One

LEMMA ReqsNat ==
  ASSUME NEW S, NEW q \in Seq(S)
  PROVE  /\ ReqsIn(q) \in Nat
         /\ IsFiniteSet({i \in DOMAIN q : IsReq(q[i])})
<1>1. DOMAIN q = 1..Len(q) /\ Len(q) \in Nat
  OBVIOUS
<1>2. IsFiniteSet(1..Len(q))
  BY <1>1, FS_Interval
<1>3. IsFiniteSet({i \in DOMAIN q : IsReq(q[i])})
  BY <1>1, <1>2, FS_Subset
<1> QED
  BY <1>3, FS_CardinalityType DEF ReqsIn

LEMMA ReqsTail ==
  ASSUME NEW S, NEW q \in Seq(S), q # <<>>
  PROVE  ReqsIn(Tail(q)) + One(Head(q)) <= ReqsIn(q)
<1> DEFINE t == Tail(q)
           A == {i \in DOMAIN q : IsReq(q[i])}
           B == {i \in DOMAIN t : IsReq(t[i])}
           f == [i \in B |-> i + 1]
<1>1. /\ Len(q) \in Nat \ {0} /\ DOMAIN q = 1..Len(q) /\ DOMAIN t = 1..(Len(q) - 1)
      /\ \A i \in DOMAIN t : i + 1 \in DOMAIN q /\ t[i] = q[i + 1] /\ i \in Nat \ {0}
      /\ Head(q) = q[1] /\ 1 \in DOMAIN q
  OBVIOUS
<1>2. IsFiniteSet(A) /\ ReqsIn(q) = Cardinality(A)
  BY ReqsNat DEF ReqsIn
<1>3. ReqsIn(t) = Cardinality(B)
  BY DEF ReqsIn
<1> HIDE DEF t
<1>4. f \in [B -> A \ {1}]
  BY <1>1
<1>5. f \in Injection(B, A \ {1})
  BY <1>1, <1>4 DEF Injection, IsInjective
<1>6. IsFiniteSet(A \ {1}) /\ Cardinality(A \ {1}) = IF 1 \in A THEN Cardinality(A) - 1 ELSE Cardinality(A)
  BY <1>2, FS_RemoveElement
<1>7. Cardinality(B) <= Cardinality(A \ {1}) /\ IsFiniteSet(B)
  BY <1>5, <1>6, FS_Injection
<1>8. 1 \in A <=> IsReq(Head(q))
  BY <1>1
<1>9. Cardinality(A) \in Nat /\ Cardinality(B) \in Nat
  BY <1>2, <1>7, FS_CardinalityType
<1> HIDE DEF A, B
<1> QED
  BY <1>2, <1>3, <1>6, <1>7, <1>8, <1>9 DEF One, t

LEMMA ReqsAppend ==
  ASSUME NEW S, NEW q \in Seq(S), NEW m
  PROVE  ReqsIn(Append(q, m)) <= ReqsIn(q) + One(m)
<1> DEFINE t == Append(q, m)
           n == Len(q) + 1
           A == {i \in DOMAIN q : IsReq(q[i])}
           B == {i \in DOMAIN t : IsReq(t[i])}
<1>1. /\ n \in Nat /\ DOMAIN q = 1..(n - 1) /\ DOMAIN t = 1..n
      /\ \A i \in DOMAIN q : t[i] = q[i]
      /\ t[n] = m
  OBVIOUS
<1>2. IsFiniteSet(A) /\ ReqsIn(q) = Cardinality(A) /\ ReqsIn(t) = Cardinality(B)
  BY ReqsNat DEF ReqsIn
<1> HIDE DEF t, n
<1>3. \A i \in DOMAIN t : i \in DOMAIN q \/ i = n
  BY <1>1
<1>4. CASE IsReq(m)
  <2>1. B \subseteq A \cup {n}
    BY <1>1, <1>3
  <2>2. IsFiniteSet(A \cup {n}) /\ Cardinality(A \cup {n}) <= Cardinality(A) + 1
    <3>1. Cardinality(A) \in Nat
      BY <1>2, FS_CardinalityType
    <3>2. /\ IsFiniteSet(A \cup {n})
          /\ Cardinality(A \cup {n}) = IF n \in A THEN Cardinality(A) ELSE Cardinality(A) + 1
      BY <1>2, FS_AddElement
    <3> QED
      BY <3>1, <3>2
  <2>3. IsFiniteSet(B) /\ Cardinality(B) <= Cardinality(A \cup {n})
    BY <2>1, <2>2, FS_Subset
  <2>4. Cardinality(A) \in Nat /\ Cardinality(B) \in Nat /\ Cardinality(A \cup {n}) \in Nat
    BY <1>2, <2>2, <2>3, FS_CardinalityType
  <2> HIDE DEF A, B
  <2> QED
    BY <1>2, <1>4, <2>2, <2>3, <2>4 DEF One, t
<1>5. CASE ~IsReq(m)
  <2>1. B \subseteq A
    BY <1>1, <1>3, <1>5
  <2>2. IsFiniteSet(B) /\ Cardinality(B) <= Cardinality(A)
    BY <1>2, <2>1, FS_Subset
  <2>3. Cardinality(A) \in Nat /\ Cardinality(B) \in Nat
    BY <1>2, <2>2, FS_CardinalityType
  <2> HIDE DEF A, B
  <2> QED
    BY <1>2, <1>5, <2>2, <2>3 DEF One, t
<1> QED
  BY <1>4, <1>5

LEMMA ReqsCut ==
  ASSUME NEW S, NEW q \in Seq(S), NEW n \in 0..Len(q)
  PROVE  ReqsIn(SubSeq(q, 1, n)) <= ReqsIn(q)
<1> DEFINE t == SubSeq(q, 1, n)
<1>1. DOMAIN t \subseteq DOMAIN q /\ \A i \in DOMAIN t : t[i] = q[i]
  OBVIOUS
<1> HIDE DEF t
<1>2. {i \in DOMAIN t : IsReq(t[i])} \subseteq {i \in DOMAIN q : IsReq(q[i])}
  BY <1>1
<1> QED
  BY <1>2, ReqsNat, FS_Subset DEF ReqsIn, t

LEMMA ReqsNone == ReqsIn(<<>>) = 0
<1>1. {i \in DOMAIN <<>> : IsReq(<<>>[i])} = {}
  OBVIOUS
<1> QED
  BY <1>1, FS_EmptySet DEF ReqsIn

(***************************************************************************)
(* The requests of one process, part by part.                              *)
(***************************************************************************)
Asked(d) == Len(chans[d].SDPReqCh)
Sent(d) == ReqsIn(outbox[d])
Coming(d) == ReqsIn(inbox[d])
InHand(d) == IF handling[d] # None THEN One(handling[d]) ELSE 0
Taken(d) == IF d \in Rover THEN Renegotiations(d) ELSE 0

(* Run is in its select only with a session to give up. *)
Serving(d) == run[d].pc = "select" => sess[d] # <<>>

LEMMA RequestsParts ==
  ASSUME BaseTypeOK, RelayTypeOK, NEW d \in Client, Serving(d)
  PROVE  /\ Requests(d) = Asked(d) + Sent(d) + Coming(d) + InHand(d) + Taken(d)
         /\ Asked(d) \in Nat /\ Sent(d) \in Nat /\ Coming(d) \in Nat
         /\ InHand(d) \in Nat /\ Taken(d) \in Nat /\ Requests(d) \in Nat
<1>1. /\ chans[d].SDPReqCh \in Seq({TRUE}) /\ outbox[d] \in Seq(ToServer)
      /\ inbox[d] \in Seq(FromServer) /\ sess[d] \in Seq(SessionState)
  BY DEF BaseTypeOK, Chans, Chan
<1>2. Asked(d) \in Nat /\ Sent(d) \in Nat /\ Coming(d) \in Nat /\ InHand(d) \in Nat
  <2>1. Asked(d) \in Nat
    BY <1>1 DEF Asked
  <2>2. Sent(d) \in Nat /\ Coming(d) \in Nat
    BY <1>1, ReqsNat DEF Sent, Coming
  <2>3. InHand(d) \in Nat
    BY OneNat DEF InHand
  <2> QED
    BY <2>1, <2>2, <2>3
<1>3. Taken(d) \in Nat
  <2>1. Len(sess[d]) \in Nat /\ (sess[d] # <<>> => Len(sess[d]) > 0)
    BY <1>1
  <2> QED
    BY <2>1 DEF Taken, Renegotiations
<1>4. Requests(d) = Asked(d) + Sent(d) + Coming(d) + InHand(d) + Taken(d)
  <2>1. ReqsAt(d) = Asked(d) + Sent(d) + Coming(d) + InHand(d)
    BY <1>2 DEF ReqsAt, Asked, Sent, Coming, InHand, One
  <2> QED
    BY <2>1 DEF Requests, Taken
<1> QED
  BY <1>2, <1>3, <1>4

LEMMA RequestsPartsNext ==
  ASSUME BaseTypeOK', RelayTypeOK', NEW d \in Client, Serving(d)'
  PROVE  /\ Requests(d)' = Asked(d)' + Sent(d)' + Coming(d)' + InHand(d)' + Taken(d)'
         /\ Asked(d)' \in Nat /\ Sent(d)' \in Nat /\ Coming(d)' \in Nat
         /\ InHand(d)' \in Nat /\ Taken(d)' \in Nat /\ Requests(d)' \in Nat
<1>1. /\ chans'[d].SDPReqCh \in Seq({TRUE}) /\ outbox'[d] \in Seq(ToServer)
      /\ inbox'[d] \in Seq(FromServer) /\ sess'[d] \in Seq(SessionState)
  BY DEF BaseTypeOK, Chans, Chan
<1>2. Asked(d)' \in Nat /\ Sent(d)' \in Nat /\ Coming(d)' \in Nat /\ InHand(d)' \in Nat
  <2>1. Asked(d)' \in Nat
    BY <1>1 DEF Asked
  <2>2. Sent(d)' \in Nat /\ Coming(d)' \in Nat
    BY <1>1, ReqsNat DEF Sent, Coming
  <2>3. InHand(d)' \in Nat
    BY OneNat DEF InHand
  <2> QED
    BY <2>1, <2>2, <2>3
<1>3. Taken(d)' \in Nat
  <2>1. Len(sess'[d]) \in Nat /\ (sess'[d] # <<>> => Len(sess'[d]) > 0)
    BY <1>1
  <2> QED
    BY <2>1 DEF Taken, Renegotiations, Serving
<1>4. Requests(d)' = Asked(d)' + Sent(d)' + Coming(d)' + InHand(d)' + Taken(d)'
  <2>1. ReqsAt(d)' = Asked(d)' + Sent(d)' + Coming(d)' + InHand(d)'
    BY <1>2 DEF ReqsAt, Asked, Sent, Coming, InHand, One
  <2> QED
    BY <2>1 DEF Requests, Taken
<1> QED
  BY <1>2, <1>3, <1>4

(***************************************************************************)
(* What a step does to the requests of every process.                      *)
(***************************************************************************)
Tickets == UNION {{d} \X (1..Requests(d)) : d \in Client}

Settles == Started' = Started /\ \A d \in Client : Requests(d)' <= Requests(d)

Passes(a, b) ==
  /\ Started' = Started
  /\ Requests(a)' < Requests(a)
  /\ Requests(b)' <= Requests(b) + 1
  /\ \A d \in Client \ {a, b} : Requests(d)' <= Requests(d)

Pays(c) ==
  /\ c \notin Started /\ Started' = Started \cup {c}
  /\ Requests(c)' <= Requests(c) + 1
  /\ \A d \in Client \ {c} : Requests(d)' <= Requests(d)

Paid ==
  /\ IsFiniteSet(Tickets) /\ IsFiniteSet(Started)
  /\ Cardinality(Tickets) <= Cardinality(Started)

LEMMA PaidKept ==
  ASSUME Paid, \A d \in Client : Requests(d) \in Nat /\ Requests(d)' \in Nat,
         \/ Settles
         \/ \E a, b \in Client : a # b /\ Passes(a, b)
         \/ \E c \in Client : Pays(c)
  PROVE  Paid'
<1>1. \A x : x \in Tickets <=> \E d \in Client : \E n \in 1..Requests(d) : x = <<d, n>>
  BY DEF Tickets
<1>2. \A x : x \in Tickets' <=> \E d \in Client : \E n \in 1..Requests(d)' : x = <<d, n>>
  BY DEF Tickets
<1>3. /\ IsFiniteSet(Tickets) /\ IsFiniteSet(Started)
      /\ Cardinality(Tickets) \in Nat /\ Cardinality(Started) \in Nat
      /\ Cardinality(Tickets) <= Cardinality(Started)
  BY FS_CardinalityType DEF Paid
<1>4. CASE Settles
  <2>1. Tickets' \subseteq Tickets
    <3> SUFFICES ASSUME NEW d \in Client, NEW n \in 1..Requests(d)' PROVE <<d, n>> \in Tickets
      BY <1>2
    <3>1. n \in 1..Requests(d)
      BY <1>4 DEF Settles
    <3> QED
      BY <1>1, <3>1
  <2>2. IsFiniteSet(Tickets') /\ Cardinality(Tickets') <= Cardinality(Tickets)
    BY <1>3, <2>1, FS_Subset
  <2>3. Cardinality(Tickets') \in Nat
    BY <2>2, FS_CardinalityType
  <2> QED
    BY <1>3, <1>4, <2>2, <2>3 DEF Paid, Settles
<1>5. ASSUME NEW a \in Client, NEW b \in Client, a # b, Passes(a, b)
      PROVE  Paid'
  <2> DEFINE x == <<a, Requests(a)>>
             y == <<b, Requests(b) + 1>>
             T == Tickets \ {x}
  <2>1. x \in Tickets
    <3>1. Requests(a) \in 1..Requests(a)
      BY <1>5 DEF Passes
    <3> QED
      BY <1>1, <3>1
  <2>2. Tickets' \subseteq T \cup {y}
    <3> SUFFICES ASSUME NEW d \in Client, NEW n \in 1..Requests(d)', <<d, n>> # y
                 PROVE  <<d, n>> \in Tickets /\ <<d, n>> # x
      BY <1>2
    <3>1. n \in 1..Requests(d)
      <4>1. CASE d = b
        <5>1. n # Requests(b) + 1
          BY <4>1
        <5> QED
          BY <1>5, <4>1, <5>1 DEF Passes
      <4>2. CASE d # b
        BY <1>5, <4>2 DEF Passes
      <4> QED
        BY <4>1, <4>2
    <3>2. d = a => n # Requests(a)
      BY <1>5 DEF Passes
    <3>3. <<d, n>> # x
      BY <3>2
    <3> QED
      BY <1>1, <3>1, <3>3
  <2>3. IsFiniteSet(T) /\ Cardinality(T) = Cardinality(Tickets) - 1
    BY <1>3, <2>1, FS_RemoveElement
  <2> HIDE DEF T, x, y
  <2>4. IsFiniteSet(T \cup {y}) /\ Cardinality(T \cup {y}) <= Cardinality(Tickets)
    <3>1. /\ IsFiniteSet(T \cup {y})
          /\ Cardinality(T \cup {y}) = IF y \in T THEN Cardinality(T) ELSE Cardinality(T) + 1
      BY <2>3, FS_AddElement
    <3> QED
      BY <1>3, <2>3, <3>1
  <2>5. IsFiniteSet(Tickets') /\ Cardinality(Tickets') <= Cardinality(T \cup {y})
    BY <2>2, <2>4, FS_Subset
  <2>6. Cardinality(Tickets') \in Nat /\ Cardinality(T \cup {y}) \in Nat
    BY <2>4, <2>5, FS_CardinalityType
  <2> QED
    BY <1>3, <1>5, <2>4, <2>5, <2>6 DEF Paid, Passes
<1>6. ASSUME NEW c \in Client, Pays(c)
      PROVE  Paid'
  <2> DEFINE y == <<c, Requests(c) + 1>>
  <2>1. Tickets' \subseteq Tickets \cup {y}
    <3> SUFFICES ASSUME NEW d \in Client, NEW n \in 1..Requests(d)', <<d, n>> # y
                 PROVE  <<d, n>> \in Tickets
      BY <1>2
    <3>1. n \in 1..Requests(d)
      <4>1. CASE d = c
        <5>1. n # Requests(c) + 1
          BY <4>1
        <5> QED
          BY <1>6, <4>1, <5>1 DEF Pays
      <4>2. CASE d # c
        BY <1>6, <4>2 DEF Pays
      <4> QED
        BY <4>1, <4>2
    <3> QED
      BY <1>1, <3>1
  <2> HIDE DEF y
  <2>2. IsFiniteSet(Tickets \cup {y}) /\ Cardinality(Tickets \cup {y}) <= Cardinality(Tickets) + 1
    <3>1. /\ IsFiniteSet(Tickets \cup {y})
          /\ Cardinality(Tickets \cup {y})
               = IF y \in Tickets THEN Cardinality(Tickets) ELSE Cardinality(Tickets) + 1
      BY <1>3, FS_AddElement
    <3> QED
      BY <1>3, <3>1
  <2>3. IsFiniteSet(Tickets') /\ Cardinality(Tickets') <= Cardinality(Tickets \cup {y})
    BY <2>1, <2>2, FS_Subset
  <2>4. IsFiniteSet(Started') /\ Cardinality(Started') = Cardinality(Started) + 1
    BY <1>3, <1>6, FS_AddElement DEF Pays
  <2>5. Cardinality(Tickets') \in Nat /\ Cardinality(Tickets \cup {y}) \in Nat
    BY <2>2, <2>3, FS_CardinalityType
  <2> QED
    BY <1>3, <2>2, <2>3, <2>4, <2>5 DEF Paid
<1> QED
  BY <1>4, <1>5, <1>6

(***************************************************************************)
(* The steps of one process: what they do to its requests.                 *)
(***************************************************************************)
Typed == BaseTypeOK /\ RelayTypeOK /\ \A d \in Client : Serving(d)

LEMMA InvTyped == ASSUME Inv PROVE Typed
<1> SUFFICES ASSUME NEW d \in Client, run[d].pc = "select", sess[d] = <<>> PROVE FALSE
  BY DEF Typed, Serving, Inv
<1>1. ~RunIsSpawning(d)
  BY DEF RunIsSpawning
<1>2. Live(d) = Len(chans[d].WebrtcEndSignal) + 1
  BY <1>1 DEF Inv, Balanced, Live
<1>3. Len(chans[d].WebrtcEndSignal) \in Nat
  BY DEF Inv, BaseTypeOK, Chans, Chan
<1> QED
  BY <1>2, <1>3, LiveNone

LEMMA InvTypedNext == ASSUME Inv' PROVE Typed'
<1> SUFFICES ASSUME NEW d \in Client, run'[d].pc = "select", sess'[d] = <<>> PROVE FALSE
  BY DEF Typed, Serving, Inv
<1>1. ~RunIsSpawning(d)'
  BY DEF RunIsSpawning
<1>2. Live(d)' = Len(chans'[d].WebrtcEndSignal) + 1
  BY <1>1 DEF Inv, Balanced, Live
<1>3. Len(chans'[d].WebrtcEndSignal) \in Nat
  BY DEF Inv, BaseTypeOK, Chans, Chan
<1>4. LiveSessions(d)' = {}
  BY DEF LiveSessions
<1> QED
  BY <1>2, <1>3, <1>4, FS_EmptySet DEF Live

LEMMA TakenIs ==
  ASSUME Typed, Typed', NEW r \in Rover
  PROVE  /\ Taken(r) = Len(sess[r]) - (IF run[r].pc = "select" THEN 1 ELSE 0)
         /\ Taken(r)' = Len(sess'[r]) - (IF run'[r].pc = "select" THEN 1 ELSE 0)
         /\ Len(sess[r]) \in Nat /\ Len(sess'[r]) \in Nat
<1>1. r \in Client /\ sess[r] \in Seq(SessionState) /\ sess'[r] \in Seq(SessionState)
  BY RoverIsClient DEF Typed, BaseTypeOK
<1>2. /\ sess[r] = <<>> => Len(sess[r]) = 0 /\ run[r].pc # "select"
      /\ sess'[r] = <<>> => Len(sess'[r]) = 0 /\ run'[r].pc # "select"
  BY <1>1 DEF Typed, Serving
<1>3. Len(sess[r]) \in Nat /\ Len(sess'[r]) \in Nat
  BY <1>1
<1>4. Taken(r) = Len(sess[r]) - (IF run[r].pc = "select" THEN 1 ELSE 0)
  <2>1. Taken(r) = IF sess[r] = <<>> THEN 0
                   ELSE Len(sess[r]) - (IF run[r].pc = "select" THEN 1 ELSE 0)
    BY DEF Taken, Renegotiations
  <2>2. CASE sess[r] = <<>>
    <3> DEFINE n == Len(sess[r])
               k == IF run[r].pc = "select" THEN 1 ELSE 0
    <3>1. Taken(r) = 0 /\ n = 0 /\ k = 0
      BY <1>2, <2>1, <2>2
    <3> HIDE DEF n, k
    <3>2. Taken(r) = n - k
      BY <3>1
    <3> QED
      BY <3>2 DEF n, k
  <2>3. CASE sess[r] # <<>>
    BY <2>1, <2>3
  <2> QED
    BY <2>2, <2>3
<1>5. Taken(r)' = Len(sess'[r]) - (IF run'[r].pc = "select" THEN 1 ELSE 0)
  <2>1. Taken(r)' = IF sess'[r] = <<>> THEN 0
                   ELSE Len(sess'[r]) - (IF run'[r].pc = "select" THEN 1 ELSE 0)
    BY DEF Taken, Renegotiations
  <2>2. CASE sess'[r] = <<>>
    <3> DEFINE n == Len(sess'[r])
               k == IF run'[r].pc = "select" THEN 1 ELSE 0
    <3>1. Taken(r)' = 0 /\ n = 0 /\ k = 0
      BY <1>2, <2>1, <2>2
    <3> HIDE DEF n, k
    <3>2. Taken(r)' = n - k
      BY <3>1
    <3> QED
      BY <3>2 DEF n, k
  <2>3. CASE sess'[r] # <<>>
    BY <2>1, <2>3
  <2> QED
    BY <2>2, <2>3
<1> QED
  BY <1>3, <1>4, <1>5

(* A process that touches its own requests alone. *)
LEMMA AloneSettles ==
  ASSUME Typed, Typed', NEW c \in Client, Alone(c), UNCHANGED handling,
         c \in Controller => (proc'[c] = "off" <=> proc[c] = "off"),
         Asked(c)' + Sent(c)' + Coming(c)' + Taken(c)' <= Asked(c) + Sent(c) + Coming(c) + Taken(c)
  PROVE  Settles
<1>1. Started' = Started
  BY ControllerIsClient DEF Started, Alone
<1>2. ASSUME NEW d \in Client, d # c
      PROVE  Requests(d)' = Requests(d)
  BY <1>2 DEF Alone, Requests, ReqsAt, Renegotiations
<1>3. InHand(c)' = InHand(c)
  BY DEF InHand
<1>4. Requests(c)' <= Requests(c)
  BY <1>3, RequestsParts, RequestsPartsNext DEF Typed
<1>5. ASSUME NEW d \in Client
      PROVE  Requests(d)' <= Requests(d)
  <2>1. CASE d = c
    BY <1>4, <2>1
  <2>2. CASE d # c
    <3>1. Requests(d) \in Nat
      BY RequestsParts DEF Typed
    <3> QED
      BY <1>2, <2>2, <3>1
  <2> QED
    BY <2>1, <2>2
<1> QED
  BY <1>1, <1>5 DEF Settles

LEMMA ChanAsked ==
  ASSUME BaseTypeOK, NEW c \in Client, NEW ch \in {"SendCh", "RemoteSDPCh", "WebrtcEndSignal"}
  PROVE  /\ ChanRecv(c, ch)
              => Asked(c)' = Asked(c) /\ \A e \in Client \ {c} : chans'[e] = chans[e]
         /\ \A x : ChanSend(c, ch, x)
              => Asked(c)' = Asked(c) /\ \A e \in Client \ {c} : chans'[e] = chans[e]
BY DEF ChanRecv, ChanSend, Asked, BaseTypeOK, Chans

LEMMA RequestAsked ==
  ASSUME BaseTypeOK, NEW c \in Client
  PROVE  /\ ChanRecv(c, "SDPReqCh")
              => Asked(c)' = Asked(c) - 1 /\ \A e \in Client \ {c} : chans'[e] = chans[e]
         /\ \A x : ChanSend(c, "SDPReqCh", x)
              => Asked(c)' = Asked(c) + 1 /\ \A e \in Client \ {c} : chans'[e] = chans[e]
<1>1. chans[c] \in Chans /\ chans[c].SDPReqCh \in Seq({TRUE}) /\ chans \in [Client -> Chans]
  BY DEF BaseTypeOK, Chans, Chan
<1>2. ASSUME ChanRecv(c, "SDPReqCh")
      PROVE  Asked(c)' = Asked(c) - 1 /\ \A e \in Client \ {c} : chans'[e] = chans[e]
  <2>1. /\ chans[c].SDPReqCh # <<>> /\ chans'[c].SDPReqCh = Tail(chans[c].SDPReqCh)
        /\ \A e \in Client \ {c} : chans'[e] = chans[e]
    BY <1>1, <1>2 DEF ChanRecv, Chans
  <2> QED
    BY <1>1, <2>1 DEF Asked
<1>3. ASSUME NEW x, ChanSend(c, "SDPReqCh", x)
      PROVE  Asked(c)' = Asked(c) + 1 /\ \A e \in Client \ {c} : chans'[e] = chans[e]
  <2>1. /\ chans'[c].SDPReqCh = Append(chans[c].SDPReqCh, x)
        /\ \A e \in Client \ {c} : chans'[e] = chans[e]
    BY <1>1, <1>3 DEF ChanSend, Chans
  <2> QED
    BY <1>1, <2>1 DEF Asked
<1> QED
  BY <1>2, <1>3

LEMMA WriteSent ==
  ASSUME BaseTypeOK, NEW c \in Client, NEW m, Write(c, m)
  PROVE  /\ Sent(c)' <= Sent(c) + One(m)
         /\ \A e \in Client \ {c} : outbox'[e] = outbox[e]
<1>1. outbox[c] \in Seq(ToServer) /\ outbox \in [Client -> Seq(ToServer)]
  BY DEF BaseTypeOK
<1>2. /\ outbox'[c] = Append(outbox[c], m)
      /\ \A e \in Client \ {c} : outbox'[e] = outbox[e]
  BY <1>1 DEF Write
<1> QED
  BY <1>1, <1>2, ReqsAppend DEF Sent

LEMMA ReceiveComing ==
  ASSUME BaseTypeOK, NEW c \in Client, Receive(c)
  PROVE  /\ Coming(c)' + One(Head(inbox[c])) <= Coming(c)
         /\ \A e \in Client \ {c} : inbox'[e] = inbox[e]
<1>1. inbox[c] \in Seq(FromServer) /\ inbox \in [Client -> Seq(FromServer)]
  BY DEF BaseTypeOK
<1>2. /\ inbox[c] # <<>> /\ inbox'[c] = Tail(inbox[c])
      /\ \A e \in Client \ {c} : inbox'[e] = inbox[e]
  BY <1>1 DEF Receive
<1> QED
  BY <1>1, <1>2, ReqsTail DEF Coming

LEMMA PartsNat ==
  ASSUME Typed, Typed', NEW d \in Client
  PROVE  /\ Asked(d) \in Nat /\ Sent(d) \in Nat /\ Coming(d) \in Nat /\ Taken(d) \in Nat
         /\ Asked(d)' \in Nat /\ Sent(d)' \in Nat /\ Coming(d)' \in Nat /\ Taken(d)' \in Nat
BY RequestsParts, RequestsPartsNext DEF Typed

LEMMA SignInSettles ==
  ASSUME Typed, Typed', NEW c \in Client, SignIn(c), UNCHANGED handling
  PROVE  Settles
<1>1. One([id |-> 1]) = 0
  BY DEF One, IsReq
<1>2. Sent(c)' <= Sent(c) + 0 /\ \A e \in Client \ {c} : outbox'[e] = outbox[e]
  BY <1>1, WriteSent DEF SignIn, Typed
<1>3. /\ Asked(c)' = Asked(c) /\ Coming(c)' = Coming(c) /\ Taken(c)' = Taken(c)
      /\ proc' = proc
  BY DEF SignIn, Asked, Coming, Taken, Renegotiations
<1>4. Alone(c)
  BY <1>2 DEF SignIn, Alone
<1> QED
  BY <1>2, <1>3, <1>4, PartsNat, AloneSettles

LEMMA SendSettles ==
  ASSUME Typed, Typed', NEW c \in Client, SendSDP(c) \/ SendSDPReq(c), UNCHANGED handling
  PROVE  Settles
<1>1. CASE SendSDP(c)
  <2> DEFINE m == SendMsg(c, "SDPExchange", Head(chans[c].SendCh))
  <2>1. One(m) = 0
    BY DEF One, IsReq, SendMsg
  <2>2. Write(c, m) /\ ChanRecv(c, "SendCh")
    BY <1>1 DEF SendSDP
  <2> HIDE DEF m
  <2>3. Sent(c)' <= Sent(c) + 0 /\ \A e \in Client \ {c} : outbox'[e] = outbox[e]
    BY <2>1, <2>2, WriteSent DEF Typed
  <2>4. Asked(c)' = Asked(c) /\ \A e \in Client \ {c} : chans'[e] = chans[e]
    BY <2>2, ChanAsked DEF Typed
  <2>5. Coming(c)' = Coming(c) /\ Taken(c)' = Taken(c) /\ proc' = proc
    BY <1>1 DEF SendSDP, Coming, Taken, Renegotiations
  <2>6. Alone(c)
    BY <1>1, <2>3, <2>4 DEF SendSDP, Alone
  <2> QED
    BY <2>3, <2>4, <2>5, <2>6, PartsNat, AloneSettles
<1>2. CASE SendSDPReq(c)
  <2> DEFINE m == SendMsg(c, "SDPReq", None)
  <2>1. One(m) = 1
    BY DEF One, IsReq, SendMsg
  <2>2. Write(c, m) /\ ChanRecv(c, "SDPReqCh")
    BY <1>2 DEF SendSDPReq
  <2> HIDE DEF m
  <2>3. Sent(c)' <= Sent(c) + 1 /\ \A e \in Client \ {c} : outbox'[e] = outbox[e]
    BY <2>1, <2>2, WriteSent DEF Typed
  <2>4. Asked(c)' = Asked(c) - 1 /\ \A e \in Client \ {c} : chans'[e] = chans[e]
    BY <2>2, RequestAsked DEF Typed
  <2>5. Coming(c)' = Coming(c) /\ Taken(c)' = Taken(c) /\ proc' = proc
    BY <1>2 DEF SendSDPReq, Coming, Taken, Renegotiations
  <2>6. Alone(c)
    BY <1>2, <2>3, <2>4 DEF SendSDPReq, Alone
  <2> QED
    BY <2>3, <2>4, <2>5, <2>6, PartsNat, AloneSettles
<1> QED
  BY <1>1, <1>2

LEMMA ServerRecvSettles ==
  ASSUME Typed, Typed', NEW c \in Client, ServerRecv(c), UNCHANGED handling
  PROVE  Settles
<1> DEFINE m == Head(inbox[c])
<1>1. Receive(c)
  BY DEF ServerRecv, RecvNotice, RecvSDP, RecvSDPReq
<1>2. /\ Coming(c)' + One(m) <= Coming(c)
      /\ \A e \in Client \ {c} : inbox'[e] = inbox[e]
  BY <1>1, ReceiveComing DEF Typed
<1>3. Sent(c)' = Sent(c) /\ Taken(c)' = Taken(c) /\ proc' = proc
  BY <1>1 DEF Receive, Sent, Taken, Renegotiations
<1>4. /\ Asked(c)' <= Asked(c) + One(m)
      /\ \A e \in Client \ {c} : chans'[e] = chans[e]
  <2>1. CASE RecvNotice(c)
    BY <2>1, OneNat, PartsNat DEF RecvNotice, Asked
  <2>2. CASE RecvSDP(c)
    <3>1. Asked(c)' = Asked(c) /\ \A e \in Client \ {c} : chans'[e] = chans[e]
      BY <2>2, ChanAsked DEF RecvSDP, Typed
    <3> QED
      BY <3>1, OneNat, PartsNat
  <2>3. CASE RecvSDPReq(c)
    <3>1. Asked(c)' = Asked(c) + 1 /\ \A e \in Client \ {c} : chans'[e] = chans[e]
      BY <2>3, RequestAsked DEF RecvSDPReq, Typed
    <3>2. One(m) = 1
      BY <2>3 DEF RecvSDPReq, One, IsReq
    <3> QED
      BY <3>1, <3>2, PartsNat
  <2> QED
    BY <2>1, <2>2, <2>3 DEF ServerRecv
<1>5. Alone(c)
  BY <1>1, <1>2, <1>4 DEF Receive, Alone
<1>6. One(m) \in {0, 1}
  BY OneNat
<1> HIDE DEF m
<1> QED
  BY <1>2, <1>3, <1>4, <1>5, <1>6, PartsNat, AloneSettles

LEMMA DieSettles ==
  ASSUME Typed, Typed', NEW c \in Client, Die(c), proc[c] = "up", UNCHANGED handling
  PROVE  Settles
<1>1. /\ outbox[c] \in Seq(ToServer) /\ outbox \in [Client -> Seq(ToServer)]
      /\ proc \in [Client -> {"off", "up", "down"}]
  BY DEF Typed, BaseTypeOK
<1>2. PICK n \in 0..Len(outbox[c]) : outbox' = [outbox EXCEPT ![c] = SubSeq(@, 1, n)]
  BY DEF Die
<1>3. Sent(c)' <= Sent(c) /\ \A e \in Client \ {c} : outbox'[e] = outbox[e]
  BY <1>1, <1>2, ReqsCut DEF Sent
<1>4. /\ chans'[c] = NoChans /\ inbox'[c] = <<>> /\ sess'[c] = <<>> /\ proc'[c] = "down"
      /\ Alone(c)
  BY <1>1, <1>3 DEF Die, Alone, Typed, BaseTypeOK
<1>5. Asked(c)' = 0 /\ Coming(c)' = 0 /\ Taken(c)' = 0
  BY <1>4, ReqsNone DEF Asked, Coming, Taken, Renegotiations, NoChans
<1>6. proc'[c] = "off" <=> proc[c] = "off"
  BY <1>4
<1> QED
  BY <1>3, <1>4, <1>5, <1>6, PartsNat, AloneSettles

(* Run and the sessions, on channels that carry no requests. *)
LEMMA InsideSettles ==
  ASSUME Typed, Typed', NEW c \in Client, UNCHANGED <<proc, outbox, inbox, handling>>,
         \/ chans' = chans
         \/ \E ch \in {"SendCh", "RemoteSDPCh", "WebrtcEndSignal"} :
              ChanRecv(c, ch) \/ \E x : ChanSend(c, ch, x),
         \A e \in Client \ {c} : run'[e] = run[e] /\ sess'[e] = sess[e],
         Taken(c)' = Taken(c)
  PROVE  Settles
<1>1. Asked(c)' = Asked(c) /\ \A e \in Client \ {c} : chans'[e] = chans[e]
  <2>1. CASE chans' = chans
    BY <2>1 DEF Asked
  <2>2. ASSUME NEW ch \in {"SendCh", "RemoteSDPCh", "WebrtcEndSignal"},
               ChanRecv(c, ch) \/ \E x : ChanSend(c, ch, x)
        PROVE  Asked(c)' = Asked(c) /\ \A e \in Client \ {c} : chans'[e] = chans[e]
    BY <2>2, ChanAsked DEF Typed
  <2> QED
    BY <2>1, <2>2
<1>2. Alone(c)
  BY <1>1 DEF Alone
<1>3. Sent(c)' = Sent(c) /\ Coming(c)' = Coming(c)
  BY DEF Sent, Coming
<1> QED
  BY <1>1, <1>2, <1>3, PartsNat, AloneSettles

(* A session of a rover that goes on. *)
LEMMA StageTaken ==
  ASSUME Typed, Typed', NEW r \in Rover, NEW s, NEW e,
         sess' = [sess EXCEPT ![r] = [@ EXCEPT ![s] = e]], run' = run
  PROVE  /\ Taken(r)' = Taken(r)
         /\ \A d \in Client \ {r} : run'[d] = run[d] /\ sess'[d] = sess[d]
<1>1. r \in Client /\ sess \in [Client -> Seq(SessionState)]
  BY RoverIsClient DEF Typed, BaseTypeOK
<1>2. sess[r] \in Seq(SessionState) /\ sess'[r] = [sess[r] EXCEPT ![s] = e]
  BY <1>1
<1>3. Len(sess'[r]) = Len(sess[r])
  BY <1>2
<1> QED
  BY <1>1, <1>3, TakenIs

LEMMA RoverSettles ==
  ASSUME Typed, Typed', NEW r \in Rover, WellFormed(r), RoverStep(r), UNCHANGED handling
  PROVE  Settles
<1>0. r \in Client /\ sess \in [Client -> Seq(SessionState)]
      /\ run \in [Client -> [pc : RunPc, sdp : SDP \cup {None}]] /\ sess[r] \in Seq(SessionState)
  BY RoverIsClient DEF Typed, BaseTypeOK
<1>1. CASE RoverStart(r)
  <2>1. /\ proc[r] = "off" /\ proc' = [proc EXCEPT ![r] = "up"]
        /\ chans' = [chans EXCEPT ![r] = NoChans]
        /\ run' = [run EXCEPT ![r].pc = "spawn"]
        /\ UNCHANGED <<outbox, inbox, sess>>
    BY <1>1 DEF RoverStart, Boot
  <2>2. Alone(r) /\ chans'[r] = NoChans /\ run'[r].pc = "spawn"
    BY <1>0, <2>1 DEF Alone, Typed, BaseTypeOK
  <2>3. Asked(r)' = 0
    BY <2>2 DEF Asked, NoChans
  <2>4. run[r].pc = "off"
    BY <2>1 DEF WellFormed
  <2>5. Taken(r)' = Taken(r)
    BY <2>1, <2>2, <2>4, TakenIs
  <2>6. Sent(r)' = Sent(r) /\ Coming(r)' = Coming(r)
    BY <2>1 DEF Sent, Coming
  <2>7. r \notin Controller
    BY BaseAssumption
  <2> QED
    BY <1>0, <2>2, <2>3, <2>5, <2>6, <2>7, PartsNat, AloneSettles
<1>2. CASE Exit(r)
  BY <1>0, <1>2, DieSettles DEF Exit
<1>3. CASE SignIn(r) \/ SendSDP(r) \/ SendSDPReq(r) \/ ServerRecv(r)
  BY <1>0, <1>3, SignInSettles, SendSettles, ServerRecvSettles
<1>4. CASE RoverSpawn(r)
  <2> DEFINE e == NewSession(IF r \in GstreamerCli THEN "starting" ELSE "offering")
  <2>1. /\ run[r].pc = "spawn" /\ run' = [run EXCEPT ![r].pc = "select"]
        /\ sess' = [sess EXCEPT ![r] = Append(@, e)]
        /\ UNCHANGED <<proc, chans, outbox, inbox>>
    BY <1>4 DEF RoverSpawn
  <2> HIDE DEF e
  <2>2. run'[r].pc = "select" /\ sess'[r] = Append(sess[r], e)
    BY <1>0, <2>1
  <2>3. Len(sess'[r]) = Len(sess[r]) + 1
    BY <1>0, <2>2
  <2>4. Taken(r)' = Taken(r)
    <3>1. Taken(r) = Len(sess[r]) - 0 /\ Taken(r)' = Len(sess'[r]) - 1 /\ Len(sess[r]) \in Nat
      BY <2>1, <2>2, TakenIs
    <3> QED
      BY <2>3, <3>1
  <2> QED
    BY <1>0, <2>1, <2>4, InsideSettles
<1>5. CASE RoverRunRequest(r)
  <2>1. /\ run[r].pc = "select" /\ run' = [run EXCEPT ![r].pc = "signal"]
        /\ ChanRecv(r, "SDPReqCh") /\ UNCHANGED <<proc, outbox, inbox, sess>>
    BY <1>5 DEF RoverRunRequest
  <2>2. Asked(r)' = Asked(r) - 1 /\ \A e \in Client \ {r} : chans'[e] = chans[e]
    BY <1>0, <2>1, RequestAsked DEF Typed
  <2>3. run'[r].pc = "signal" /\ Alone(r)
    BY <1>0, <2>1, <2>2 DEF Alone
  <2>4. Taken(r)' = Taken(r) + 1
    <3>1. Taken(r) = Len(sess[r]) - 1 /\ Taken(r)' = Len(sess'[r]) - 0 /\ Len(sess[r]) \in Nat
      BY <2>1, <2>3, TakenIs
    <3>2. sess'[r] = sess[r]
      BY <2>1
    <3> QED
      BY <3>1, <3>2
  <2>5. Sent(r)' = Sent(r) /\ Coming(r)' = Coming(r)
    BY <2>1 DEF Sent, Coming
  <2> QED
    BY <1>0, <2>1, <2>2, <2>3, <2>4, <2>5, PartsNat, AloneSettles
<1>6. CASE RoverRunSignal(r)
  <2>1. /\ run[r].pc = "signal" /\ run' = [run EXCEPT ![r].pc = "spawn"]
        /\ ChanSend(r, "WebrtcEndSignal", TRUE) /\ UNCHANGED <<proc, outbox, inbox, sess>>
    BY <1>6 DEF RoverRunSignal
  <2>2. run'[r].pc = "spawn"
    BY <1>0, <2>1
  <2>3. Taken(r)' = Taken(r)
    BY <2>1, <2>2, TakenIs
  <2> QED
    BY <1>0, <2>1, <2>3, InsideSettles
<1>7. ASSUME NEW s \in DOMAIN sess[r], RoverSession(r, s)
      PROVE  Settles
  <2>1. ASSUME NEW stage, GoTo(r, s, stage), run' = run
        PROVE  /\ Taken(r)' = Taken(r)
               /\ \A d \in Client \ {r} : run'[d] = run[d] /\ sess'[d] = sess[d]
    <3> DEFINE e == [sess[r][s] EXCEPT !.stage = stage]
    <3>1. sess' = [sess EXCEPT ![r] = [@ EXCEPT ![s] = e]]
      BY <2>1 DEF GoTo
    <3> HIDE DEF e
    <3> QED
      BY <2>1, <3>1, StageTaken
  <2>2. CASE RoverListen(r, s)
    BY <1>0, <2>1, <2>2, InsideSettles DEF RoverListen
  <2>3. CASE RoverPortConflict(r, s)
    <3>1. proc[r] = "up"
      BY <2>3 DEF RoverPortConflict, StageIs, WellFormed
    <3> QED
      BY <1>0, <2>3, <3>1, DieSettles DEF RoverPortConflict
  <2>4. CASE RoverFirstPacket(r, s)
    BY <1>0, <2>1, <2>4, InsideSettles DEF RoverFirstPacket
  <2>5. CASE RoverOffer(r, s)
    BY <1>0, <2>1, <2>5, InsideSettles DEF RoverOffer
  <2>6. CASE RoverAnswered(r, s)
    <3> DEFINE e == [sess[r][s] EXCEPT !.stage = "streaming", !.sdp = Head(chans[r].RemoteSDPCh)]
    <3>1. /\ sess' = [sess EXCEPT ![r] = [@ EXCEPT ![s] = e]] /\ run' = run
          /\ ChanRecv(r, "RemoteSDPCh") /\ UNCHANGED <<proc, outbox, inbox>>
      BY <2>6 DEF RoverAnswered, GoToWith
    <3> HIDE DEF e
    <3>2. /\ Taken(r)' = Taken(r)
          /\ \A d \in Client \ {r} : run'[d] = run[d] /\ sess'[d] = sess[d]
      BY <3>1, StageTaken
    <3> QED
      BY <1>0, <3>1, <3>2, InsideSettles
  <2>7. CASE RoverEnd(r, s)
    BY <1>0, <2>1, <2>7, InsideSettles DEF RoverEnd
  <2>8. CASE RoverClosed(r, s)
    BY <1>0, <2>1, <2>8, InsideSettles DEF RoverClosed
  <2> QED
    BY <1>7, <2>2, <2>3, <2>4, <2>5, <2>6, <2>7, <2>8 DEF RoverSession
<1> QED
  BY <1>1, <1>2, <1>3, <1>4, <1>5, <1>6, <1>7 DEF RoverStep, RoverRun

LEMMA ControllerTaken ==
  ASSUME NEW c \in Controller
  PROVE  Taken(c) = 0 /\ Taken(c)' = 0
<1>1. c \notin Rover
  BY BaseAssumption
<1> QED
  BY <1>1 DEF Taken

(* The first request of a controller is the one that its start pays for. *)
LEMMA StartPays ==
  ASSUME Typed, Typed', NEW c \in Controller, ControllerStart(c), UNCHANGED handling
  PROVE  Pays(c)
<1> DEFINE ch == [NoChans EXCEPT !.SDPReqCh = <<TRUE>>]
<1>0. c \in Client
  BY ControllerIsClient
<1>1. /\ proc[c] = "off" /\ proc' = [proc EXCEPT ![c] = "up"]
      /\ chans' = [chans EXCEPT ![c] = ch]
      /\ run' = [run EXCEPT ![c].pc = "spawn"]
      /\ UNCHANGED <<outbox, inbox, sess>>
  BY DEF ControllerStart, Boot
<1>2. ch.SDPReqCh = <<TRUE>>
  BY DEF NoChans
<1> HIDE DEF ch
<1>3. /\ proc'[c] = "up" /\ chans'[c] = ch
      /\ \A e \in Client \ {c} : proc'[e] = proc[e] /\ chans'[e] = chans[e] /\ run'[e] = run[e]
  BY <1>0, <1>1 DEF Typed, BaseTypeOK
<1>4. c \notin Started /\ Started' = Started \cup {c}
  BY <1>1, <1>3, ControllerIsClient DEF Started
<1>5. Asked(c)' = 1
  BY <1>2, <1>3 DEF Asked
<1>6. /\ Sent(c)' = Sent(c) /\ Coming(c)' = Coming(c) /\ InHand(c)' = InHand(c)
      /\ Taken(c)' = Taken(c)
  BY <1>1, ControllerTaken DEF Sent, Coming, InHand
<1>7. Requests(c)' <= Requests(c) + 1
  BY <1>0, <1>5, <1>6, RequestsParts, RequestsPartsNext DEF Typed
<1>8. ASSUME NEW d \in Client \ {c}
      PROVE  Requests(d)' <= Requests(d)
  <2>1. Requests(d)' = Requests(d)
    BY <1>1, <1>3 DEF Requests, ReqsAt, Renegotiations
  <2> QED
    BY <2>1, RequestsParts DEF Typed
<1> QED
  BY <1>4, <1>7, <1>8 DEF Pays

LEMMA ControllerSettles ==
  ASSUME Typed, Typed', NEW c \in Controller, WellFormed(c), ControllerStep(c),
         UNCHANGED handling
  PROVE  Settles \/ Pays(c)
<1>0. /\ c \in Client /\ Taken(c)' = Taken(c) /\ sess \in [Client -> Seq(SessionState)]
      /\ run \in [Client -> [pc : RunPc, sdp : SDP \cup {None}]]
  BY ControllerIsClient, ControllerTaken DEF Typed, BaseTypeOK
<1>1. CASE ControllerStart(c)
  BY <1>1, StartPays
<1>2. CASE Exit(c)
  BY <1>0, <1>2, DieSettles DEF Exit
<1>3. CASE SignIn(c) \/ SendSDP(c) \/ SendSDPReq(c) \/ ServerRecv(c)
  BY <1>0, <1>3, SignInSettles, SendSettles, ServerRecvSettles
<1>4. CASE ControllerSpawn(c)
  <2>1. \A e \in Client \ {c} : run'[e] = run[e] /\ sess'[e] = sess[e]
    BY <1>0, <1>4 DEF ControllerSpawn
  <2> QED
    BY <1>0, <1>4, <2>1, InsideSettles DEF ControllerSpawn
<1>5. CASE ControllerRunOffer(c)
  <2>1. \A e \in Client \ {c} : run'[e] = run[e] /\ sess'[e] = sess[e]
    BY <1>0, <1>5 DEF ControllerRunOffer
  <2> QED
    BY <1>0, <1>5, <2>1, InsideSettles DEF ControllerRunOffer
<1>6. CASE ControllerRunSignal(c)
  <2>1. \A e \in Client \ {c} : run'[e] = run[e] /\ sess'[e] = sess[e]
    BY <1>0, <1>6 DEF ControllerRunSignal
  <2> QED
    BY <1>0, <1>6, <2>1, InsideSettles DEF ControllerRunSignal
<1>7. CASE ControllerRunPutBack(c)
  <2>1. \A e \in Client \ {c} : run'[e] = run[e] /\ sess'[e] = sess[e]
    BY <1>0, <1>7 DEF ControllerRunPutBack
  <2> QED
    BY <1>0, <1>7, <2>1, InsideSettles DEF ControllerRunPutBack
<1>8. ASSUME NEW k \in DOMAIN sess[c], ControllerSession(c, k)
      PROVE  Settles
  <2>1. CASE ControllerTrackPanic(c, k)
    <3>1. proc[c] = "up"
      BY <1>0, <2>1 DEF ControllerTrackPanic, StageIs, WellFormed
    <3> QED
      BY <1>0, <2>1, <3>1, DieSettles DEF ControllerTrackPanic
  <2>2. CASE ControllerTakeOffer(c, k)
    <3>1. \A e \in Client \ {c} : run'[e] = run[e] /\ sess'[e] = sess[e]
      BY <1>0, <2>2 DEF ControllerTakeOffer, GoToWith
    <3> QED
      BY <1>0, <2>2, <3>1, InsideSettles DEF ControllerTakeOffer
  <2>3. CASE ControllerAnswer(c, k)
    <3>1. \A e \in Client \ {c} : run'[e] = run[e] /\ sess'[e] = sess[e]
      BY <1>0, <2>3 DEF ControllerAnswer, GoTo
    <3> QED
      BY <1>0, <2>3, <3>1, InsideSettles DEF ControllerAnswer
  <2>4. CASE ControllerTrackStarts(c, k)
    <3>1. \A e \in Client \ {c} : run'[e] = run[e] /\ sess'[e] = sess[e]
      BY <1>0, <2>4 DEF ControllerTrackStarts
    <3> QED
      BY <1>0, <2>4, <3>1, InsideSettles DEF ControllerTrackStarts
  <2>5. CASE ControllerIceGone(c, k)
    <3>1. \A e \in Client \ {c} : run'[e] = run[e] /\ sess'[e] = sess[e]
      BY <1>0, <2>5 DEF ControllerIceGone, GoTo
    <3> QED
      BY <1>0, <2>5, <3>1, InsideSettles DEF ControllerIceGone
  <2>6. CASE ControllerEnd(c, k)
    <3>1. \A e \in Client \ {c} : run'[e] = run[e] /\ sess'[e] = sess[e]
      BY <1>0, <2>6 DEF ControllerEnd, GoTo
    <3> QED
      BY <1>0, <2>6, <3>1, InsideSettles DEF ControllerEnd
  <2> QED
    BY <1>8, <2>1, <2>2, <2>3, <2>4, <2>5, <2>6 DEF ControllerSession
<1> QED
  BY <1>1, <1>2, <1>3, <1>4, <1>5, <1>6, <1>7, <1>8 DEF ControllerStep, ControllerRun

(***************************************************************************)
(* The relay: it has a request in hand or passes it on.                    *)
(***************************************************************************)
LEMMA RelaySettles ==
  ASSUME Typed, Typed', UNCHANGED <<proc, chans, run, sess>>
  PROVE  /\ Started' = Started
         /\ \A d \in Client :
              /\ Requests(d) \in Nat /\ Requests(d)' \in Nat
              /\ Sent(d) \in Nat /\ Sent(d)' \in Nat /\ Coming(d) \in Nat /\ Coming(d)' \in Nat
              /\ InHand(d) \in Nat /\ InHand(d)' \in Nat
              /\ Requests(d)' + Sent(d) + Coming(d) + InHand(d)
                   = Requests(d) + Sent(d)' + Coming(d)' + InHand(d)'
<1>1. Started' = Started
  BY DEF Started
<1>2. ASSUME NEW d \in Client
      PROVE  Asked(d)' = Asked(d) /\ Taken(d)' = Taken(d)
  BY DEF Asked, Taken, Renegotiations
<1> QED
  BY <1>1, <1>2, RequestsParts, RequestsPartsNext DEF Typed

LEMMA TakeSent ==
  ASSUME BaseTypeOK, NEW c \in Client, NEW id, Take(c, id)
  PROVE  /\ Sent(c)' + One(Head(outbox[c])) <= Sent(c)
         /\ \A d \in Client \ {c} : Sent(d)' = Sent(d)
<1>1. outbox[c] \in Seq(ToServer) /\ outbox \in [Client -> Seq(ToServer)]
  BY DEF BaseTypeOK
<1>2. /\ outbox[c] # <<>> /\ outbox'[c] = Tail(outbox[c])
      /\ \A d \in Client \ {c} : outbox'[d] = outbox[d]
  BY <1>1 DEF Take
<1> QED
  BY <1>1, <1>2, ReqsTail DEF Sent

LEMMA DeliverComing ==
  ASSUME BaseTypeOK, NEW c \in Client, NEW m, Deliver(c, m)
  PROVE  /\ Coming(c)' <= Coming(c) + One(m)
         /\ \A d \in Client \ {c} : Coming(d)' = Coming(d)
<1>1. inbox[c] \in Seq(FromServer) /\ inbox \in [Client -> Seq(FromServer)]
  BY DEF BaseTypeOK
<1>2. CASE proc[c] = "up"
  <2>1. /\ inbox'[c] = Append(inbox[c], m)
        /\ \A d \in Client \ {c} : inbox'[d] = inbox[d]
    BY <1>1, <1>2 DEF Deliver
  <2> QED
    BY <1>1, <2>1, ReqsAppend DEF Coming
<1>3. CASE proc[c] # "up"
  <2>1. inbox' = inbox
    BY <1>3 DEF Deliver
  <2>2. Coming(c) \in Nat /\ Coming(c)' = Coming(c)
    BY <1>1, <2>1, ReqsNat DEF Coming
  <2>3. \A d \in Client \ {c} : Coming(d)' = Coming(d)
    BY <2>1 DEF Coming
  <2> QED
    BY <2>2, <2>3, OneNat
<1> QED
  BY <1>2, <1>3

LEMMA ForwardRequests ==
  ASSUME Typed, Typed', NEW c \in Client, Forward(c)
  PROVE  Settles \/ \E d \in Client : c # d /\ Passes(c, d)
<1> DEFINE m == handling[c]
           x == Forwarded(m)
<1>1. /\ m # None /\ handling' = [handling EXCEPT ![c] = None]
      /\ UNCHANGED <<proc, chans, outbox, run, sess>>
  BY DEF Forward
<1>2. m \in Sends /\ handling \in [Client -> Sends \cup {None}] /\ m.to_user \in User
  BY <1>1, ForwardedType DEF Typed, RelayTypeOK
<1>3. One(x) = One(m) /\ One(m) \in {0, 1}
  BY <1>2, OneNat DEF One, IsReq, Forwarded, Sends, ToServer
<1>4. /\ InHand(c) = One(m) /\ InHand(c)' = 0
      /\ \A d \in Client \ {c} : InHand(d)' = InHand(d)
  BY <1>1, <1>2 DEF InHand
<1>5. \A d \in Client : Sent(d)' = Sent(d)
  BY <1>1 DEF Sent
<1>6. CASE pool[m.to_user] = None
  <2>1. \A d \in Client : Coming(d)' = Coming(d)
    BY <1>6 DEF Forward, Coming
  <2> HIDE DEF m, x
  <2>2. ASSUME NEW d \in Client
        PROVE  Requests(d)' <= Requests(d)
    BY <1>1, <1>3, <1>4, <1>5, <2>1, RelaySettles
  <2> QED
    BY <1>1, <2>2, RelaySettles DEF Settles
<1>7. CASE pool[m.to_user] # None
  <2>1. PICK b \in Client : b = pool[m.to_user]
    BY <1>2, <1>7 DEF Typed, RelayTypeOK
  <2>2. Deliver(b, x)
    BY <1>7, <2>1 DEF Forward
  <2> HIDE DEF m, x
  <2>3. /\ Coming(b)' <= Coming(b) + One(m)
        /\ \A d \in Client \ {b} : Coming(d)' = Coming(d)
    BY <1>3, <2>2, DeliverComing DEF Typed
  <2>4. ASSUME NEW d \in Client \ {b, c}
        PROVE  Requests(d)' <= Requests(d)
    BY <1>1, <1>4, <1>5, <2>3, RelaySettles
  <2>5. CASE b = c
    <3>1. Requests(c)' <= Requests(c)
      BY <1>1, <1>3, <1>4, <1>5, <2>3, <2>5, RelaySettles
    <3> QED
      BY <1>1, <2>4, <2>5, <3>1, RelaySettles DEF Settles
  <2>6. CASE b # c /\ One(m) = 1
    <3>1. Requests(c)' < Requests(c)
      BY <1>1, <1>4, <1>5, <2>3, <2>6, RelaySettles
    <3>2. Requests(b)' <= Requests(b) + 1
      BY <1>1, <1>4, <1>5, <2>3, <2>6, RelaySettles
    <3> QED
      BY <1>1, <2>4, <2>6, <3>1, <3>2, RelaySettles DEF Passes
  <2>7. CASE b # c /\ One(m) = 0
    <3>1. Requests(c)' <= Requests(c)
      BY <1>1, <1>4, <1>5, <2>3, <2>7, RelaySettles
    <3>2. Requests(b)' <= Requests(b)
      BY <1>1, <1>4, <1>5, <2>3, <2>7, RelaySettles
    <3> QED
      BY <1>1, <2>4, <3>1, <3>2, RelaySettles DEF Settles
  <2> QED
    BY <1>3, <2>5, <2>6, <2>7
<1> QED
  BY <1>6, <1>7

LEMMA ServeRequests ==
  ASSUME Typed, Typed', NEW c \in Client, Serve(c)
  PROVE  Settles \/ \E a, b \in Client : a # b /\ Passes(a, b)
<1>1. CASE Online(c)
  <2>1. UNCHANGED <<proc, chans, run, sess, inbox, handling>> /\ Take(c, 1)
    BY <1>1 DEF Online
  <2>2. \A d \in Client : Coming(d)' = Coming(d) /\ InHand(d)' = InHand(d)
    BY <2>1 DEF Coming, InHand
  <2>3. ASSUME NEW d \in Client
        PROVE  Requests(d)' <= Requests(d)
    <3>1. d = c \/ Sent(d)' = Sent(d)
      BY <2>1, TakeSent DEF Typed
    <3>2. Sent(c)' + One(Head(outbox[c])) <= Sent(c) /\ One(Head(outbox[c])) \in {0, 1}
      BY <2>1, TakeSent, OneNat DEF Typed
    <3> QED
      BY <2>1, <2>2, <3>1, <3>2, RelaySettles
  <2> QED
    BY <2>1, <2>3, RelaySettles DEF Settles
<1>2. CASE SendOnline(c)
  <2> DEFINE m == Head(outbox[c])
  <2>1. /\ UNCHANGED <<proc, chans, run, sess, inbox>> /\ Take(c, 5)
        /\ handling[c] = None /\ handling' = [handling EXCEPT ![c] = m]
    BY <1>2 DEF SendOnline, Take
  <2>2. handling \in [Client -> Sends \cup {None}] /\ One(m) \in {0, 1}
    BY OneNat DEF Typed, RelayTypeOK
  <2>3. Sent(c)' + One(m) <= Sent(c) /\ \A d \in Client \ {c} : Sent(d)' = Sent(d)
    BY <2>1, TakeSent DEF Typed
  <2> HIDE DEF m
  <2>4. /\ InHand(c) = 0 /\ InHand(c)' <= One(m)
        /\ \A d \in Client \ {c} : InHand(d)' = InHand(d)
    <3>1. /\ handling'[c] = m /\ \A d \in Client \ {c} : handling'[d] = handling[d]
      BY <2>1, <2>2
    <3> QED
      BY <2>1, <2>2, <3>1 DEF InHand
  <2>5. \A d \in Client : Coming(d)' = Coming(d)
    BY <2>1 DEF Coming
  <2>6. ASSUME NEW d \in Client
        PROVE  Requests(d)' <= Requests(d)
    <3>1. CASE d = c
      BY <2>1, <2>2, <2>3, <2>4, <2>5, <3>1, RelaySettles
    <3>2. CASE d # c
      BY <2>1, <2>3, <2>4, <2>5, <3>2, RelaySettles
    <3> QED
      BY <3>1, <3>2
  <2> QED
    BY <2>1, <2>6, RelaySettles DEF Settles
<1>3. CASE SendOffline(c)
  <2> DEFINE n == [id |-> 200]
  <2>1. /\ UNCHANGED <<proc, chans, run, sess, handling>> /\ Take(c, 5) /\ Deliver(c, n)
    BY <1>3 DEF SendOffline
  <2>2. One(n) = 0
    BY DEF One, IsReq
  <2> HIDE DEF n
  <2>3. Coming(c)' <= Coming(c) + 0 /\ \A d \in Client \ {c} : Coming(d)' = Coming(d)
    BY <2>1, <2>2, DeliverComing DEF Typed
  <2>4. Sent(c)' + One(Head(outbox[c])) <= Sent(c) /\ \A d \in Client \ {c} : Sent(d)' = Sent(d)
    BY <2>1, TakeSent DEF Typed
  <2>5. \A d \in Client : InHand(d)' = InHand(d)
    BY <2>1 DEF InHand
  <2>6. One(Head(outbox[c])) \in {0, 1}
    BY OneNat
  <2>7. ASSUME NEW d \in Client
        PROVE  Requests(d)' <= Requests(d)
    <3>1. CASE d = c
      BY <2>1, <2>3, <2>4, <2>5, <2>6, <3>1, RelaySettles
    <3>2. CASE d # c
      BY <2>1, <2>3, <2>4, <2>5, <3>2, RelaySettles
    <3> QED
      BY <3>1, <3>2
  <2> QED
    BY <2>1, <2>7, RelaySettles DEF Settles
<1>4. CASE Forward(c)
  BY <1>4, ForwardRequests
<1>5. CASE ConnClosed(c)
  <2>1. UNCHANGED <<proc, chans, outbox, inbox, run, sess, handling>>
    BY <1>5 DEF ConnClosed
  <2>2. \A d \in Client : Requests(d)' = Requests(d)
    BY <2>1 DEF Requests, ReqsAt, Renegotiations
  <2> QED
    BY <2>1, <2>2, RelaySettles DEF Settles
<1> QED
  BY <1>1, <1>2, <1>3, <1>4, <1>5 DEF Serve

LEMMA PaidInit == Init => Paid
<1> SUFFICES ASSUME Init PROVE Paid
  OBVIOUS
<1>1. ASSUME NEW d \in Client
      PROVE  Requests(d) = 0
  <2>1. /\ chans[d] = NoChans /\ outbox[d] = <<>> /\ inbox[d] = <<>> /\ handling[d] = None
        /\ sess[d] = <<>>
    BY DEF Init, BaseInit, RelayInit
  <2>2. Asked(d) = 0 /\ Sent(d) = 0 /\ Coming(d) = 0 /\ InHand(d) = 0 /\ Taken(d) = 0
    BY <2>1, ReqsNone DEF Asked, Sent, Coming, InHand, Taken, Renegotiations, NoChans
  <2> QED
    BY <2>2, InvInit, InvTyped, RequestsParts DEF Typed
<1>2. Tickets = {}
  BY <1>1 DEF Tickets
<1>3. Started = {}
  BY ControllerIsClient DEF Started, Init, BaseInit
<1> QED
  BY <1>2, <1>3, FS_EmptySet DEF Paid

LEMMA PaidNext == Inv /\ Paid /\ [Next]_vars => Paid'
<1> SUFFICES ASSUME Inv, Paid, [Next]_vars PROVE Paid'
  OBVIOUS
<1>1. Inv'
  BY InvNext
<1>2. Typed /\ Typed'
  BY <1>1, InvTyped, InvTypedNext
<1>3. \A d \in Client : Requests(d) \in Nat /\ Requests(d)' \in Nat
  BY <1>2, RequestsParts, RequestsPartsNext DEF Typed
<1>4. \/ Settles
      \/ \E a, b \in Client : a # b /\ Passes(a, b)
      \/ \E c \in Client : Pays(c)
  <2>1. CASE Rovers
    <3>1. PICK r \in Rover : RoverStep(r) /\ UNCHANGED relayVars
      BY <2>1 DEF Rovers
    <3>2. WellFormed(r) /\ UNCHANGED handling
      BY <3>1, RoverIsClient DEF Inv, relayVars
    <3> QED
      BY <1>2, <3>1, <3>2, RoverSettles
  <2>2. CASE Controllers
    <3>1. PICK c \in Controller : ControllerStep(c) /\ UNCHANGED relayVars
      BY <2>2 DEF Controllers
    <3>2. WellFormed(c) /\ c \in Client /\ UNCHANGED handling
      BY <3>1, ControllerIsClient DEF Inv, relayVars
    <3> QED
      BY <1>2, <3>1, <3>2, ControllerSettles
  <2>3. CASE Relay
    BY <1>2, <2>3, ServeRequests DEF Relay
  <2>4. CASE UNCHANGED vars
    <3>1. UNCHANGED <<proc, chans, outbox, inbox, run, sess, handling>>
      BY <2>4 DEF vars, baseVars, relayVars
    <3>2. \A d \in Client : Requests(d)' = Requests(d)
      BY <3>1 DEF Requests, ReqsAt, Renegotiations
    <3> QED
      BY <1>2, <3>1, <3>2, RelaySettles DEF Settles
  <2> QED
    BY <2>1, <2>2, <2>3, <2>4 DEF Next
<1> QED
  BY <1>3, <1>4, PaidKept

LEMMA PaidHolds == Spec => []Paid
BY PaidInit, PaidNext, InvHolds, PTL DEF Spec

(* However the requests are passed to and fro, there are never more of     *)
(* them, with those that a Run has taken, than controllers were started:   *)
(* Send and the relay make no second one of any (base/service.go:77, 154,  *)
(* server/service.go:86-123), so a rover gives up no session that nobody   *)
(* has paid for (rover/service.go:378-382).                                *)
THEOREM RequestBudgetHolds == Spec => []RequestBudget
<1>1. Paid => RequestBudget
  BY DEF Paid, Tickets, RequestBudget
<1> QED
  BY <1>1, PaidHolds, PTL

(* So a rover starts at most one session more than there were controllers: *)
(* however its Send and its Run share the requests, no loop of requests    *)
(* makes sessions without end (rover/service.go:372-383).                  *)
THEOREM SessionsPaid ==
  Spec => [](\A r \in Rover : Len(sess[r]) <= Cardinality(Started) + 1)
<1>1. Inv /\ Paid => \A r \in Rover : Len(sess[r]) <= Cardinality(Started) + 1
  <2> SUFFICES ASSUME Inv, Paid, NEW r \in Rover
               PROVE  Len(sess[r]) <= Cardinality(Started) + 1
    OBVIOUS
  <2> DEFINE n == Requests(r)
             f == [i \in 1..n |-> <<r, i>>]
  <2>1. r \in Client /\ sess[r] \in Seq(SessionState) /\ Typed
    BY RoverIsClient, InvTyped DEF Inv, BaseTypeOK
  <2>2. n \in Nat /\ Taken(r) <= n
    BY <2>1, RequestsParts DEF Typed
  <2>3. Len(sess[r]) \in Nat /\ Len(sess[r]) <= Taken(r) + 1
    <3> DEFINE l == Len(sess[r])
               k == IF run[r].pc = "select" THEN 1 ELSE 0
    <3>1. /\ l \in Nat /\ k \in {0, 1} /\ (sess[r] = <<>> => l = 0)
          /\ Taken(r) = IF sess[r] = <<>> THEN 0 ELSE l - k
      BY <2>1 DEF Taken, Renegotiations
    <3> HIDE DEF l, k
    <3>2. l \in Nat /\ l <= Taken(r) + 1
      BY <3>1
    <3> QED
      BY <3>2 DEF l
  <2>4. /\ IsFiniteSet(Tickets) /\ Cardinality(Tickets) \in Nat
        /\ Cardinality(Started) \in Nat /\ Cardinality(Tickets) <= Cardinality(Started)
    BY FS_CardinalityType DEF Paid
  <2>5. n <= Cardinality(Tickets)
    <3>1. f \in Injection(1..n, Tickets)
      BY <2>1 DEF Tickets, Injection, IsInjective
    <3>2. Cardinality(1..n) <= Cardinality(Tickets)
      BY <2>4, <3>1, FS_Injection
    <3>3. Cardinality(1..n) = n
      BY <2>2, FS_Interval
    <3> QED
      BY <3>2, <3>3
  <2> HIDE DEF n
  <2>6. Taken(r) \in Nat
    BY <2>1, RequestsParts DEF Typed
  <2> QED
    BY <2>2, <2>3, <2>4, <2>5, <2>6
<1> QED
  BY <1>1, InvHolds, PaidHolds, PTL

=============================================================================
