-------------------------- MODULE ControllerAlone --------------------------
(***************************************************************************)
(* The controller process against a network that delivers offers and reads *)
(* the connection whenever it likes.                                       *)
(***************************************************************************)
EXTENDS ControllerService, Functions

CONSTANTS
  Self,       \* the controller whose promise is compared with SessionSupervisor
  Peer,       \* the rover whose offers the network delivers
  MaxOffers   \* bound: offers the network delivers

ASSUME ControllerAloneAssumption ==
  Self \in Controller /\ Peer \in Rover /\ MaxOffers \in Nat

VARIABLE
  offers   \* offers delivered so far, number n being Offer(Peer, n)

vars == <<baseVars, offers>>

Init ==
  /\ BaseInit
  /\ offers = 0

NetworkTakes(c) ==
  /\ outbox[c] # <<>>
  /\ outbox' = [outbox EXCEPT ![c] = Tail(@)]
  /\ UNCHANGED <<proc, signedIn, chans, inbox, run, sess, offers>>

NetworkOffers ==
  /\ proc[Self] = "up"
  /\ offers < MaxOffers
  /\ Len(inbox[Self]) < SocketCap
  /\ offers' = offers + 1
  /\ inbox' = [inbox EXCEPT ![Self] =
                 Append(@, [id |-> 6, from_user |-> 2, messageType |-> "SDPExchange",
                            message |-> Offer(Peer, offers')])]
  /\ UNCHANGED <<proc, signedIn, chans, outbox, run, sess>>

Own(A) == A /\ UNCHANGED offers

Next ==
  \/ \E c \in Controller : Own(ControllerStep(c)) \/ NetworkTakes(c)
  \/ NetworkOffers

Spec == Init /\ [][Next]_vars

(* Every goroutine that can go on does and the network reads what is       *)
(* written.  Offers, remote tracks and the loss of ICE may never come.     *)
Fairness ==
  \A c \in Controller :
    /\ WF_vars(Own(ControllerRun(c)))
    /\ WF_vars(Own(SignIn(c)))
    /\ WF_vars(Own(SendSDP(c) \/ SendSDPReq(c)))
    /\ WF_vars(Own(ServerRecv(c)))
    /\ WF_vars(Own(\E k \in DOMAIN sess[c] :
                     \/ ControllerTakeOffer(c, k)
                     \/ ControllerAnswer(c, k)
                     \/ ControllerEnd(c, k)
                     \/ ControllerTrackPanic(c, k)))
    /\ WF_vars(NetworkTakes(c))

FairSpec == Spec /\ Fairness

-----------------------------------------------------------------------------
(* Every variable has its type and no channel holds more than one element. *)
TypeOK ==
  /\ BaseTypeOK
  /\ offers \in 0..MaxOffers

(* End signals and sessions never get out of step: one session that has    *)
(* yet to end per unread signal, and one more except while Run is between  *)
(* posting a signal and starting the next session, blocked in its put-back *)
(* included (controller/service.go:394-408).                               *)
ControllerBalanced == \A c \in Controller : Balanced(c)

(* The refinement mapping to SessionSupervisor. *)
Supervisor == INSTANCE SessionSupervisor WITH
  SignalCap <- ChanCap,
  phase <- SupervisorPhase(Self),
  live <- Cardinality(LiveSessions(Self)),
  ending <- Len(chans[Self].WebrtcEndSignal)

(* The controller's Run and sessions do nothing but what SessionSupervisor *)
(* allows, the race of Run and a session for the same offer included       *)
(* (controller/service.go:309, 403).                                       *)
Supervised == Supervisor!Spec

-----------------------------------------------------------------------------
(* Offers in the process, with the sessions that have used one. *)
Held ==
  {m.message : m \in Range(inbox[Self])} \cup Range(chans[Self].RemoteSDPCh)
  \cup {run[Self].sdp} \cup {e.sdp : e \in Range(sess[Self])}

HeldCount ==
  Len(inbox[Self]) + Len(chans[Self].RemoteSDPCh)
  + (IF run[Self].sdp = None THEN 0 ELSE 1)
  + Cardinality({k \in DOMAIN sess[Self] : sess[Self][k].sdp # None})

(* No offer that reached a controller is lost or used twice on its way     *)
(* from the connection through RemoteSDPCh, out of it into Run, back into  *)
(* it, and into a session (base/service.go:152, controller/service.go:309, *)
(* 403-405): each is in exactly one of these places.                       *)
OffersKept ==
  proc[Self] = "up" =>
    /\ {Offer(Peer, n) : n \in 1..offers} \subseteq Held
    /\ HeldCount = offers

(* Run gets past s.RemoteSDPCh <- remoteSDP while no more than two offers  *)
(* have come: one more fills the channel behind its back with nobody left  *)
(* to empty it, and Run waits for ever (controller/service.go:403-405).    *)
PutBackEnds ==
  (run[Self].pc = "putback") ~> (run[Self].pc # "putback" \/ offers > 2)

=============================================================================
