----------------------------- MODULE RoverAlone -----------------------------
(***************************************************************************)
(* The rover process against a network that asks for a session, answers    *)
(* offers and reads the connection whenever it likes.                      *)
(***************************************************************************)
EXTENDS RoverService

CONSTANTS
  Self,        \* the rover whose promise is compared with SessionSupervisor
  MaxRequests  \* bound: SDPReq messages the network delivers

ASSUME RoverAloneAssumption == Self \in Rover /\ MaxRequests \in Nat

VARIABLES
  requests,  \* SDPReq messages delivered so far
  answered   \* the offers that have been answered

vars == <<baseVars, requests, answered>>

Init ==
  /\ BaseInit
  /\ requests = 0
  /\ answered = {}

NetworkTakes(r) ==
  /\ outbox[r] # <<>>
  /\ outbox' = [outbox EXCEPT ![r] = Tail(@)]
  /\ UNCHANGED <<proc, signedIn, chans, inbox, run, sess, requests, answered>>

NetworkGives(r, m) ==
  /\ proc[r] = "up"
  /\ Len(inbox[r]) < SocketCap
  /\ inbox' = [inbox EXCEPT ![r] = Append(@, m)]
  /\ UNCHANGED <<proc, signedIn, chans, outbox, run, sess>>

FromController(type, sdp) ==
  [id |-> 6, from_user |-> 1, messageType |-> type, message |-> sdp]

NetworkAsks(r) ==
  /\ requests < MaxRequests
  /\ NetworkGives(r, FromController("SDPReq", None))
  /\ requests' = requests + 1
  /\ UNCHANGED answered

(* A controller answers an offer at most once. *)
NetworkAnswers(r, s) ==
  /\ <<r, s>> \notin answered
  /\ sess[r][s].stage \notin {"starting", "listening", "offering"}
  /\ \E c \in Controller :
       NetworkGives(r, FromController("SDPExchange", Answer(c, s, Offer(r, s))))
  /\ answered' = answered \cup {<<r, s>>}
  /\ UNCHANGED requests

Next ==
  \E r \in Rover :
    \/ RoverStep(r) /\ UNCHANGED <<requests, answered>>
    \/ NetworkTakes(r)
    \/ NetworkAsks(r)
    \/ \E s \in DOMAIN sess[r] : NetworkAnswers(r, s)

Spec == Init /\ [][Next]_vars

(* Every goroutine that can go on does; the network reads what is written. *)
(* It need not answer, ask, or take any process down.                      *)
Fairness ==
  \A r \in Rover :
    /\ WF_vars(RoverRun(r) /\ UNCHANGED <<requests, answered>>)
    /\ WF_vars(SignIn(r) /\ UNCHANGED <<requests, answered>>)
    /\ WF_vars((SendSDP(r) \/ SendSDPReq(r)) /\ UNCHANGED <<requests, answered>>)
    /\ WF_vars(ServerRecv(r) /\ UNCHANGED <<requests, answered>>)
    /\ WF_vars(\E s \in DOMAIN sess[r] :
                 RoverSessionGoesOn(r, s) /\ UNCHANGED <<requests, answered>>)
    /\ WF_vars(NetworkTakes(r))

FairSpec == Spec /\ Fairness

-----------------------------------------------------------------------------
(* Every variable has its type; no channel of base.Service ever holds more *)
(* than the one element it is made for (base/service.go:53-56).            *)
TypeOK ==
  /\ BaseTypeOK
  /\ requests \in 0..MaxRequests
  /\ answered \subseteq Session

(* End signals and sessions never get out of step, whatever order Run, the *)
(* sessions and the network act in: one session that has yet to end per    *)
(* unread signal, and one more except while Run is about to start it       *)
(* (rover/service.go:372-383 against 147, 151, 177, 308).  In particular   *)
(* no schedule leaves the rover without a session, or a signal nobody will *)
(* read.                                                                   *)
RoverBalanced == \A r \in Rover : Balanced(r)

(* The refinement mapping to SessionSupervisor. *)
Supervisor == INSTANCE SessionSupervisor WITH
  SignalCap <- ChanCap,
  phase <- SupervisorPhase(Self),
  live <- Cardinality(LiveSessions(Self)),
  ending <- Len(chans[Self].WebrtcEndSignal)

(* Run of the rover and its webrtc goroutines, with everything between     *)
(* them, do nothing but what SessionSupervisor allows: sessions start one  *)
(* at a time, each but the first after one signal, and a session ends only *)
(* by reading a signal (rover/service.go:353-385).                         *)
Supervised == Supervisor!Spec

(* However renegotiations overlap, once the network stops asking the rover *)
(* ends with exactly one session, no signal left over and Run listening    *)
(* for the next request.  A session still waiting for its answer must be   *)
(* able to end, or old sessions pile up (rover/service.go:146-160).        *)
Settles ==
  \A r \in Rover :
    <>[](proc[r] = "up" => /\ Cardinality(UnclosedSessions(r)) = 1
                          /\ chans[r].WebrtcEndSignal = <<>>
                          /\ run[r].pc = "select")

(* A webrtcGstreamerCli rover that loses its process to port 5004 loses it *)
(* while a session that holds the port is being ended: an end signal is    *)
(* unread, or its reader is still closing (rover/service.go:220-228, 279,  *)
(* 307-316).  Without a renegotiation in progress no session is started    *)
(* that could find the port taken.                                         *)
DiesOnlyWhileEnding ==
  [][\A r \in Rover \ MayExit :
       proc[r] = "up" /\ proc'[r] = "down" =>
         \/ chans[r].WebrtcEndSignal # <<>>
         \/ \E s \in DOMAIN sess[r] : StageIs(r, s, "closing")]_vars

(* What the log line "webrtc exit signal got, restart webrtc" says of a    *)
(* request for a new session (rover/service.go:309): it restarts webrtc,   *)
(* it does not end the process.                                            *)
RestartKeepsProcess == \A r \in Rover : proc[r] # "down"

=============================================================================
