----------------------------- MODULE HomeRover -----------------------------
(***************************************************************************)
(* The system: rover and controller processes whose connections end in one *)
(* relay server.  The server process itself does not restart: if it ends,  *)
(* every client sees a read error and exits, which is Exit.                *)
(***************************************************************************)
EXTENDS RoverService, ControllerService, RelayServer

vars == <<baseVars, relayVars>>

Init == BaseInit /\ RelayInit

Rovers == \E r \in Rover : RoverStep(r) /\ UNCHANGED relayVars

Controllers == \E c \in Controller : ControllerStep(c) /\ UNCHANGED relayVars

Relay == \E d \in Client : Serve(d)

Next == Rovers \/ Controllers \/ Relay

Spec == Init /\ [][Next]_vars

(***************************************************************************)
(* Every goroutine that can go on does.  Two goroutines wait on the        *)
(* rover's SDPReqCh, Run and Send; Go serves the waiters of a channel in   *)
(* the order they came, so Run is not passed over for ever.  A select of   *)
(* which several cases are ready takes one at random, so the rover's Send, *)
(* which waits on SendCh and SDPReqCh, does not pass over a case that is   *)
(* ready again and again.  Both are strong fairness, stated for all rovers *)
(* together because at most one is up at a time.  Starting a process, its  *)
(* exit, the arrival of a remote track, the packets of gst-launch and the  *)
(* loss of ICE are up to the outside and carry no fairness.                *)
(***************************************************************************)
Own(A) == A /\ UNCHANGED relayVars

Goroutines(d) ==
  /\ WF_vars(Own(SignIn(d)))
  /\ WF_vars(Own(SendSDP(d) \/ SendSDPReq(d)))
  /\ WF_vars(Own(ServerRecv(d)))
  /\ WF_vars(Serve(d))

Fairness ==
  /\ \A d \in Client : Goroutines(d)
  /\ SF_vars(Own(\E r \in Rover : RoverRunRequest(r)))
  /\ SF_vars(Own(\E r \in Rover : SendSDP(r)))
  /\ \A r \in Rover :
       /\ WF_vars(Own(RoverRun(r)))
       /\ WF_vars(Own(\E s \in DOMAIN sess[r] : RoverSessionGoesOn(r, s)))
  /\ \A c \in Controller :
       /\ WF_vars(Own(ControllerRun(c)))
       /\ WF_vars(Own(\E k \in DOMAIN sess[c] :
                        \/ ControllerTakeOffer(c, k)
                        \/ ControllerAnswer(c, k)
                        \/ ControllerEnd(c, k)
                        \/ ControllerTrackPanic(c, k)))

FairSpec == Spec /\ Fairness

-----------------------------------------------------------------------------
(* Every variable of the system has its type. *)
TypeOK ==
  /\ BaseTypeOK
  /\ pool \in [User -> Client \cup {None}]
  /\ handling \in [Client -> ToServer \cup {None}]

(* In both programs at once, over the relay and under every schedule, one  *)
(* session that has yet to end per unread end signal, and one more except  *)
(* while Run is about to start it (rover/service.go:372-383,               *)
(* controller/service.go:394-408).                                         *)
ClientsBalanced == \A d \in Client : Balanced(d)

-----------------------------------------------------------------------------
(* Where the requests for a session are, and what came of them. *)

IsReq(m) == m.id \in {5, 6} /\ m.messageType = "SDPReq"

ReqsIn(q) == Cardinality({i \in DOMAIN q : IsReq(q[i])})

ReqsAt(d) ==
  Len(chans[d].SDPReqCh) + ReqsIn(outbox[d]) + ReqsIn(inbox[d])
  + (IF handling[d] # None /\ IsReq(handling[d]) THEN 1 ELSE 0)

(* The times Run of rover r has taken a request. *)
Renegotiations(r) ==
  IF sess[r] = <<>> THEN 0
  ELSE Len(sess[r]) - (IF run[r].pc = "select" THEN 1 ELSE 0)

(* The requests that are with d, and those its Run has taken. *)
Requests(d) == ReqsAt(d) + (IF d \in Rover THEN Renegotiations(d) ELSE 0)

Started == {c \in Controller : proc[c] # "off"}

(* Every session a rover gives up is paid for by a controller that was     *)
(* started.  Send takes requests that Run should have had, returns them to *)
(* the other side and gets them back (base/service.go:77, 154); passing    *)
(* them to and fro never makes two of one.  (The set has the requests of   *)
(* each process, numbered.)                                                *)
RequestBudget ==
  Cardinality(UNION {{d} \X (1..Requests(d)) : d \in Client}) <= Cardinality(Started)

(* ServerRecv of d has an SDP in hand that it cannot put into RemoteSDPCh: *)
(* it reads nothing further, and what is behind the SDP stays in the       *)
(* connection.                                                             *)
Choked(d) ==
  /\ proc[d] = "up"
  /\ inbox[d] # <<>>
  /\ Head(inbox[d]).id = 6
  /\ Head(inbox[d]).messageType = "SDPExchange"
  /\ Len(chans[d].RemoteSDPCh) = ChanCap

(* A request that Send keeps returning does not go round for ever while    *)
(* both sides run: Run of the rover takes it in the end                    *)
(* (rover/service.go:378-379 against base/service.go:74-79).  Only a       *)
(* process that is choked for good, by an SDP that no session and no Run   *)
(* will take, can keep one waiting behind that SDP (base/service.go:152,   *)
(* controller/service.go:399, rover/service.go:146, 176).                  *)
RequestsSettle ==
  <>[](\/ \A d \in Client : proc[d] = "up" => ReqsAt(d) = 0
       \/ \E d \in Client : Choked(d))

-----------------------------------------------------------------------------
(* Where session descriptions are. *)

(* Each place in and around client d as a sequence, with None for what is  *)
(* no session description.                                                 *)
Letters(q) == [i \in DOMAIN q |-> IF q[i].id \in {5, 6} THEN q[i].message ELSE None]

SDPsAt(d) ==
  [SendCh      |-> chans[d].SendCh,
   RemoteSDPCh |-> chans[d].RemoteSDPCh,
   outbox      |-> Letters(outbox[d]),
   inbox       |-> Letters(inbox[d]),
   handling    |-> IF handling[d] = None THEN <<>> ELSE <<handling[d].message>>,
   run         |-> <<run[d].sdp>>,
   sess        |-> [s \in DOMAIN sess[d] |-> sess[d][s].sdp]]

Place == {"SendCh", "RemoteSDPCh", "outbox", "inbox", "handling", "run", "sess"}

(* The spots that hold one. *)
SDPSpots ==
  UNION {{<<d, p, i>> : i \in {j \in DOMAIN SDPsAt(d)[p] : SDPsAt(d)[p][j] # None}} :
         d \in Client, p \in Place}

(* A session description exists once, from the session that makes it,      *)
(* through Send, the relay, ServerRecv and the hands of Run to the one     *)
(* session that applies it: no offer is answered twice and no answer       *)
(* applied twice, by whichever of the waiting goroutines gets it           *)
(* (rover/service.go:143-147, base/service.go:75, 152, server/service.go:  *)
(* 103, controller/service.go:137, 403-405).                               *)
OneCopy ==
  \A l, m \in SDPSpots :
    SDPsAt(l[1])[l[2]][l[3]] = SDPsAt(m[1])[m[2]][m[3]] => l = m

-----------------------------------------------------------------------------
(* The two ends of a connection. *)

Registered(d) == proc[d] = "up" /\ pool[Id(d)] = d

Paired(r, c) ==
  \E s \in LiveSessions(r), k \in LiveSessions(c) :
    /\ sess[r][s].sdp = Answer(c, k, Offer(r, s))
    /\ sess[c][k].sdp = Offer(r, s)

(* A session that has been given the answer to an earlier session's offer. *)
Misled(r) ==
  \E s \in LiveSessions(r) :
    sess[r][s].sdp # None /\ sess[r][s].sdp.re # <<r, s>>

(* A rover and a controller that stay online are connected in the end, a   *)
(* new controller taking over from one that ended included.  Only two      *)
(* races prevent it: a second offer that finds the controller already      *)
(* answering stays in its RemoteSDPCh, and an answer that comes after its  *)
(* session has been ended is applied by the next one                       *)
(* (controller/service.go:137, 398-403, rover/service.go:146-164).         *)
Meets ==
  \A r \in Rover, c \in Controller :
    <>[](Registered(r) /\ Registered(c)
           => \/ Paired(r, c)
              \/ chans[c].RemoteSDPCh # <<>>
              \/ Misled(r))

(* A session is misled by the past only: the answer it was given is for a  *)
(* session that Run had ended before, of this process or of an earlier one *)
(* (rover/service.go:147, 378-382).                                        *)
MisledByThePast ==
  \A r \in Rover : \A s \in DOMAIN sess[r] :
    LET re == sess[r][s].sdp.re IN
    sess[r][s].sdp # None /\ re # <<r, s>> =>
      \/ re[1] # r
      \/ /\ re[2] < s
         /\ sess[r][re[2]].stage = "closed"

(* What the log line "got new SDP, webrtc will restart" says               *)
(* (controller/service.go:160): an offer that reaches a controller which   *)
(* is serving a session makes it start another.                            *)
NewSDPRestarts ==
  \A c \in Controller :
    (chans[c].RemoteSDPCh # <<>> /\ StageIs(c, 1, "serving"))
      ~> (proc[c] = "down" \/ Len(sess[c]) > 1)

=============================================================================
