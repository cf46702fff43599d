----------------------------- MODULE RelayAlone -----------------------------
(***************************************************************************)
(* The relay server with clients that sign in, sign off, send to each      *)
(* other, read and go away as they like.  Their messages are numbered per  *)
(* connection.                                                             *)
(***************************************************************************)
EXTENDS RelayServer, Functions

CONSTANT MaxSends   \* bound: messages one connection sends

ASSUME RelayAloneAssumption == MaxSends \in Nat

VARIABLES
  sent,     \* messages each connection has sent
  got,      \* what each connection has read, in order
  notices,  \* "is offline" replies each connection has read
  left      \* users of which some connection has signed off or ended

vars == <<baseVars, relayVars, sent, got, notices, left>>

Init ==
  /\ BaseInit
  /\ RelayInit
  /\ sent = [c \in Client |-> 0]
  /\ got = [c \in Client |-> <<>>]
  /\ notices = [c \in Client |-> 0]
  /\ left = {}

ClientStarts(c) ==
  /\ Boot(c, NoChans)
  /\ UNCHANGED <<relayVars, sent, got, notices, left>>

ClientSignsIn(c) ==
  /\ SignIn(c)
  /\ UNCHANGED <<relayVars, sent, got, notices, left>>

ClientSends(c) ==
  /\ proc[c] = "up"
  /\ sent[c] < MaxSends
  /\ sent' = [sent EXCEPT ![c] = @ + 1]
  /\ Write(c, SendMsg(c, "SDPExchange", Offer(c, sent'[c])))
  /\ UNCHANGED <<proc, signedIn, chans, inbox, run, sess, relayVars, got, notices, left>>

(* No program of the repository sends message 3; the handler is there.     *)
ClientSignsOff(c) ==
  /\ proc[c] = "up"
  /\ signedIn[c]
  /\ Id(c) \notin left
  /\ Write(c, [id |-> 3])
  /\ left' = left \cup {Id(c)}
  /\ UNCHANGED <<proc, signedIn, chans, inbox, run, sess, relayVars, sent, got, notices>>

ClientReads(c) ==
  /\ Receive(c)
  /\ LET m == Head(inbox[c]) IN
       /\ got' = [got EXCEPT ![c] = IF m.id = 6 THEN Append(@, m) ELSE @]
       /\ notices' = [notices EXCEPT ![c] = IF m.id = 200 THEN @ + 1 ELSE @]
  /\ UNCHANGED <<chans, relayVars, sent, left>>

ClientEnds(c) ==
  /\ Exit(c)
  /\ left' = left \cup {Id(c)}
  /\ UNCHANGED <<relayVars, sent, got, notices>>

Handler(c) == RelayStep(c) /\ UNCHANGED <<sent, got, notices, left>>

Next ==
  \E c \in Client :
    \/ ClientStarts(c)
    \/ ClientSignsIn(c)
    \/ ClientSends(c)
    \/ ClientSignsOff(c)
    \/ ClientReads(c)
    \/ ClientEnds(c)
    \/ Handler(c)

Spec == Init /\ [][Next]_vars

(* The library serves every connection.  A client owes no reading: its     *)
(* ServerRecv may stay blocked handing on what it has read, for ever       *)
(* (base/service.go:152, 154).                                             *)
FairSpec == Spec /\ \A c \in Client : WF_vars(Handler(c))

-----------------------------------------------------------------------------
(* Every variable has its type. *)
TypeOK ==
  /\ BaseTypeOK
  /\ pool \in [User -> Client \cup {None}]
  /\ handling \in [Client -> ToServer \cup {None}]
  /\ sent \in [Client -> 0..MaxSends]
  /\ got \in [Client -> Seq(FromServer)]
  /\ notices \in [Client -> Nat]
  /\ left \subseteq User

(* The numbers of the messages of c in a sequence. *)
Numbers(q, c) ==
  LET mine == {i \in DOMAIN q : q[i].id \in {5, 6} /\ q[i].message.from[1] = c}
  IN  {q[i].message.from[2] : i \in mine}

InHand(c) == IF handling[c] = None THEN {} ELSE {handling[c].message.from[2]}

Waiting(c) == Numbers(outbox[c], c) \cup InHand(c)

DeliveredTo(d, c) == Numbers(inbox[d], c) \cup Numbers(got[d], c)

Delivered(c) == UNION {DeliveredTo(d, c) : d \in Client}

(* The sends of c that are nowhere any more. *)
Gone(c) == (1..sent[c]) \ (Waiting(c) \cup Delivered(c))

Reported(c) ==
  notices[c] + Cardinality({i \in DOMAIN inbox[c] : inbox[c][i].id = 200})

(* No message is both delivered and still to be delivered, or delivered to *)
(* two connections.  And while no connection of the recipient has gone,    *)
(* every message that is neither waiting nor delivered has been reported   *)
(* back as undeliverable, each once: the relay loses none and repeats none *)
(* (server/service.go:101-122).                                            *)
Accounted ==
  \A c \in Client :
    /\ Waiting(c) \cap Delivered(c) = {}
    /\ \A d, e \in Client : d # e => DeliveredTo(d, c) \cap DeliveredTo(e, c) = {}
    /\ proc[c] = "up" /\ RemoteId(c) \notin left => Cardinality(Gone(c)) = Reported(c)

(* A recipient reads the messages of one sender in the order they were     *)
(* sent and none twice, whatever goes offline in between: an answer never  *)
(* overtakes an earlier one (server/service.go:86-123).                    *)
InOrder ==
  \A d \in Client : \A i, j \in DOMAIN got[d] :
    i < j /\ got[d][i].message.from[1] = got[d][j].message.from[1]
      => got[d][i].message.from[2] < got[d][j].message.from[2]

(* The connections that the handler of c writes to. *)
Recipients(c) == {d \in Client : d = c \/ Id(d) = RemoteId(c)}

MakesRoom(d) == Len(inbox[d]) < SocketCap \/ proc[d] # "up"

(* The handlers of a user's messages wait for nobody but the connections   *)
(* they write to: as long as the sender and its recipients make room again *)
(* and again, everything the sender has written is handled in the end,     *)
(* though other clients may have stopped reading for good                  *)
(* (base/service.go:152) and their handlers wait for ever                  *)
(* (server/service.go:86-123).                                             *)
Drains ==
  \A c \in Client :
    (\A d \in Recipients(c) : []<>MakesRoom(d))
      => <>[](outbox[c] = <<>> /\ handling[c] = None)

=============================================================================
