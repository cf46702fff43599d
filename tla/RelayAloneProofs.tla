-------------------------- MODULE RelayAloneProofs --------------------------
(***************************************************************************)
(* Theorems about the relay, for any number of clients and messages and    *)
(* any capacity of the connections.                                        *)
(***************************************************************************)
EXTENDS RelayAlone, ServiceProofs, SequenceTheorems

(***************************************************************************)
(* The numbers of one sender in a sequence of messages.                    *)
(***************************************************************************)
NumberOf(m, c) ==
  IF m.id \in {5, 6} /\ m.message.from[1] = c THEN {m.message.from[2]} ELSE {}

Rising(q, c) ==
  \A i, j \in DOMAIN q :
    /\ i < j
    /\ q[i].id \in {5, 6} /\ q[i].message.from[1] = c
    /\ q[j].id \in {5, 6} /\ q[j].message.from[1] = c
    => q[i].message.from[2] < q[j].message.from[2]

Below(A, B) == \A a \in A, b \in B : a < b

LEMMA NumbersNone ==
  ASSUME NEW c
  PROVE  Numbers(<<>>, c) = {} /\ Rising(<<>>, c)
BY DEF Numbers, Rising

LEMMA NumbersAppend ==
  ASSUME NEW c, NEW S, NEW q \in Seq(S), NEW m \in S
  PROVE  /\ Numbers(Append(q, m), c) = Numbers(q, c) \cup NumberOf(m, c)
         /\ Rising(q, c) /\ Below(Numbers(q, c), NumberOf(m, c)) => Rising(Append(q, m), c)
<1> DEFINE r == Append(q, m)
           n == Len(q)
<1>1. /\ n \in Nat /\ DOMAIN q = 1..n /\ DOMAIN r = 1..(n + 1)
      /\ \A i \in 1..n : r[i] = q[i]
      /\ r[n + 1] = m
  OBVIOUS
<1> HIDE DEF r, n
<1>2. \A i \in DOMAIN r : i = n + 1 \/ i \in DOMAIN q
  BY <1>1
<1>3. n + 1 \in DOMAIN r /\ DOMAIN q \subseteq DOMAIN r
  BY <1>1
<1>4. Numbers(r, c) = Numbers(q, c) \cup NumberOf(m, c)
  <2>1. ASSUME NEW v \in Numbers(r, c) PROVE v \in Numbers(q, c) \cup NumberOf(m, c)
    <3>1. PICK i \in DOMAIN r : /\ r[i].id \in {5, 6} /\ r[i].message.from[1] = c
                                /\ v = r[i].message.from[2]
      BY <2>1 DEF Numbers
    <3> QED
      BY <1>1, <1>2, <3>1 DEF Numbers, NumberOf
  <2>2. ASSUME NEW v \in Numbers(q, c) PROVE v \in Numbers(r, c)
    <3>1. PICK i \in DOMAIN q : /\ q[i].id \in {5, 6} /\ q[i].message.from[1] = c
                                /\ v = q[i].message.from[2]
      BY <2>2 DEF Numbers
    <3> QED
      BY <1>1, <1>3, <3>1 DEF Numbers
  <2>3. ASSUME NEW v \in NumberOf(m, c) PROVE v \in Numbers(r, c)
    BY <1>1, <1>3, <2>3 DEF Numbers, NumberOf
  <2> QED
    BY <2>1, <2>2, <2>3
<1>5. ASSUME Rising(q, c), Below(Numbers(q, c), NumberOf(m, c))
      PROVE  Rising(r, c)
  <2> SUFFICES ASSUME NEW i \in DOMAIN r, NEW j \in DOMAIN r, i < j,
                      r[i].id \in {5, 6}, r[i].message.from[1] = c,
                      r[j].id \in {5, 6}, r[j].message.from[1] = c
               PROVE  r[i].message.from[2] < r[j].message.from[2]
    BY DEF Rising
  <2>1. i \in DOMAIN q /\ r[i] = q[i]
    BY <1>1
  <2>2. CASE j \in DOMAIN q
    BY <1>1, <1>5, <2>1, <2>2 DEF Rising
  <2>3. CASE j = n + 1
    <3>1. r[i].message.from[2] \in Numbers(q, c)
      BY <2>1 DEF Numbers
    <3>2. r[j].message.from[2] \in NumberOf(m, c)
      BY <1>1, <2>3 DEF NumberOf
    <3> QED
      BY <1>5, <3>1, <3>2 DEF Below
  <2> QED
    BY <1>2, <2>2, <2>3
<1> QED
  BY <1>4, <1>5 DEF r

LEMMA NumbersTail ==
  ASSUME NEW c, NEW S, NEW q \in Seq(S), q # <<>>
  PROVE  /\ Numbers(q, c) = NumberOf(Head(q), c) \cup Numbers(Tail(q), c)
         /\ Rising(q, c) =>
              /\ Rising(Tail(q), c)
              /\ Below(NumberOf(Head(q), c), Numbers(Tail(q), c))
<1> DEFINE r == Tail(q)
           n == Len(q)
<1>1. /\ n \in Nat \ {0} /\ DOMAIN q = 1..n /\ DOMAIN r = 1..(n - 1) /\ Head(q) = q[1]
      /\ \A i \in 1..(n - 1) : r[i] = q[i + 1]
  OBVIOUS
<1> HIDE DEF r, n
<1>2. /\ \A i \in DOMAIN r : i + 1 \in DOMAIN q /\ r[i] = q[i + 1] /\ 1 < i + 1
      /\ \A i \in DOMAIN q : i = 1 \/ (i - 1 \in DOMAIN r /\ q[i] = r[i - 1])
      /\ 1 \in DOMAIN q
      /\ \A i, j \in DOMAIN r : i < j => i + 1 < j + 1
  BY <1>1
<1>3. Numbers(q, c) = NumberOf(Head(q), c) \cup Numbers(r, c)
  <2>1. ASSUME NEW v \in Numbers(q, c) PROVE v \in NumberOf(Head(q), c) \cup Numbers(r, c)
    <3>1. PICK i \in DOMAIN q : /\ q[i].id \in {5, 6} /\ q[i].message.from[1] = c
                                /\ v = q[i].message.from[2]
      BY <2>1 DEF Numbers
    <3>2. CASE i = 1
      BY <1>1, <3>1, <3>2 DEF NumberOf
    <3>3. CASE i # 1
      BY <1>2, <3>1, <3>3 DEF Numbers
    <3> QED
      BY <3>2, <3>3
  <2>2. ASSUME NEW v \in Numbers(r, c) PROVE v \in Numbers(q, c)
    <3>1. PICK i \in DOMAIN r : /\ r[i].id \in {5, 6} /\ r[i].message.from[1] = c
                                /\ v = r[i].message.from[2]
      BY <2>2 DEF Numbers
    <3> QED
      BY <1>2, <3>1 DEF Numbers
  <2>3. ASSUME NEW v \in NumberOf(Head(q), c) PROVE v \in Numbers(q, c)
    BY <1>1, <1>2, <2>3 DEF Numbers, NumberOf
  <2> QED
    BY <2>1, <2>2, <2>3
<1>4. ASSUME Rising(q, c) PROVE Rising(r, c)
  BY <1>2, <1>4 DEF Rising
<1>5. ASSUME Rising(q, c) PROVE Below(NumberOf(Head(q), c), Numbers(r, c))
  <2> SUFFICES ASSUME NEW a \in NumberOf(Head(q), c), NEW b \in Numbers(r, c) PROVE a < b
    BY DEF Below
  <2>1. PICK j \in DOMAIN r : /\ r[j].id \in {5, 6} /\ r[j].message.from[1] = c
                              /\ b = r[j].message.from[2]
    BY DEF Numbers
  <2>2. q[1].id \in {5, 6} /\ q[1].message.from[1] = c /\ a = q[1].message.from[2]
    BY <1>1 DEF NumberOf
  <2> QED
    BY <1>2, <1>5, <2>1, <2>2 DEF Rising
<1> QED
  BY <1>3, <1>4, <1>5 DEF r

LEMMA NumbersPrefix ==
  ASSUME NEW c, NEW S, NEW q \in Seq(S), NEW n \in 0..Len(q)
  PROVE  /\ Numbers(SubSeq(q, 1, n), c) \subseteq Numbers(q, c)
         /\ Rising(q, c) => Rising(SubSeq(q, 1, n), c)
<1> DEFINE r == SubSeq(q, 1, n)
<1>1. DOMAIN r \subseteq DOMAIN q /\ \A i \in DOMAIN r : r[i] = q[i]
  OBVIOUS
<1> HIDE DEF r
<1>2. Numbers(r, c) \subseteq Numbers(q, c)
  <2> SUFFICES ASSUME NEW v \in Numbers(r, c) PROVE v \in Numbers(q, c)
    OBVIOUS
  <2>1. PICK i \in DOMAIN r : /\ r[i].id \in {5, 6} /\ r[i].message.from[1] = c
                              /\ v = r[i].message.from[2]
    BY DEF Numbers
  <2> QED
    BY <1>1, <2>1 DEF Numbers
<1>3. ASSUME Rising(q, c) PROVE Rising(r, c)
  BY <1>1, <1>3 DEF Rising
<1> QED
  BY <1>2, <1>3 DEF r

(***************************************************************************)
(* Where messages come from.  What c has written and the relay has not yet *)
(* delivered is from c and for the users opposite; what lies before d is   *)
(* from the users opposite.                                                *)
(***************************************************************************)
Mine(c) ==
  [id : {1, 3}]
  \cup [id : {5}, to_user : {RemoteId(c)}, messageType : {"SDPExchange"},
        message : {x \in SDP : x.from[1] = c}]

For(d) ==
  [id : {200}]
  \cup [id : {6}, from_user : User, messageType : {"SDPExchange"},
        message : {x \in SDP : RemoteId(x.from[1]) = Id(d)}]

Origin(c) ==
  /\ outbox[c] \in Seq(Mine(c))
  /\ handling[c] \in {None} \cup {m \in Mine(c) : m.id = 5}
  /\ inbox[c] \in Seq(For(c))
  /\ got[c] \in Seq({m \in For(c) : m.id = 6})

Typed ==
  /\ BaseTypeOK
  /\ RelayTypeOK
  /\ sent \in [Client -> 0..MaxSends]
  /\ got \in [Client -> Seq(FromServer)]
  /\ notices \in [Client -> Nat]
  /\ left \subseteq User
  /\ \A c \in Client : Origin(c)

(* Who is registered, and who has left. *)
Life ==
  /\ \A c \in Client :
       /\ proc[c] = "off" => outbox[c] = <<>>
       /\ proc[c] = "down" => Id(c) \in left
       /\ Id(c) \in left \/ outbox[c] \in Seq({m \in Mine(c) : m.id # 3})
       /\ handling[c] # None => pool[RemoteId(c)] # None \/ RemoteId(c) \in left
  /\ \A u \in User : pool[u] # None => Id(pool[u]) = u /\ proc[pool[u]] # "off"

(* The way of the messages of c: written, in hand, before a recipient,     *)
(* read.  Each place holds later messages than the next one.               *)
Lined(c) ==
  /\ Rising(outbox[c], c)
  /\ \A d \in Client : Rising(inbox[d], c) /\ Rising(got[d], c)

Placed(c) ==
  /\ Below(InHand(c), Numbers(outbox[c], c))
  /\ \A n \in Waiting(c) : n <= sent[c]
  /\ \A d \in Client :
       /\ Below(Numbers(got[d], c), Numbers(inbox[d], c))
       /\ Below(DeliveredTo(d, c), Waiting(c))
       /\ \A n \in DeliveredTo(d, c) : n <= sent[c]
  /\ \A d, e \in Client : d # e => DeliveredTo(d, c) \cap DeliveredTo(e, c) = {}

Account(c) ==
  proc[c] # "down" /\ RemoteId(c) \notin left => Cardinality(Gone(c)) = Reported(c)

RelayInv ==
  /\ Typed
  /\ Life
  /\ \A c \in Client : Lined(c) /\ Placed(c) /\ Account(c)

-----------------------------------------------------------------------------
LEMMA MineType ==
  ASSUME NEW c \in Client, NEW m \in Mine(c)
  PROVE  /\ m \in ToServer
         /\ m.id \in {1, 3, 5}
         /\ m.id = 5 => /\ m \in Sends /\ m.to_user = RemoteId(c)
                        /\ NumberOf(m, c) = {m.message.from[2]}
                        /\ m.message.from[2] \in Nat \ {0}
         /\ m.id # 5 => NumberOf(m, c) = {}
         /\ NumberOf(m, c) \subseteq Nat \ {0}
<1>1. CASE m \in [id : {1, 3}]
  BY <1>1 DEF ToServer, NumberOf
<1>2. CASE m \in [id : {5}, to_user : {RemoteId(c)}, messageType : {"SDPExchange"},
                  message : {x \in SDP : x.from[1] = c}]
  <2>1. RemoteId(c) \in User
    BY DEF RemoteId, User
  <2>2. /\ m.id = 5 /\ m.to_user = RemoteId(c) /\ m.message \in SDP
        /\ m.message.from[1] = c
    BY <1>2
  <2>3. m \in ToServer
    BY <1>2, <2>1 DEF ToServer
  <2>4. m.message.from[2] \in Nat \ {0}
    BY <2>2 DEF SDP, Session
  <2> QED
    BY <2>2, <2>3, <2>4 DEF NumberOf, Sends
<1> QED
  BY <1>1, <1>2 DEF Mine

LEMMA ForType ==
  ASSUME NEW d \in Client, NEW m \in For(d), NEW c \in Client
  PROVE  /\ m \in FromServer
         /\ m.id \in {6, 200}
         /\ m.id = 200 => NumberOf(m, c) = {}
         /\ RemoteId(c) # Id(d) => NumberOf(m, c) = {}
         /\ NumberOf(m, c) \subseteq Nat \ {0}
<1>1. CASE m \in [id : {200}]
  BY <1>1 DEF FromServer, NumberOf
<1>2. CASE m \in [id : {6}, from_user : User, messageType : {"SDPExchange"},
                  message : {x \in SDP : RemoteId(x.from[1]) = Id(d)}]
  <2>1. m.id = 6 /\ m.message \in SDP /\ RemoteId(m.message.from[1]) = Id(d)
    BY <1>2
  <2>2. m \in FromServer
    BY <1>2 DEF FromServer
  <2>3. m.message.from[2] \in Nat \ {0}
    BY <2>1 DEF SDP, Session
  <2> QED
    BY <2>1, <2>2, <2>3 DEF NumberOf
<1> QED
  BY <1>1, <1>2 DEF For

LEMMA ForwardedMine ==
  ASSUME NEW c \in Client, NEW m \in Mine(c), m.id = 5,
         NEW d \in Client, Id(d) = RemoteId(c)
  PROVE  /\ Forwarded(m) \in For(d) /\ Forwarded(m).id = 6
         /\ NumberOf(Forwarded(m), c) = {m.message.from[2]}
         /\ \A s \in Client \ {c} : NumberOf(Forwarded(m), s) = {}
<1>1. /\ m.to_user \in User /\ m.messageType = "SDPExchange" /\ m.message \in SDP
      /\ m.message.from[1] = c
  BY DEF Mine, RemoteId, User
<1> QED
  BY <1>1 DEF Forwarded, For, NumberOf

LEMMA NumbersIn ==
  ASSUME NEW c, NEW S, NEW q \in Seq(S), NEW T, \A m \in S : NumberOf(m, c) \subseteq T
  PROVE  Numbers(q, c) \subseteq T
<1> SUFFICES ASSUME NEW v \in Numbers(q, c) PROVE v \in T
  OBVIOUS
<1>1. PICK i \in DOMAIN q : /\ q[i].id \in {5, 6} /\ q[i].message.from[1] = c
                            /\ v = q[i].message.from[2]
  BY DEF Numbers
<1>2. q[i] \in S
  OBVIOUS
<1> QED
  BY <1>1, <1>2 DEF NumberOf

(* The numbers are numbers, and reach only those they are for. *)
LEMMA NumbersType ==
  ASSUME Typed, NEW c \in Client
  PROVE  /\ Numbers(outbox[c], c) \subseteq Nat \ {0}
         /\ InHand(c) \subseteq Nat \ {0}
         /\ \A d \in Client :
              /\ Numbers(inbox[d], c) \subseteq Nat \ {0}
              /\ Numbers(got[d], c) \subseteq Nat \ {0}
              /\ RemoteId(c) # Id(d) => Numbers(inbox[d], c) = {}
<1>1. Origin(c)
  BY DEF Typed
<1>2. Numbers(outbox[c], c) \subseteq Nat \ {0}
  BY <1>1, MineType, NumbersIn DEF Origin
<1>3. InHand(c) \subseteq Nat \ {0}
  BY <1>1, MineType DEF Origin, InHand
<1>4. ASSUME NEW d \in Client
      PROVE  /\ Numbers(inbox[d], c) \subseteq Nat \ {0}
             /\ Numbers(got[d], c) \subseteq Nat \ {0}
             /\ RemoteId(c) # Id(d) => Numbers(inbox[d], c) = {}
  <2>1. inbox[d] \in Seq(For(d)) /\ got[d] \in Seq({m \in For(d) : m.id = 6})
    BY DEF Typed, Origin
  <2>2. \A m \in For(d) : /\ NumberOf(m, c) \subseteq Nat \ {0}
                          /\ RemoteId(c) # Id(d) => NumberOf(m, c) \subseteq {}
    BY ForType
  <2>3. Numbers(inbox[d], c) \subseteq Nat \ {0}
    BY <2>1, <2>2, NumbersIn
  <2>4. Numbers(got[d], c) \subseteq Nat \ {0}
    <3>1. \A m \in {x \in For(d) : x.id = 6} : NumberOf(m, c) \subseteq Nat \ {0}
      BY <2>2
    <3> QED
      BY <2>1, <3>1, NumbersIn
  <2>5. ASSUME RemoteId(c) # Id(d) PROVE Numbers(inbox[d], c) \subseteq {}
    <3> DEFINE T == {}
    <3>1. \A m \in For(d) : NumberOf(m, c) \subseteq T
      BY <2>2, <2>5
    <3> HIDE DEF T
    <3>2. Numbers(inbox[d], c) \subseteq T
      BY <2>1, <3>1, NumbersIn
    <3> QED
      BY <3>2 DEF T
  <2> QED
    BY <2>3, <2>4, <2>5
<1> QED
  BY <1>2, <1>3, <1>4

(***************************************************************************)
(* Types and origins.                                                      *)
(***************************************************************************)
LEMMA TypedInit == ASSUME Init PROVE Typed
<1>1. NoRun \in [pc : RunPc, sdp : SDP \cup {None}]
  BY DEF NoRun, RunPc
<1>2. BaseTypeOK
  BY <1>1, NoChansType DEF Init, BaseInit, BaseTypeOK
<1>3. 0 \in 0..MaxSends
  BY RelayAloneAssumption
<1> QED
  BY <1>2, <1>3 DEF Init, BaseInit, RelayInit, Typed, RelayTypeOK, Origin

LEMMA OffersMine ==
  ASSUME NEW c \in Client, NEW n \in Nat \ {0}
  PROVE  /\ SendMsg(c, "SDPExchange", Offer(c, n)) \in Mine(c)
         /\ SendMsg(c, "SDPExchange", Offer(c, n)).id = 5
         /\ SendMsg(c, "SDPExchange", Offer(c, n)).message.from[2] = n
<1>1. Offer(c, n) \in SDP /\ Offer(c, n).from = <<c, n>>
  BY DEF Offer, SDP, Session
<1> QED
  BY <1>1 DEF SendMsg, Mine

(* The client's own actions. *)
LEMMA TypedClient ==
  ASSUME Typed, NEW c \in Client,
         \/ ClientStarts(c) \/ ClientSignsIn(c) \/ ClientSends(c) \/ ClientSignsOff(c)
         \/ ClientReads(c) \/ ClientEnds(c)
  PROVE  Typed'
<1> USE DEF Typed
<1>0. BaseTypeOK /\ RelayTypeOK /\ \A d \in Client : Origin(d)
  OBVIOUS
<1>w. ASSUME NEW m \in Mine(c), Write(c, m), UNCHANGED <<inbox, got, handling>>
      PROVE  outbox' \in [Client -> Seq(ToServer)] /\ \A d \in Client : Origin(d)'
  <2>1. m \in ToServer
    BY MineType
  <2>2. outbox' \in [Client -> Seq(ToServer)]
    BY <1>w, <2>1, WriteType DEF BaseTypeOK
  <2>3. outbox' = [outbox EXCEPT ![c] = Append(outbox[c], m)]
    BY <1>w DEF Write
  <2>4. outbox[c] \in Seq(Mine(c)) /\ outbox \in [Client -> Seq(ToServer)]
    BY DEF Origin, BaseTypeOK
  <2>5. Append(outbox[c], m) \in Seq(Mine(c))
    BY <2>4
  <2>6. \A d \in Client : outbox'[d] \in Seq(Mine(d))
    BY <2>3, <2>4, <2>5 DEF Origin
  <2> QED
    BY <1>w, <2>2, <2>6 DEF Origin
<1>1. CASE ClientStarts(c)
  BY <1>1, NoChansType DEF ClientStarts, Boot, BaseTypeOK, RelayTypeOK, relayVars, Origin, RunPc
<1>2. CASE ClientSignsIn(c)
  <2>1. [id |-> 1] \in Mine(c)
    BY DEF Mine
  <2> QED
    BY <1>0, <1>2, <1>w, <2>1, SignInStep DEF ClientSignsIn, SignIn, RelayTypeOK, relayVars
<1>3. CASE ClientSends(c)
  <2>1. sent'[c] = sent[c] + 1 /\ sent'[c] \in 1..MaxSends /\ sent' \in [Client -> 0..MaxSends]
    BY <1>3, RelayAloneAssumption DEF ClientSends
  <2>2. sent'[c] \in Nat \ {0}
    BY <2>1, RelayAloneAssumption
  <2>3. SendMsg(c, "SDPExchange", Offer(c, sent'[c])) \in Mine(c)
    BY <2>2, OffersMine
  <2>4. outbox' \in [Client -> Seq(ToServer)] /\ \A d \in Client : Origin(d)'
    BY <1>3, <1>w, <2>3 DEF ClientSends, relayVars
  <2> QED
    BY <1>3, <2>1, <2>4 DEF ClientSends, BaseTypeOK, RelayTypeOK, relayVars
<1>4. CASE ClientSignsOff(c)
  <2>1. [id |-> 3] \in Mine(c)
    BY DEF Mine
  <2>2. outbox' \in [Client -> Seq(ToServer)] /\ \A d \in Client : Origin(d)'
    BY <1>4, <1>w, <2>1 DEF ClientSignsOff, relayVars
  <2> QED
    BY <1>4, <2>2, IdType DEF ClientSignsOff, BaseTypeOK, RelayTypeOK, relayVars
<1>5. CASE ClientReads(c)
  <2>1. inbox[c] \in Seq(FromServer) /\ inbox[c] \in Seq(For(c)) /\ inbox[c] # <<>>
    BY <1>5 DEF BaseTypeOK, Origin, ClientReads, Receive
  <2>2. /\ inbox' \in [Client -> Seq(FromServer)]
        /\ \A d \in Client : inbox'[d] \in Seq(For(d))
    <3>1. Tail(inbox[c]) \in Seq(FromServer) /\ Tail(inbox[c]) \in Seq(For(c))
      BY <2>1
    <3>2. inbox' = [inbox EXCEPT ![c] = Tail(inbox[c])]
      BY <1>5 DEF ClientReads, Receive
    <3> QED
      BY <3>1, <3>2 DEF BaseTypeOK, Origin
  <2> DEFINE m == Head(inbox[c])
             q == IF m.id = 6 THEN Append(got[c], m) ELSE got[c]
  <2>3. m \in FromServer /\ m \in For(c)
    BY <2>1
  <2>4. got' = [got EXCEPT ![c] = q]
    BY <1>5 DEF ClientReads
  <2>5. notices' \in [Client -> Nat]
    BY <1>5 DEF ClientReads
  <2> HIDE DEF m
  <2>6. q \in Seq(FromServer) /\ q \in Seq({x \in For(c) : x.id = 6})
    <3>1. got[c] \in Seq(FromServer) /\ got[c] \in Seq({x \in For(c) : x.id = 6})
      BY DEF Origin
    <3>2. CASE m.id = 6
      BY <2>3, <3>1, <3>2
    <3>3. CASE m.id # 6
      BY <3>1, <3>3
    <3> QED
      BY <3>2, <3>3
  <2> HIDE DEF q
  <2>7. got' \in [Client -> Seq(FromServer)]
    BY <2>4, <2>6
  <2>8. \A d \in Client : got'[d] \in Seq({x \in For(d) : x.id = 6})
    BY <2>4, <2>6 DEF Origin
  <2>9. \A d \in Client : Origin(d)'
    BY <1>5, <2>2, <2>8 DEF ClientReads, Receive, Origin, relayVars
  <2> QED
    BY <1>5, <2>2, <2>5, <2>7, <2>9
    DEF ClientReads, Receive, BaseTypeOK, RelayTypeOK, relayVars
<1>6. CASE ClientEnds(c)
  <2>1. PICK n \in 0..Len(outbox[c]) : outbox' = [outbox EXCEPT ![c] = SubSeq(@, 1, n)]
    BY <1>6 DEF ClientEnds, Exit, Die
  <2>2. outbox[c] \in Seq(ToServer) /\ outbox[c] \in Seq(Mine(c))
    BY DEF BaseTypeOK, Origin
  <2>3. SubSeq(outbox[c], 1, n) \in Seq(ToServer) /\ SubSeq(outbox[c], 1, n) \in Seq(Mine(c))
    BY <2>2
  <2>4. /\ outbox' \in [Client -> Seq(ToServer)]
        /\ \A d \in Client : outbox'[d] \in Seq(Mine(d))
    BY <2>1, <2>3 DEF BaseTypeOK, Origin
  <2>5. NoRun \in [pc : RunPc, sdp : SDP \cup {None}]
    BY DEF NoRun, RunPc
  <2>6. BaseTypeOK'
    BY <1>6, <2>4, <2>5, NoChansType DEF ClientEnds, Exit, Die, BaseTypeOK
  <2>7. inbox' = [inbox EXCEPT ![c] = <<>>] /\ UNCHANGED <<pool, handling, sent, got, notices>>
    BY <1>6 DEF ClientEnds, Exit, Die, relayVars
  <2>8. \A d \in Client : inbox'[d] \in Seq(For(d))
    <3>1. \A d \in Client : inbox[d] \in Seq(For(d))
      BY <1>0 DEF Origin
    <3>2. inbox \in [Client -> Seq(FromServer)] /\ <<>> \in Seq(For(c))
      BY DEF BaseTypeOK
    <3> QED
      BY <2>7, <3>1, <3>2
  <2>9. \A d \in Client : Origin(d)'
    BY <2>4, <2>7, <2>8 DEF Origin
  <2> QED
    BY <1>6, <2>6, <2>7, <2>9, IdType DEF ClientEnds, RelayTypeOK
<1> QED
  BY <1>1, <1>2, <1>3, <1>4, <1>5, <1>6

(* What a handler takes off a connection is of that connection. *)
LEMMA TakenMine ==
  ASSUME Typed, NEW c \in Client, NEW id, Take(c, id)
  PROVE  /\ outbox[c] \in Seq(Mine(c)) /\ outbox[c] # <<>>
         /\ outbox'[c] = Tail(outbox[c]) /\ \A d \in Client \ {c} : outbox'[d] = outbox[d]
         /\ Head(outbox[c]) \in Mine(c) /\ Head(outbox[c]).id = id
         /\ \A d \in Client : outbox'[d] \in Seq(Mine(d))
<1>1. outbox \in [Client -> Seq(ToServer)] /\ \A d \in Client : outbox[d] \in Seq(Mine(d))
  BY DEF Typed, BaseTypeOK, Origin
<1>2. /\ outbox[c] # <<>> /\ Head(outbox[c]).id = id
      /\ outbox'[c] = Tail(outbox[c]) /\ \A d \in Client \ {c} : outbox'[d] = outbox[d]
  BY <1>1 DEF Take
<1>3. Tail(outbox[c]) \in Seq(Mine(c)) /\ Head(outbox[c]) \in Mine(c)
  BY <1>1, <1>2
<1> QED
  BY <1>1, <1>2, <1>3

(* A message delivered to d comes before d's connection only. *)
LEMMA Delivers ==
  ASSUME Typed, NEW d \in Client, NEW m \in For(d), Deliver(d, m)
  PROVE  /\ \A e \in Client : inbox'[e] \in Seq(For(e))
         /\ \A e \in Client \ {d} : inbox'[e] = inbox[e]
         /\ inbox'[d] = IF proc[d] = "up" THEN Append(inbox[d], m) ELSE inbox[d]
<1>1. inbox \in [Client -> Seq(FromServer)] /\ \A e \in Client : inbox[e] \in Seq(For(e))
  BY DEF Typed, BaseTypeOK, Origin
<1>2. CASE proc[d] = "up"
  <2>1. inbox' = [inbox EXCEPT ![d] = Append(inbox[d], m)]
    BY <1>2 DEF Deliver
  <2>2. Append(inbox[d], m) \in Seq(For(d))
    BY <1>1
  <2> QED
    BY <1>1, <1>2, <2>1, <2>2
<1>3. CASE proc[d] # "up"
  BY <1>1, <1>3 DEF Deliver
<1> QED
  BY <1>2, <1>3

LEMMA TypedHandler ==
  ASSUME Typed, Life, NEW c \in Client, Handler(c)
  PROVE  Typed'
<1>0. /\ BaseTypeOK /\ RelayTypeOK /\ \A d \in Client : Origin(d)
      /\ RelayStep(c) /\ UNCHANGED <<sent, got, notices, left>>
  BY DEF Typed, Handler
<1>1. BaseTypeOK' /\ RelayTypeOK'
  <2>1. CASE Serve(c)
    BY <1>0, <2>1, ServeType
  <2>2. CASE Offline(c)
    BY <1>0, <2>2, TakeType, IdType DEF Offline, BaseTypeOK, RelayTypeOK
  <2> QED
    BY <1>0, <2>1, <2>2 DEF RelayStep
<1>2. \A d \in Client : Origin(d)'
  <2>0. /\ handling \in [Client -> Sends \cup {None}]
        /\ \A d \in Client :
             /\ outbox[d] \in Seq(Mine(d))
             /\ handling[d] \in {None} \cup {m \in Mine(d) : m.id = 5}
             /\ inbox[d] \in Seq(For(d))
             /\ got'[d] \in Seq({m \in For(d) : m.id = 6})
    BY <1>0 DEF Origin, RelayTypeOK
  <2>1. CASE Online(c) \/ Offline(c)
    <3>1. \A d \in Client : outbox'[d] \in Seq(Mine(d))
      BY <2>1, TakenMine DEF Online, Offline
    <3>2. UNCHANGED <<inbox, handling>>
      BY <2>1 DEF Online, Offline
    <3> QED
      BY <2>0, <3>1, <3>2 DEF Origin
  <2>2. CASE SendOnline(c)
    <3>1. /\ \A d \in Client : outbox'[d] \in Seq(Mine(d))
          /\ Head(outbox[c]) \in Mine(c) /\ Head(outbox[c]).id = 5
      BY <2>2, TakenMine DEF SendOnline
    <3>2. inbox' = inbox /\ handling' = [handling EXCEPT ![c] = Head(outbox[c])]
      BY <2>2 DEF SendOnline
    <3>3. \A d \in Client : handling'[d] \in {None} \cup {m \in Mine(d) : m.id = 5}
      BY <2>0, <3>1, <3>2
    <3> QED
      BY <2>0, <3>1, <3>2, <3>3 DEF Origin
  <2>3. CASE SendOffline(c)
    <3>1. \A d \in Client : outbox'[d] \in Seq(Mine(d))
      BY <2>3, TakenMine DEF SendOffline
    <3>2. [id |-> 200] \in For(c)
      BY DEF For
    <3>3. \A d \in Client : inbox'[d] \in Seq(For(d))
      BY <2>3, <3>2, Delivers DEF SendOffline
    <3>4. handling' = handling
      BY <2>3 DEF SendOffline
    <3> QED
      BY <2>0, <3>1, <3>3, <3>4 DEF Origin
  <2>4. CASE Forward(c)
    <3>1. /\ handling[c] # None /\ outbox' = outbox
          /\ handling' = [handling EXCEPT ![c] = None]
      BY <2>4 DEF Forward
    <3>2. handling[c] \in Mine(c) /\ handling[c].id = 5 /\ handling[c].to_user = RemoteId(c)
      BY <2>0, <3>1, MineType
    <3>3. \A d \in Client : handling'[d] \in {None} \cup {m \in Mine(d) : m.id = 5}
      BY <2>0, <3>1
    <3>4. \A d \in Client : inbox'[d] \in Seq(For(d))
      <4>1. CASE pool[RemoteId(c)] = None
        BY <2>0, <2>4, <3>2, <4>1 DEF Forward
      <4>2. CASE pool[RemoteId(c)] # None
        <5>1. RemoteId(c) \in User
          BY DEF RemoteId, User
        <5>2. pool[RemoteId(c)] \in Client /\ Id(pool[RemoteId(c)]) = RemoteId(c)
          BY <1>0, <4>2, <5>1 DEF Life, RelayTypeOK
        <5>3. Forwarded(handling[c]) \in For(pool[RemoteId(c)])
          BY <3>2, <5>2, ForwardedMine
        <5>4. Deliver(pool[RemoteId(c)], Forwarded(handling[c]))
          BY <2>4, <3>2, <4>2 DEF Forward
        <5> QED
          BY <5>2, <5>3, <5>4, Delivers
      <4> QED
        BY <4>1, <4>2
    <3> QED
      BY <2>0, <3>1, <3>3, <3>4 DEF Origin
  <2>5. CASE ConnClosed(c)
    BY <2>0, <2>5 DEF ConnClosed, Origin
  <2> QED
    BY <1>0, <2>1, <2>2, <2>3, <2>4, <2>5 DEF RelayStep, Serve
<1> QED
  BY <1>0, <1>1, <1>2 DEF Typed

(***************************************************************************)
(* Who is registered and who has left.                                     *)
(***************************************************************************)
Staying(c) == {m \in Mine(c) : m.id # 3}

LEMMA LifeInit == ASSUME Init PROVE Life
BY DEF Init, BaseInit, RelayInit, Life

(* A step that registers nobody and takes no message in hand. *)
LEMMA LifeKept ==
  ASSUME Life, UNCHANGED <<pool, handling>>, left \subseteq left',
         \A c \in Client :
           /\ proc'[c] = proc[c] \/ (proc[c] = "off" /\ proc'[c] = "up" /\ outbox'[c] = outbox[c])
              \/ (proc[c] = "up" /\ proc'[c] = "down" /\ Id(c) \in left')
           /\ proc[c] = "off" /\ proc'[c] = "off" => outbox'[c] = outbox[c]
           /\ Id(c) \in left' \/ outbox[c] \notin Seq(Staying(c)) \/ outbox'[c] \in Seq(Staying(c)),
         RelayTypeOK
  PROVE  Life'
<1>1. ASSUME NEW c \in Client
      PROVE  /\ proc'[c] = "off" => outbox'[c] = <<>>
             /\ proc'[c] = "down" => Id(c) \in left'
             /\ Id(c) \in left' \/ outbox'[c] \in Seq(Staying(c))
             /\ handling'[c] # None => pool'[RemoteId(c)] # None \/ RemoteId(c) \in left'
  BY DEF Life, Staying
<1>2. ASSUME NEW u \in User, pool'[u] # None
      PROVE  Id(pool'[u]) = u /\ proc'[pool'[u]] # "off"
  <2>1. pool[u] \in Client
    BY <1>2 DEF RelayTypeOK
  <2> QED
    BY <1>2, <2>1 DEF Life
<1> QED
  BY <1>1, <1>2 DEF Life, Staying

LEMMA LifeClient ==
  ASSUME Typed, Life, NEW c \in Client,
         \/ ClientStarts(c) \/ ClientSignsIn(c) \/ ClientSends(c) \/ ClientSignsOff(c)
         \/ ClientReads(c) \/ ClientEnds(c)
  PROVE  Life'
<1>0. /\ outbox \in [Client -> Seq(ToServer)] /\ proc \in [Client -> {"off", "up", "down"}]
      /\ RelayTypeOK /\ outbox[c] \in Seq(Mine(c))
  BY DEF Typed, BaseTypeOK, Origin
<1>w. ASSUME NEW m \in Mine(c), m.id # 3 \/ Id(c) \in left', Write(c, m),
             proc[c] = "up", UNCHANGED <<proc, pool, handling>>, left \subseteq left'
      PROVE  Life'
  <2>1. outbox' = [outbox EXCEPT ![c] = Append(outbox[c], m)]
    BY <1>w DEF Write
  <2>2. outbox[c] \in Seq(Staying(c)) /\ m.id # 3 => Append(outbox[c], m) \in Seq(Staying(c))
    <3> SUFFICES ASSUME outbox[c] \in Seq(Staying(c)), m.id # 3
                 PROVE  Append(outbox[c], m) \in Seq(Staying(c))
      OBVIOUS
    <3>1. m \in Staying(c)
      BY <1>w DEF Staying
    <3> QED
      BY <3>1
  <2>3. \A d \in Client :
          /\ proc[d] = "off" => outbox'[d] = outbox[d]
          /\ Id(d) \in left' \/ outbox[d] \notin Seq(Staying(d)) \/ outbox'[d] \in Seq(Staying(d))
    BY <1>0, <1>w, <2>1, <2>2
  <2> QED
    BY <1>0, <1>w, <2>3, LifeKept
<1>1. CASE ClientStarts(c)
  BY <1>0, <1>1, LifeKept DEF ClientStarts, Boot, relayVars
<1>2. CASE ClientSignsIn(c)
  <2>1. [id |-> 1] \in Mine(c) /\ [id |-> 1].id # 3
    BY DEF Mine
  <2> QED
    BY <1>2, <1>w, <2>1 DEF ClientSignsIn, SignIn, relayVars
<1>3. CASE ClientSends(c)
  <2>1. sent[c] \in Nat /\ sent'[c] = sent[c] + 1
    BY <1>3, RelayAloneAssumption DEF ClientSends, Typed
  <2>2. sent'[c] \in Nat \ {0}
    BY <2>1
  <2> QED
    BY <1>3, <1>w, <2>2, OffersMine DEF ClientSends, relayVars
<1>4. CASE ClientSignsOff(c)
  <2>1. [id |-> 3] \in Mine(c)
    BY DEF Mine
  <2> QED
    BY <1>4, <1>w, <2>1 DEF ClientSignsOff, relayVars
<1>5. CASE ClientReads(c)
  BY <1>0, <1>5, LifeKept DEF ClientReads, Receive, relayVars
<1>6. CASE ClientEnds(c)
  <2>1. /\ proc[c] = "up" /\ proc' = [proc EXCEPT ![c] = "down"] /\ left' = left \cup {Id(c)}
        /\ UNCHANGED <<pool, handling>>
        /\ \A d \in Client \ {c} : outbox'[d] = outbox[d]
    BY <1>0, <1>6 DEF ClientEnds, Exit, Die, relayVars
  <2> QED
    BY <1>0, <2>1, LifeKept
<1> QED
  BY <1>1, <1>2, <1>3, <1>4, <1>5, <1>6

LEMMA LifeHandler ==
  ASSUME Typed, Life, NEW c \in Client, Handler(c)
  PROVE  Life'
<1>0. /\ RelayTypeOK /\ UNCHANGED <<proc, left>> /\ RelayStep(c)
      /\ outbox \in [Client -> Seq(ToServer)]
  BY DEF Typed, Handler, RelayStep, Serve, Online, Offline, SendOnline, SendOffline, Forward,
     ConnClosed, BaseTypeOK
<1>1. \A d \in Client :
        /\ proc[d] = "off" => outbox'[d] = <<>>
        /\ proc[d] = "down" => Id(d) \in left
        /\ Id(d) \in left \/ outbox'[d] \in Seq(Staying(d))
  <2>1. ASSUME NEW id, Take(c, id), NEW d \in Client
        PROVE  /\ proc[d] = "off" => outbox'[d] = <<>>
               /\ proc[d] = "down" => Id(d) \in left
               /\ Id(d) \in left \/ outbox'[d] \in Seq(Staying(d))
    <3>1. /\ outbox[c] # <<>> /\ outbox'[c] = Tail(outbox[c])
          /\ \A e \in Client \ {c} : outbox'[e] = outbox[e]
      BY <2>1, TakenMine
    <3>2. outbox[c] \in Seq(Staying(c)) => Tail(outbox[c]) \in Seq(Staying(c))
      BY <3>1
    <3> QED
      BY <3>1, <3>2 DEF Life, Staying
  <2>2. ASSUME outbox' = outbox, NEW d \in Client
        PROVE  /\ proc[d] = "off" => outbox'[d] = <<>>
               /\ proc[d] = "down" => Id(d) \in left
               /\ Id(d) \in left \/ outbox'[d] \in Seq(Staying(d))
    BY <2>2 DEF Life, Staying
  <2> QED
    BY <1>0, <2>1, <2>2 DEF RelayStep, Serve, Online, Offline, SendOnline, SendOffline, Forward,
       ConnClosed
<1>p. ASSUME NEW u \in User, pool[u] # None
      PROVE  pool[u] \in Client /\ Id(pool[u]) = u /\ proc[pool[u]] # "off"
  BY <1>0, <1>p DEF RelayTypeOK, Life
<1>h. ASSUME NEW d \in Client, handling[d] # None
      PROVE  RemoteId(d) \in User /\ (pool[RemoteId(d)] # None \/ RemoteId(d) \in left)
  BY <1>h DEF Life, RemoteId, User
<1> SUFFICES
      /\ \A d \in Client : handling'[d] # None => pool'[RemoteId(d)] # None \/ RemoteId(d) \in left
      /\ \A u \in User : pool'[u] # None => Id(pool'[u]) = u /\ proc[pool'[u]] # "off"
  <2>1. proc' = proc /\ left' = left
    BY <1>0
  <2> QED
    BY <1>1, <2>1 DEF Life, Staying
<1>2. CASE Online(c)
  <2>1. proc[c] # "off" /\ Id(c) \in User
    BY <1>2, TakenMine, IdType DEF Life, Online
  <2>2. pool' = [pool EXCEPT ![Id(c)] = c] /\ handling' = handling /\ c # None
    BY <1>2, BaseAssumption DEF Online, Client
  <2> QED
    BY <1>0, <1>p, <1>h, <2>1, <2>2 DEF RelayTypeOK
<1>3. CASE Offline(c) \/ ConnClosed(c)
  <2>1. /\ Id(c) \in User /\ handling' = handling
        /\ pool' = [pool EXCEPT ![Id(c)] = None] \/ pool' = pool
    BY <1>3, IdType DEF Offline, ConnClosed
  <2>2. Id(c) \in left
    <3>1. CASE Offline(c)
      <4>1. Head(outbox[c]).id = 3 /\ outbox[c] # <<>>
        BY <3>1, TakenMine DEF Offline
      <4>2. ASSUME outbox[c] \in Seq(Staying(c)) PROVE FALSE
        <5>1. Head(outbox[c]) \in Staying(c)
          BY <4>1, <4>2
        <5> QED
          BY <4>1, <5>1 DEF Staying
      <4> QED
        BY <4>2 DEF Life, Staying
    <3>2. CASE ConnClosed(c)
      BY <3>2 DEF ConnClosed, Life
    <3> QED
      BY <1>3, <3>1, <3>2
  <2> QED
    BY <1>0, <1>p, <1>h, <2>1, <2>2 DEF RelayTypeOK
<1>4. CASE SendOnline(c)
  <2>1. /\ pool' = pool /\ handling' = [handling EXCEPT ![c] = Head(outbox[c])]
        /\ pool[Head(outbox[c]).to_user] # None
    BY <1>4 DEF SendOnline
  <2>2. Head(outbox[c]).to_user = RemoteId(c)
    BY <1>4, TakenMine, MineType DEF SendOnline
  <2> QED
    BY <1>0, <1>p, <1>h, <2>1, <2>2 DEF RelayTypeOK
<1>5. CASE SendOffline(c)
  BY <1>5, <1>p, <1>h DEF SendOffline
<1>6. CASE Forward(c)
  <2>1. pool' = pool /\ handling' = [handling EXCEPT ![c] = None]
    BY <1>6 DEF Forward
  <2> QED
    BY <1>0, <1>p, <1>h, <2>1 DEF RelayTypeOK
<1> QED
  BY <1>0, <1>2, <1>3, <1>4, <1>5, <1>6 DEF RelayStep, Serve

(***************************************************************************)
(* Where the numbers of one sender are, and what one step does to them:    *)
(* some are forgotten, one is new, taken in hand, delivered or read.       *)
(***************************************************************************)
Out(c) == Numbers(outbox[c], c)

Before(d, c) == Numbers(inbox[d], c)

Read(d, c) == Numbers(got[d], c)

LEMMA PlacedLess ==
  ASSUME NEW c \in Client, Placed(c), sent'[c] = sent[c],
         Out(c)' \subseteq Out(c), InHand(c)' \subseteq InHand(c),
         \A d \in Client : Before(d, c)' \subseteq Before(d, c) /\ Read(d, c)' \subseteq Read(d, c)
  PROVE  Placed(c)'
BY DEF Placed, Waiting, DeliveredTo, Below, Out, Before, Read

LEMMA PlacedNew ==
  ASSUME Typed, NEW c \in Client, Placed(c), sent'[c] = sent[c] + 1,
         Out(c)' = Out(c) \cup {sent'[c]}, InHand(c)' = InHand(c),
         \A d \in Client : Before(d, c)' = Before(d, c) /\ Read(d, c)' = Read(d, c)
  PROVE  Placed(c)'
<1>1. /\ sent[c] \in Nat
      /\ Out(c) \subseteq Nat /\ InHand(c) \subseteq Nat
      /\ \A d \in Client : Before(d, c) \subseteq Nat /\ Read(d, c) \subseteq Nat
  BY NumbersType, RelayAloneAssumption DEF Typed, Out, Before, Read
<1>2. /\ Waiting(c) = Out(c) \cup InHand(c)
      /\ \A d \in Client : DeliveredTo(d, c) = Before(d, c) \cup Read(d, c)
      /\ Waiting(c)' = Waiting(c) \cup {sent[c] + 1}
      /\ \A d \in Client : DeliveredTo(d, c)' = DeliveredTo(d, c)
  BY DEF Waiting, DeliveredTo, Out, Before, Read
<1>3. Below(InHand(c), Out(c))'
  BY <1>1, <1>2 DEF Placed, Below, Out
<1>4. \A n \in Waiting(c)' : n <= sent'[c]
  BY <1>1, <1>2 DEF Placed
<1>5. ASSUME NEW d \in Client
      PROVE  /\ Below(Read(d, c), Before(d, c))'
             /\ Below(DeliveredTo(d, c), Waiting(c))'
             /\ \A n \in DeliveredTo(d, c)' : n <= sent'[c]
  BY <1>1, <1>2 DEF Placed, Below, Before, Read
<1>6. \A d, e \in Client : d # e => DeliveredTo(d, c)' \cap DeliveredTo(e, c)' = {}
  BY <1>2 DEF Placed
<1> QED
  BY <1>3, <1>4, <1>5, <1>6 DEF Placed, Out, Before, Read

LEMMA PlacedTaken ==
  ASSUME NEW c \in Client, Placed(c), sent'[c] = sent[c], NEW n,
         InHand(c) = {}, Out(c) = {n} \cup Out(c)', Below({n}, Out(c)'), InHand(c)' = {n},
         \A d \in Client : Before(d, c)' = Before(d, c) /\ Read(d, c)' = Read(d, c)
  PROVE  Placed(c)'
BY DEF Placed, Waiting, DeliveredTo, Below, Out, Before, Read

(* The message in hand goes before d. *)
LEMMA PlacedDelivered ==
  ASSUME NEW c \in Client, Placed(c), sent'[c] = sent[c], NEW n, NEW d \in Client,
         InHand(c) = {n}, Out(c)' = Out(c), InHand(c)' = {},
         Before(d, c)' = Before(d, c) \cup {n}, Read(d, c)' = Read(d, c),
         \A e \in Client \ {d} : Before(e, c)' = Before(e, c) /\ Read(e, c)' = Read(e, c),
         Typed
  PROVE  Placed(c)'
<1>1. /\ sent[c] \in Nat /\ n \in Nat
      /\ Out(c) \subseteq Nat
      /\ \A e \in Client : Before(e, c) \subseteq Nat /\ Read(e, c) \subseteq Nat
  BY NumbersType, RelayAloneAssumption DEF Typed, Out, Before, Read
<1>2. /\ Waiting(c) = Out(c) \cup {n} /\ Waiting(c)' = Out(c)
      /\ \A e \in Client : DeliveredTo(e, c) = Before(e, c) \cup Read(e, c)
      /\ DeliveredTo(d, c)' = DeliveredTo(d, c) \cup {n}
      /\ \A e \in Client \ {d} : DeliveredTo(e, c)' = DeliveredTo(e, c)
  BY DEF Waiting, DeliveredTo, Out, Before, Read
<1>3. n \in Waiting(c) /\ \A e \in Client : Below(DeliveredTo(e, c), Waiting(c))
  BY <1>2 DEF Placed
<1>4. \A e \in Client : n \notin DeliveredTo(e, c)
  BY <1>1, <1>2, <1>3 DEF Below
<1>5. Below(InHand(c), Out(c))' /\ \A v \in Waiting(c)' : v <= sent'[c]
  BY <1>2 DEF Below, Placed
<1>6. ASSUME NEW e \in Client
      PROVE  /\ Below(Read(e, c), Before(e, c))'
             /\ Below(DeliveredTo(e, c), Waiting(c))'
             /\ \A v \in DeliveredTo(e, c)' : v <= sent'[c]
  <2>1. CASE e = d
    <3>1. \A v \in Read(d, c) : v < n
      BY <1>2, <1>3 DEF Below
    <3>2. \A v \in Out(c) : n < v
      BY DEF Placed, Below, Out
    <3>3. Below(Read(d, c), Before(d, c)) /\ Below(DeliveredTo(d, c), Out(c))
      BY <1>2, <1>3 DEF Placed, Below, Read, Before
    <3>4. \A v \in DeliveredTo(d, c)' : v <= sent'[c]
      BY <1>2, <1>3 DEF Placed
    <3> QED
      BY <1>2, <2>1, <3>1, <3>2, <3>3, <3>4 DEF Below
  <2>2. CASE e # d
    BY <1>2, <2>2 DEF Placed, Below, Read, Before
  <2> QED
    BY <2>1, <2>2
<1>7. \A e, f \in Client : e # f => DeliveredTo(e, c)' \cap DeliveredTo(f, c)' = {}
  BY <1>2, <1>4 DEF Placed
<1> QED
  BY <1>5, <1>6, <1>7 DEF Placed, Out, Before, Read

LEMMA PlacedRead ==
  ASSUME NEW c \in Client, Placed(c), sent'[c] = sent[c], NEW N, NEW d \in Client,
         Before(d, c) = N \cup Before(d, c)', Below(N, Before(d, c)'),
         Read(d, c)' = Read(d, c) \cup N,
         Out(c)' = Out(c), InHand(c)' = InHand(c),
         \A e \in Client \ {d} : Before(e, c)' = Before(e, c) /\ Read(e, c)' = Read(e, c)
  PROVE  Placed(c)'
<1>1. /\ Waiting(c)' = Waiting(c)
      /\ \A e \in Client : DeliveredTo(e, c)' = DeliveredTo(e, c)
  BY DEF Waiting, DeliveredTo, Out, Before, Read
<1>2. \A e \in Client : Below(Read(e, c), Before(e, c))'
  BY DEF Placed, Below, Before, Read
<1> QED
  BY <1>1, <1>2 DEF Placed, Out, Before, Read

(***************************************************************************)
(* The account: what is gone, and the replies that say so.                 *)
(***************************************************************************)
Notices(q) == {i \in DOMAIN q : q[i].id = 200}

LEMMA NoticesType ==
  ASSUME NEW S, NEW q \in Seq(S)
  PROVE  IsFiniteSet(Notices(q)) /\ Cardinality(Notices(q)) \in Nat
<1>1. Notices(q) \subseteq 1..Len(q) /\ Len(q) \in Nat
  BY DEF Notices
<1>2. IsFiniteSet(1..Len(q))
  BY <1>1, FS_Interval
<1> QED
  BY <1>1, <1>2, FS_Subset, FS_CardinalityType

LEMMA NoticesAppend ==
  ASSUME NEW S, NEW q \in Seq(S), NEW m \in S
  PROVE  Cardinality(Notices(Append(q, m)))
           = Cardinality(Notices(q)) + (IF m.id = 200 THEN 1 ELSE 0)
<1> DEFINE r == Append(q, m)
           n == Len(q)
<1>1. /\ n \in Nat /\ DOMAIN q = 1..n /\ DOMAIN r = 1..(n + 1)
      /\ \A i \in 1..n : r[i] = q[i]
      /\ r[n + 1] = m
  OBVIOUS
<1>0. IsFiniteSet(Notices(q)) /\ Cardinality(Notices(q)) \in Nat
  BY NoticesType
<1> HIDE DEF r, n
<1>2. n + 1 \notin Notices(q) /\ DOMAIN r = DOMAIN q \cup {n + 1}
  BY <1>1 DEF Notices
<1>3. CASE m.id = 200
  <2>1. Notices(r) = Notices(q) \cup {n + 1}
    BY <1>1, <1>2, <1>3 DEF Notices
  <2> QED
    BY <1>0, <1>2, <1>3, <2>1, FS_AddElement DEF r
<1>4. CASE m.id # 200
  <2>1. Notices(r) = Notices(q)
    BY <1>1, <1>2, <1>4 DEF Notices
  <2> QED
    BY <1>0, <1>4, <2>1 DEF r
<1> QED
  BY <1>3, <1>4

LEMMA NoticesTail ==
  ASSUME NEW S, NEW q \in Seq(S), q # <<>>
  PROVE  Cardinality(Notices(q))
           = Cardinality(Notices(Tail(q))) + (IF Head(q).id = 200 THEN 1 ELSE 0)
<1> DEFINE r == Tail(q)
           n == Len(q)
           up == {i + 1 : i \in Notices(r)}
<1>0. /\ r \in Seq(S) /\ IsFiniteSet(Notices(r)) /\ Cardinality(Notices(r)) \in Nat
  <2>1. r \in Seq(S)
    OBVIOUS
  <2> QED
    BY <2>1, NoticesType
<1>1. /\ n \in Nat \ {0} /\ DOMAIN q = 1..n /\ DOMAIN r = 1..(n - 1) /\ Head(q) = q[1]
      /\ \A i \in 1..(n - 1) : r[i] = q[i + 1]
  OBVIOUS
<1> HIDE DEF r, n
<1>2. Notices(r) \subseteq Nat \ {0}
  BY <1>1 DEF Notices
<1>3. IsFiniteSet(up) /\ Cardinality(up) = Cardinality(Notices(r))
  <2> DEFINE f == [i \in Notices(r) |-> i + 1]
  <2>1. f \in Bijection(Notices(r), up)
    BY <1>2 DEF Bijection, Injection, Surjection, IsInjective
  <2> HIDE DEF f
  <2>2. ExistsBijection(Notices(r), up)
    BY <2>1 DEF ExistsBijection
  <2> QED
    BY <1>0, <2>2, FS_Bijection
<1>4. 1 \notin up
  BY <1>2
<1>5. Notices(q) = up \cup {i \in {1} : q[i].id = 200}
  <2>1. ASSUME NEW i \in Notices(q) PROVE i \in up \/ (i = 1 /\ q[1].id = 200)
    <3>1. CASE i = 1
      BY <2>1, <3>1 DEF Notices
    <3>2. CASE i # 1
      <4>1. i - 1 \in 1..(n - 1) /\ i = (i - 1) + 1
        BY <1>1, <2>1, <3>2 DEF Notices
      <4>2. r[i - 1].id = 200
        BY <1>1, <2>1, <4>1 DEF Notices
      <4>3. i - 1 \in Notices(r)
        BY <1>1, <4>1, <4>2 DEF Notices
      <4> QED
        BY <4>1, <4>3
    <3> QED
      BY <3>1, <3>2
  <2>2. ASSUME NEW i \in Notices(r) PROVE i + 1 \in Notices(q)
    BY <1>1, <2>2 DEF Notices
  <2>3. q[1].id = 200 => 1 \in Notices(q)
    BY <1>1 DEF Notices
  <2> QED
    BY <2>1, <2>2, <2>3
<1> HIDE DEF up
<1>6. CASE Head(q).id = 200
  <2>1. Notices(q) = up \cup {1}
    BY <1>1, <1>5, <1>6
  <2> QED
    BY <1>0, <1>3, <1>4, <1>6, <2>1, FS_AddElement DEF r
<1>7. CASE Head(q).id # 200
  <2>1. Notices(q) = up
    BY <1>1, <1>5, <1>7
  <2> QED
    BY <1>0, <1>3, <1>7, <2>1 DEF r
<1> QED
  BY <1>6, <1>7

LEMMA AccountKept ==
  ASSUME NEW c \in Client, Account(c), Gone(c)' = Gone(c), Reported(c)' = Reported(c),
         proc'[c] # "down" => proc[c] # "down", left \subseteq left'
  PROVE  Account(c)'
BY DEF Account

LEMMA GoneKept ==
  ASSUME NEW c, sent'[c] = sent[c],
         Waiting(c)' \cup Delivered(c)' = Waiting(c) \cup Delivered(c)
  PROVE  Gone(c)' = Gone(c)
BY DEF Gone

(***************************************************************************)
(* One step.                                                               *)
(***************************************************************************)
Good(c) == Lined(c) /\ Placed(c) /\ Account(c)

LEMMA GoodInit == ASSUME Init PROVE \A c \in Client : Good(c)
<1> SUFFICES ASSUME NEW c \in Client PROVE Good(c)
  OBVIOUS
<1>1. /\ \A d \in Client : outbox[d] = <<>> /\ inbox[d] = <<>> /\ got[d] = <<>>
      /\ handling[c] = None /\ sent[c] = 0 /\ notices[c] = 0
  BY DEF Init, BaseInit, RelayInit
<1>2. /\ Numbers(outbox[c], c) = {} /\ InHand(c) = {}
      /\ \A d \in Client : Numbers(inbox[d], c) = {} /\ Numbers(got[d], c) = {}
  BY <1>1, NumbersNone DEF InHand
<1>3. Lined(c)
  BY <1>1, NumbersNone DEF Lined
<1>4. Placed(c)
  BY <1>2 DEF Placed, Waiting, DeliveredTo, Below
<1>5. Account(c)
  <2>1. Gone(c) = {} /\ {i \in DOMAIN inbox[c] : inbox[c][i].id = 200} = {}
    BY <1>1 DEF Gone
  <2> QED
    BY <1>1, <2>1, FS_EmptySet DEF Account, Reported
<1> QED
  BY <1>3, <1>4, <1>5 DEF Good

(* A step after which every message is where it was. *)
LEMMA StillGood ==
  ASSUME NEW c \in Client, Good(c), UNCHANGED <<inbox, handling, sent, got, notices>>,
         Out(c)' = Out(c), Rising(outbox[c], c) => Rising(outbox'[c], c),
         proc'[c] # "down" => proc[c] # "down", left \subseteq left'
  PROVE  Good(c)'
<1>1. InHand(c)' = InHand(c) /\ Reported(c)' = Reported(c)
  BY DEF InHand, Reported
<1>2. \A d \in Client : Before(d, c)' = Before(d, c) /\ Read(d, c)' = Read(d, c)
  BY DEF Before, Read
<1>3. Lined(c)'
  BY DEF Good, Lined
<1>4. Placed(c)'
  BY <1>1, <1>2, PlacedLess DEF Good
<1>5. Waiting(c)' = Waiting(c) /\ Delivered(c)' = Delivered(c)
  BY <1>1, <1>2 DEF Waiting, Delivered, DeliveredTo, Out, Before, Read
<1>6. Account(c)'
  BY <1>1, <1>5, GoneKept, AccountKept DEF Good
<1> QED
  BY <1>3, <1>4, <1>6 DEF Good

(* What a client writes besides its messages, and what the relay takes of  *)
(* that.                                                                   *)
LEMMA WriteOther ==
  ASSUME Typed, NEW c \in Client, NEW m \in Mine(c), m.id # 5, Write(c, m), NEW s \in Client
  PROVE  Out(s)' = Out(s) /\ (Rising(outbox[s], s) => Rising(outbox'[s], s))
<1>1. outbox[c] \in Seq(Mine(c)) /\ outbox' = [outbox EXCEPT ![c] = Append(outbox[c], m)]
  BY DEF Typed, Origin, Write
<1>2. NumberOf(m, c) = {}
  BY MineType
<1>3. CASE s = c
  <2>1. outbox'[c] = Append(outbox[c], m)
    BY <1>1 DEF Typed, BaseTypeOK
  <2>2. Below(Numbers(outbox[c], c), NumberOf(m, c))
    BY <1>2 DEF Below
  <2>3. /\ Numbers(Append(outbox[c], m), c) = Numbers(outbox[c], c) \cup NumberOf(m, c)
        /\ Rising(outbox[c], c) => Rising(Append(outbox[c], m), c)
    BY <1>1, <2>2, NumbersAppend
  <2> QED
    BY <1>2, <1>3, <2>1, <2>3 DEF Out
<1>4. CASE s # c
  BY <1>1, <1>4 DEF Out, Typed, BaseTypeOK
<1> QED
  BY <1>3, <1>4

LEMMA TakeOther ==
  ASSUME Typed, NEW c \in Client, NEW id, id # 5, Take(c, id), NEW s \in Client
  PROVE  Out(s)' = Out(s) /\ (Rising(outbox[s], s) => Rising(outbox'[s], s))
<1>1. /\ outbox[c] \in Seq(Mine(c)) /\ outbox[c] # <<>>
      /\ outbox'[c] = Tail(outbox[c]) /\ \A d \in Client \ {c} : outbox'[d] = outbox[d]
      /\ Head(outbox[c]) \in Mine(c) /\ Head(outbox[c]).id = id
  BY TakenMine
<1>2. NumberOf(Head(outbox[c]), c) = {}
  BY <1>1, MineType
<1>3. CASE s = c
  <2>1. /\ Numbers(outbox[c], c) = NumberOf(Head(outbox[c]), c) \cup Numbers(Tail(outbox[c]), c)
        /\ Rising(outbox[c], c) => Rising(Tail(outbox[c]), c)
    BY <1>1, NumbersTail
  <2> QED
    BY <1>1, <1>2, <1>3, <2>1 DEF Out
<1>4. CASE s # c
  BY <1>1, <1>4 DEF Out
<1> QED
  BY <1>3, <1>4

LEMMA SendsGood ==
  ASSUME Typed, NEW c \in Client, ClientSends(c), NEW s \in Client, Good(s)
  PROVE  Good(s)'
<1> DEFINE m == SendMsg(c, "SDPExchange", Offer(c, sent'[c]))
<1>0. /\ UNCHANGED <<proc, inbox, handling, got, notices, left>>
      /\ sent[c] \in Nat /\ sent'[c] = sent[c] + 1
      /\ \A d \in Client \ {c} : sent'[d] = sent[d]
      /\ Write(c, m)
  BY RelayAloneAssumption DEF ClientSends, Typed, relayVars
<1>1. m \in Mine(c) /\ NumberOf(m, c) = {sent'[c]}
  <2>1. sent'[c] \in Nat \ {0}
    BY <1>0
  <2>2. m \in Mine(c) /\ m.id = 5 /\ m.message.from[2] = sent'[c]
    BY <2>1, OffersMine
  <2> HIDE DEF m
  <2> QED
    BY <2>2, MineType
<1>2. /\ outbox[c] \in Seq(Mine(c)) /\ outbox'[c] = Append(outbox[c], m)
      /\ \A d \in Client \ {c} : outbox'[d] = outbox[d]
  BY <1>0 DEF Typed, Origin, Write, BaseTypeOK
<1> HIDE DEF m
<1>3. InHand(s)' = InHand(s) /\ Reported(s)' = Reported(s)
  BY <1>0 DEF InHand, Reported
<1>4. \A d \in Client : Before(d, s)' = Before(d, s) /\ Read(d, s)' = Read(d, s)
  BY <1>0 DEF Before, Read
<1>5. CASE s # c
  <2>1. outbox'[s] = outbox[s] /\ sent'[s] = sent[s] /\ Out(s)' = Out(s)
    BY <1>0, <1>2, <1>5 DEF Out
  <2>2. Waiting(s)' = Waiting(s) /\ Delivered(s)' = Delivered(s)
    BY <1>3, <1>4, <2>1 DEF Waiting, Delivered, DeliveredTo, Out, Before, Read
  <2>3. Lined(s)'
    BY <1>0, <2>1 DEF Good, Lined
  <2>4. Placed(s)'
    BY <1>3, <1>4, <2>1, PlacedLess DEF Good
  <2>5. Account(s)'
    BY <1>0, <1>3, <2>1, <2>2, GoneKept, AccountKept DEF Good
  <2> QED
    BY <2>3, <2>4, <2>5 DEF Good
<1>6. CASE s = c
  <2>1. \A n \in Out(c) : n \in Nat /\ n <= sent[c]
    BY <1>6, NumbersType DEF Good, Placed, Waiting, Out
  <2>2. Below(Numbers(outbox[c], c), NumberOf(m, c))
    BY <1>0, <1>1, <2>1 DEF Below, Out
  <2>3. Out(c)' = Out(c) \cup {sent'[c]} /\ (Rising(outbox[c], c) => Rising(outbox'[c], c))
    <3>0. outbox[c] \in Seq(Mine(c)) /\ m \in Mine(c)
      BY <1>1, <1>2
    <3>1. /\ Numbers(Append(outbox[c], m), c) = Numbers(outbox[c], c) \cup NumberOf(m, c)
          /\ Rising(outbox[c], c) => Rising(Append(outbox[c], m), c)
      BY <2>2, <3>0, NumbersAppend
    <3> QED
      BY <1>1, <1>2, <3>1 DEF Out
  <2>4. Lined(c)'
    BY <1>0, <1>6, <2>3 DEF Good, Lined
  <2>5. Placed(c)'
    BY <1>0, <1>3, <1>4, <1>6, <2>3, PlacedNew DEF Good
  <2>6. Waiting(c)' = Waiting(c) \cup {sent'[c]} /\ Delivered(c)' = Delivered(c)
    BY <1>3, <1>4, <1>6, <2>3 DEF Waiting, Delivered, DeliveredTo, Out, Before, Read
  <2>7. Gone(c)' = Gone(c)
    BY <1>0, <2>6 DEF Gone
  <2>8. Account(c)'
    BY <1>0, <1>3, <1>6, <2>7, AccountKept DEF Good
  <2> QED
    BY <1>6, <2>4, <2>5, <2>8 DEF Good
<1> QED
  BY <1>5, <1>6

(* The oldest message of c is taken off its connection; nothing is in hand. *)
LEMMA TakeSend ==
  ASSUME Typed, NEW c \in Client, Take(c, 5), Lined(c)
  PROVE  /\ InHand(c) = {} /\ Head(outbox[c]) \in Mine(c) /\ Head(outbox[c]) # None
         /\ Head(outbox[c]).to_user = RemoteId(c)
         /\ \E n \in Nat \ {0} :
              /\ Head(outbox[c]).message.from[2] = n
              /\ Out(c) = {n} \cup Out(c)' /\ Below({n}, Out(c)')
         /\ Rising(outbox'[c], c)
         /\ \A s \in Client \ {c} : outbox'[s] = outbox[s]
<1>1. /\ outbox[c] \in Seq(Mine(c)) /\ outbox[c] # <<>>
      /\ outbox'[c] = Tail(outbox[c]) /\ \A d \in Client \ {c} : outbox'[d] = outbox[d]
      /\ Head(outbox[c]) \in Mine(c) /\ Head(outbox[c]).id = 5
  BY TakenMine
<1>2. InHand(c) = {}
  BY DEF Take, InHand
<1>3. /\ Head(outbox[c]).to_user = RemoteId(c)
      /\ NumberOf(Head(outbox[c]), c) = {Head(outbox[c]).message.from[2]}
      /\ Head(outbox[c]).message.from[2] \in Nat \ {0}
  BY <1>1, MineType
<1>4. /\ Numbers(outbox[c], c) = NumberOf(Head(outbox[c]), c) \cup Numbers(Tail(outbox[c]), c)
      /\ Rising(Tail(outbox[c]), c)
      /\ Below(NumberOf(Head(outbox[c]), c), Numbers(Tail(outbox[c]), c))
  BY <1>1, NumbersTail DEF Lined
<1>5. Head(outbox[c]) # None
  BY <1>1, MineType, RelayAssumption
<1> QED
  BY <1>1, <1>2, <1>3, <1>4, <1>5 DEF Out

LEMMA SendOnlineGood ==
  ASSUME Typed, NEW c \in Client, SendOnline(c), UNCHANGED <<sent, got, notices, left>>,
         NEW s \in Client, Good(s)
  PROVE  Good(s)'
<1>0. /\ UNCHANGED <<proc, inbox, sent, got, notices, left>> /\ Take(c, 5)
      /\ handling' = [handling EXCEPT ![c] = Head(outbox[c])]
      /\ handling \in [Client -> Sends \cup {None}]
  BY DEF SendOnline, Typed, RelayTypeOK
<1>1. Reported(s)' = Reported(s)
  BY <1>0 DEF Reported
<1>2. \A d \in Client : Before(d, s)' = Before(d, s) /\ Read(d, s)' = Read(d, s)
  BY <1>0 DEF Before, Read
<1>3. CASE s # c
  <2>1. outbox'[s] = outbox[s] /\ handling'[s] = handling[s]
    BY <1>0, <1>3, TakenMine
  <2>2. Out(s)' = Out(s) /\ InHand(s)' = InHand(s)
    BY <2>1 DEF Out, InHand
  <2>3. Waiting(s)' = Waiting(s) /\ Delivered(s)' = Delivered(s)
    BY <1>2, <2>2 DEF Waiting, Delivered, DeliveredTo, Out, Before, Read
  <2>4. Lined(s)'
    BY <1>0, <2>1 DEF Good, Lined
  <2>5. Placed(s)'
    BY <1>0, <1>2, <2>2, PlacedLess DEF Good
  <2>6. Account(s)'
    BY <1>0, <1>1, <2>3, GoneKept, AccountKept DEF Good
  <2> QED
    BY <2>4, <2>5, <2>6 DEF Good
<1>4. CASE s = c
  <2>1. /\ InHand(c) = {} /\ Head(outbox[c]) # None /\ Rising(outbox'[c], c)
        /\ \E n \in Nat \ {0} :
              /\ Head(outbox[c]).message.from[2] = n
              /\ Out(c) = {n} \cup Out(c)' /\ Below({n}, Out(c)')
    BY <1>0, <1>4, TakeSend DEF Good
  <2>2. PICK n \in Nat \ {0} : /\ Head(outbox[c]).message.from[2] = n
                               /\ Out(c) = {n} \cup Out(c)' /\ Below({n}, Out(c)')
    BY <2>1
  <2>3. handling'[c] = Head(outbox[c])
    BY <1>0
  <2>4. InHand(c)' = {n}
    BY <2>1, <2>2, <2>3 DEF InHand
  <2>5. Placed(c)'
    BY <1>0, <1>2, <1>4, <2>1, <2>2, <2>4, PlacedTaken DEF Good
  <2>6. Waiting(c)' = Waiting(c) /\ Delivered(c)' = Delivered(c)
    BY <1>2, <1>4, <2>1, <2>2, <2>4 DEF Waiting, Delivered, DeliveredTo, Out, Before, Read
  <2>7. Lined(c)'
    BY <1>0, <1>4, <2>1 DEF Good, Lined
  <2>8. Account(c)'
    BY <1>0, <1>1, <1>4, <2>6, GoneKept, AccountKept DEF Good
  <2> QED
    BY <1>4, <2>5, <2>7, <2>8 DEF Good
<1> QED
  BY <1>3, <1>4

LEMMA SendOfflineGood ==
  ASSUME Typed, Life, NEW c \in Client, SendOffline(c), UNCHANGED <<sent, got, notices, left>>,
         NEW s \in Client, Good(s)
  PROVE  Good(s)'
<1> DEFINE m == [id |-> 200]
<1>0. /\ UNCHANGED <<proc, handling, sent, got, notices, left>> /\ Take(c, 5)
      /\ Deliver(c, m)
  BY DEF SendOffline
<1>1. m \in For(c) /\ m.id = 200 /\ NumberOf(m, s) = {}
  BY DEF For, NumberOf
<1> HIDE DEF m
<1>2. /\ \A d \in Client \ {c} : inbox'[d] = inbox[d]
      /\ inbox'[c] = IF proc[c] = "up" THEN Append(inbox[c], m) ELSE inbox[c]
      /\ inbox[c] \in Seq(For(c))
  <2>1. inbox[c] \in Seq(For(c))
    BY DEF Typed, Origin
  <2> QED
    BY <1>0, <1>1, <2>1, Delivers
<1>3. /\ Numbers(Append(inbox[c], m), s) = Numbers(inbox[c], s)
      /\ Rising(inbox[c], s) => Rising(Append(inbox[c], m), s)
  <2>1. Below(Numbers(inbox[c], s), NumberOf(m, s))
    BY <1>1 DEF Below
  <2>2. inbox[c] \in Seq(For(c)) /\ m \in For(c)
    BY <1>1, <1>2
  <2>3. /\ Numbers(Append(inbox[c], m), s) = Numbers(inbox[c], s) \cup NumberOf(m, s)
        /\ Rising(inbox[c], s) => Rising(Append(inbox[c], m), s)
    BY <2>1, <2>2, NumbersAppend
  <2> QED
    BY <1>1, <2>3
<1>4. \A d \in Client :
        /\ Before(d, s)' = Before(d, s) /\ Read(d, s)' = Read(d, s)
        /\ Rising(inbox[d], s) => Rising(inbox'[d], s)
  BY <1>0, <1>2, <1>3 DEF Before, Read
<1>5. InHand(s)' = InHand(s)
  BY <1>0 DEF InHand
<1>6. CASE s # c
  <2>1. outbox'[s] = outbox[s] /\ inbox'[s] = inbox[s]
    BY <1>0, <1>2, <1>6, TakenMine
  <2>2. Out(s)' = Out(s) /\ Reported(s)' = Reported(s)
    BY <1>0, <2>1 DEF Out, Reported
  <2>3. Waiting(s)' = Waiting(s) /\ Delivered(s)' = Delivered(s)
    BY <1>4, <1>5, <2>2 DEF Waiting, Delivered, DeliveredTo, Out, Before, Read
  <2>4. Lined(s)'
    BY <1>0, <1>4, <2>1 DEF Good, Lined
  <2>5. Placed(s)'
    BY <1>0, <1>4, <1>5, <2>2, PlacedLess DEF Good
  <2>6. Account(s)'
    BY <1>0, <2>2, <2>3, GoneKept, AccountKept DEF Good
  <2> QED
    BY <2>4, <2>5, <2>6 DEF Good
<1>7. CASE s = c
  <2>1. /\ InHand(c) = {} /\ Rising(outbox'[c], c)
        /\ \E n \in Nat \ {0} : Out(c) = {n} \cup Out(c)' /\ Below({n}, Out(c)')
    BY <1>0, <1>7, TakeSend DEF Good
  <2>2. PICK n \in Nat \ {0} : Out(c) = {n} \cup Out(c)' /\ Below({n}, Out(c)')
    BY <2>1
  <2>3. Lined(c)'
    BY <1>0, <1>4, <1>7, <2>1 DEF Good, Lined
  <2>4. Placed(c)'
    BY <1>0, <1>4, <1>5, <1>7, <2>2, PlacedLess DEF Good
  <2>5. Account(c)'
    <3> SUFFICES ASSUME proc[c] # "down", RemoteId(c) \notin left
                 PROVE  Cardinality(Gone(c)') = Reported(c)'
      BY <1>0 DEF Account
    <3>1. proc[c] = "up"
      <4>1. outbox[c] # <<>>
        BY <1>0, TakenMine
      <4>2. proc[c] \in {"off", "up", "down"}
        BY DEF Typed, BaseTypeOK
      <4> QED
        BY <4>1, <4>2 DEF Life
    <3>2. Cardinality(Gone(c)) = Reported(c)
      BY <1>7 DEF Good, Account
    <3>3. n \in Waiting(c) /\ n \in 1..sent[c]
      <4>1. n \in Waiting(c)
        BY <2>2 DEF Waiting, Out
      <4>2. n <= sent[c] /\ sent[c] \in Nat
        BY <1>7, <4>1, RelayAloneAssumption DEF Good, Placed, Typed
      <4> QED
        BY <4>1, <4>2
    <3>4. n \notin Delivered(c)
      BY <1>7, <3>3 DEF Good, Placed, Below, Delivered
    <3>5. Waiting(c) = {n} \cup Waiting(c)' /\ n \notin Waiting(c)' /\ Delivered(c)' = Delivered(c)
      BY <1>4, <1>5, <1>7, <2>1, <2>2
      DEF Waiting, Delivered, DeliveredTo, Out, Before, Read, Below
    <3>6. Gone(c)' = Gone(c) \cup {n} /\ n \notin Gone(c)
      BY <1>0, <3>3, <3>4, <3>5 DEF Gone
    <3>7. IsFiniteSet(Gone(c))
      <4>1. sent[c] \in Nat
        BY RelayAloneAssumption DEF Typed
      <4>2. IsFiniteSet(1..sent[c])
        BY <4>1, FS_Interval
      <4> QED
        BY <4>2, FS_Subset DEF Gone
    <3>8. Cardinality(Gone(c)') = Cardinality(Gone(c)) + 1
      BY <3>6, <3>7, FS_AddElement
    <3>9. Reported(c)' = Reported(c) + 1
      <4>1. Reported(c) = notices[c] + Cardinality(Notices(inbox[c]))
        BY DEF Reported, Notices
      <4>2. Reported(c)' = notices[c] + Cardinality(Notices(inbox'[c]))
        BY <1>0 DEF Reported, Notices
      <4>3. inbox'[c] = Append(inbox[c], m)
        BY <1>2, <3>1
      <4>4. Cardinality(Notices(inbox'[c])) = Cardinality(Notices(inbox[c])) + 1
        BY <1>1, <1>2, <4>3, NoticesAppend
      <4>5. notices[c] \in Nat /\ Cardinality(Notices(inbox[c])) \in Nat
        BY <1>2, NoticesType DEF Typed
      <4> QED
        BY <4>1, <4>2, <4>4, <4>5
    <3> QED
      BY <3>2, <3>8, <3>9
  <2> QED
    BY <1>7, <2>3, <2>4, <2>5 DEF Good
<1> QED
  BY <1>6, <1>7

(* The sender is told of no message that is passed on. *)
LEMMA ReportedAppend ==
  ASSUME Typed, NEW s \in Client, NEW d \in Client, NEW m \in For(d), m.id = 6,
         notices' = notices, inbox'[d] = Append(inbox[d], m),
         \A e \in Client \ {d} : inbox'[e] = inbox[e]
  PROVE  Reported(s)' = Reported(s)
<1>1. /\ Reported(s) = notices[s] + Cardinality(Notices(inbox[s]))
      /\ Reported(s)' = notices[s] + Cardinality(Notices(inbox'[s]))
  BY DEF Reported, Notices
<1>2. CASE s = d
  <2>1. inbox[d] \in Seq(For(d))
    BY DEF Typed, Origin
  <2>2. Cardinality(Notices(Append(inbox[d], m))) = Cardinality(Notices(inbox[d])) + 0
    BY <2>1, NoticesAppend
  <2>3. Cardinality(Notices(inbox[d])) \in Nat
    BY <2>1, NoticesType
  <2>4. Cardinality(Notices(inbox'[d])) = Cardinality(Notices(inbox[d]))
    BY <2>2, <2>3
  <2> QED
    BY <1>1, <1>2, <2>4
<1>3. CASE s # d
  BY <1>1, <1>3
<1> QED
  BY <1>2, <1>3

(* What the handler of c holds comes from c; it goes to a connection that  *)
(* is registered for the users opposite, or nowhere.                       *)
LEMMA ForwardCases ==
  ASSUME Typed, Life, NEW c \in Client, Forward(c)
  PROVE  /\ handling[c] \in Mine(c) /\ handling[c].id = 5 /\ handling'[c] = None
         /\ \A s \in Client \ {c} : handling'[s] = handling[s]
         /\ \/ inbox' = inbox /\ RemoteId(c) \in left
            \/ \E d \in Client : /\ Id(d) = RemoteId(c)
                                /\ inbox'[d] = Append(inbox[d], Forwarded(handling[c]))
                                /\ \A e \in Client \ {d} : inbox'[e] = inbox[e]
<1>1. /\ handling[c] # None /\ handling' = [handling EXCEPT ![c] = None]
      /\ handling \in [Client -> Sends \cup {None}] /\ Origin(c)
      /\ IF pool[handling[c].to_user] # None
         THEN Deliver(pool[handling[c].to_user], Forwarded(handling[c]))
         ELSE inbox' = inbox
  BY DEF Forward, Typed, RelayTypeOK
<1>2. handling[c] \in Mine(c) /\ handling[c].id = 5 /\ handling[c].to_user = RemoteId(c)
  BY <1>1, MineType DEF Origin
<1>3. RemoteId(c) \in User
  BY DEF RemoteId, User
<1>4. CASE pool[RemoteId(c)] = None
  BY <1>1, <1>2, <1>4 DEF Life
<1>5. CASE pool[RemoteId(c)] # None
  <2> DEFINE d == pool[RemoteId(c)]
  <2>1. d \in Client /\ Id(d) = RemoteId(c) /\ proc[d] # "off"
    BY <1>3, <1>5 DEF Life, Typed, RelayTypeOK
  <2>2. Deliver(d, Forwarded(handling[c]))
    BY <1>1, <1>2, <1>5
  <2> HIDE DEF d
  <2>3. Forwarded(handling[c]) \in For(d)
    BY <1>2, <2>1, ForwardedMine
  <2>4. CASE proc[d] = "up"
    BY <1>1, <1>2, <2>1, <2>2, <2>3, <2>4, Delivers
  <2>5. CASE proc[d] # "up"
    <3>1. proc[d] = "down"
      BY <2>1, <2>5 DEF Typed, BaseTypeOK
    <3>2. RemoteId(c) \in left
      BY <2>1, <3>1 DEF Life
    <3>3. inbox' = inbox
      BY <2>2, <2>5 DEF Deliver
    <3> QED
      BY <1>1, <1>2, <3>2, <3>3
  <2> QED
    BY <2>4, <2>5
<1> QED
  BY <1>4, <1>5

LEMMA ForwardGood ==
  ASSUME Typed, Life, NEW c \in Client, Forward(c), UNCHANGED <<sent, got, notices, left>>,
         NEW s \in Client, Good(s)
  PROVE  Good(s)'
<1>0. UNCHANGED <<proc, outbox, sent, got, notices, left>> /\ handling[c] # None
  BY DEF Forward
<1>1. /\ handling[c] \in Mine(c) /\ handling[c].id = 5 /\ handling'[c] = None
      /\ \A e \in Client \ {c} : handling'[e] = handling[e]
  BY ForwardCases
<1>2. Out(s)' = Out(s) /\ \A d \in Client : Read(d, s)' = Read(d, s)
  BY <1>0 DEF Out, Read
<1>3. s # c => InHand(s)' = InHand(s)
  BY <1>1 DEF InHand
<1>4. InHand(c)' = {} /\ InHand(c) = {handling[c].message.from[2]}
  BY <1>0, <1>1 DEF InHand
<1>5. CASE inbox' = inbox /\ RemoteId(c) \in left
  <2>1. Lined(s)'
    BY <1>0, <1>5 DEF Good, Lined
  <2>2. Reported(s)' = Reported(s) /\ \A d \in Client : Before(d, s)' = Before(d, s)
    BY <1>0, <1>5 DEF Reported, Before
  <2>3. InHand(s)' \subseteq InHand(s)
    BY <1>3, <1>4
  <2>4. Placed(s)'
    BY <1>0, <1>2, <2>2, <2>3, PlacedLess DEF Good
  <2>5. CASE s = c
    <3>1. Account(c)'
      BY <1>0, <1>5 DEF Account
    <3> QED
      BY <2>1, <2>4, <2>5, <3>1 DEF Good
  <2>6. CASE s # c
    <3>1. Waiting(s)' = Waiting(s) /\ Delivered(s)' = Delivered(s)
      BY <1>2, <1>3, <2>2, <2>6 DEF Waiting, Delivered, DeliveredTo, Out, Before, Read
    <3>2. Account(s)'
      BY <1>0, <2>2, <3>1, GoneKept, AccountKept DEF Good
    <3> QED
      BY <2>1, <2>4, <3>2 DEF Good
  <2> QED
    BY <2>5, <2>6
<1>6. ASSUME NEW d \in Client, Id(d) = RemoteId(c),
             inbox'[d] = Append(inbox[d], Forwarded(handling[c])),
             \A e \in Client \ {d} : inbox'[e] = inbox[e]
      PROVE  Good(s)'
  <2> DEFINE m == Forwarded(handling[c])
             n == handling[c].message.from[2]
  <2>1. /\ m \in For(d) /\ m.id = 6 /\ NumberOf(m, c) = {n}
        /\ \A e \in Client \ {c} : NumberOf(m, e) = {}
    BY <1>1, <1>6, ForwardedMine
  <2>2. inbox'[d] = Append(inbox[d], m) /\ InHand(c) = {n} /\ inbox[d] \in Seq(For(d))
    BY <1>4, <1>6 DEF Typed, Origin
  <2> HIDE DEF m, n
  <2>3. Reported(s)' = Reported(s)
    BY <1>0, <1>6, <2>1, <2>2, ReportedAppend
  <2>4. Below(Numbers(inbox[d], s), NumberOf(m, s))
    <3>1. CASE s # c
      BY <2>1, <3>1 DEF Below
    <3>2. CASE s = c
      <4>1. Below(DeliveredTo(d, c), Waiting(c))
        BY <3>2 DEF Good, Placed
      <4>2. n \in Waiting(c) /\ Numbers(inbox[d], c) \subseteq DeliveredTo(d, c)
        BY <2>2 DEF Waiting, DeliveredTo
      <4> QED
        BY <2>1, <3>2, <4>1, <4>2 DEF Below
    <3> QED
      BY <3>1, <3>2
  <2>5. /\ Numbers(inbox'[d], s) = Numbers(inbox[d], s) \cup NumberOf(m, s)
        /\ Rising(inbox[d], s) => Rising(inbox'[d], s)
    <3>1. /\ Numbers(Append(inbox[d], m), s) = Numbers(inbox[d], s) \cup NumberOf(m, s)
          /\ Rising(inbox[d], s) => Rising(Append(inbox[d], m), s)
      BY <2>1, <2>2, <2>4, NumbersAppend
    <3> QED
      BY <2>2, <3>1
  <2>6. Lined(s)'
    BY <1>0, <1>6, <2>5 DEF Good, Lined
  <2>7. Before(d, s)' = Before(d, s) \cup NumberOf(m, s)
    BY <2>5 DEF Before
  <2>8. \A e \in Client \ {d} : Before(e, s)' = Before(e, s)
    BY <1>6 DEF Before
  <2>9. CASE s = c
    <3>1. Placed(c)'
      BY <1>0, <1>2, <1>4, <2>1, <2>2, <2>7, <2>8, <2>9, PlacedDelivered DEF Good
    <3>2. Waiting(c)' \cup Delivered(c)' = Waiting(c) \cup Delivered(c)
      <4>1. /\ Waiting(c) = Out(c) \cup {n} /\ Waiting(c)' = Out(c)
            /\ DeliveredTo(d, c)' = DeliveredTo(d, c) \cup {n}
            /\ \A e \in Client \ {d} : DeliveredTo(e, c)' = DeliveredTo(e, c)
        BY <1>2, <1>4, <2>1, <2>2, <2>7, <2>8, <2>9
        DEF Waiting, DeliveredTo, Out, Before, Read
      <4>2. Delivered(c)' = Delivered(c) \cup {n}
        BY <4>1 DEF Delivered
      <4> QED
        BY <4>1, <4>2
    <3>3. Account(c)'
      BY <1>0, <2>3, <2>9, <3>2, GoneKept, AccountKept DEF Good
    <3> QED
      BY <2>6, <2>9, <3>1, <3>3 DEF Good
  <2>10. CASE s # c
    <3>1. \A e \in Client : Before(e, s)' = Before(e, s)
      BY <2>1, <2>7, <2>8, <2>10
    <3>2. Placed(s)'
      BY <1>0, <1>2, <1>3, <2>10, <3>1, PlacedLess DEF Good
    <3>3. Waiting(s)' = Waiting(s) /\ Delivered(s)' = Delivered(s)
      BY <1>2, <1>3, <2>10, <3>1 DEF Waiting, Delivered, DeliveredTo, Out, Before, Read
    <3>4. Account(s)'
      BY <1>0, <2>3, <3>3, GoneKept, AccountKept DEF Good
    <3> QED
      BY <2>6, <3>2, <3>4 DEF Good
  <2> QED
    BY <2>9, <2>10
<1> QED
  BY <1>5, <1>6, ForwardCases

LEMMA ReadsGood ==
  ASSUME Typed, NEW c \in Client, ClientReads(c), NEW s \in Client, Good(s)
  PROVE  Good(s)'
<1> DEFINE m == Head(inbox[c])
<1>0. /\ UNCHANGED <<proc, outbox, handling, sent, left>> /\ inbox[c] # <<>>
      /\ inbox'[c] = Tail(inbox[c])
      /\ \A d \in Client \ {c} : inbox'[d] = inbox[d] /\ got'[d] = got[d] /\ notices'[d] = notices[d]
      /\ got'[c] = IF m.id = 6 THEN Append(got[c], m) ELSE got[c]
      /\ notices'[c] = IF m.id = 200 THEN notices[c] + 1 ELSE notices[c]
  BY DEF ClientReads, Receive, relayVars, Typed, BaseTypeOK
<1>1. /\ inbox[c] \in Seq(For(c)) /\ m \in For(c)
      /\ got[c] \in Seq({x \in For(c) : x.id = 6}) /\ got[c] \in Seq(For(c))
  <2>1. inbox[c] \in Seq(For(c)) /\ got[c] \in Seq({x \in For(c) : x.id = 6})
    BY DEF Typed, Origin
  <2> QED
    BY <1>0, <2>1
<1>2. /\ Numbers(inbox[c], s) = NumberOf(m, s) \cup Numbers(inbox'[c], s)
      /\ Rising(inbox[c], s) => Rising(inbox'[c], s) /\ Below(NumberOf(m, s), Numbers(inbox'[c], s))
  <2>1. /\ Numbers(inbox[c], s) = NumberOf(Head(inbox[c]), s) \cup Numbers(Tail(inbox[c]), s)
        /\ Rising(inbox[c], s) =>
             /\ Rising(Tail(inbox[c]), s)
             /\ Below(NumberOf(Head(inbox[c]), s), Numbers(Tail(inbox[c]), s))
    <3>1. inbox[c] \in Seq(For(c)) /\ inbox[c] # <<>>
      BY <1>0, <1>1
    <3> QED
      BY <3>1, NumbersTail
  <2> QED
    BY <1>0, <2>1
<1>3. m.id \in {6, 200} /\ (m.id = 200 => NumberOf(m, s) = {})
  BY <1>1, ForType
<1> HIDE DEF m
<1>4. Below(Numbers(got[c], s), NumberOf(m, s))
  <2>1. Below(Numbers(got[c], s), Numbers(inbox[c], s))
    BY DEF Good, Placed
  <2> QED
    BY <1>2, <2>1 DEF Below
<1>5. /\ Numbers(got'[c], s) = Numbers(got[c], s) \cup NumberOf(m, s)
      /\ Rising(got[c], s) => Rising(got'[c], s)
  <2>1. CASE m.id = 6
    <3>1. /\ Numbers(Append(got[c], m), s) = Numbers(got[c], s) \cup NumberOf(m, s)
          /\ Rising(got[c], s) => Rising(Append(got[c], m), s)
      BY <1>1, <1>4, NumbersAppend
    <3> QED
      BY <1>0, <2>1, <3>1
  <2>2. CASE m.id = 200
    BY <1>0, <1>3, <2>2
  <2> QED
    BY <1>3, <2>1, <2>2
<1>6. Reported(s)' = Reported(s)
  <2>1. /\ Reported(s) = notices[s] + Cardinality(Notices(inbox[s]))
        /\ Reported(s)' = notices'[s] + Cardinality(Notices(inbox'[s]))
    BY DEF Reported, Notices
  <2>2. CASE s # c
    BY <1>0, <2>1, <2>2
  <2>3. CASE s = c
    <3>1. Cardinality(Notices(inbox[c]))
            = Cardinality(Notices(Tail(inbox[c]))) + (IF Head(inbox[c]).id = 200 THEN 1 ELSE 0)
      BY <1>0, <1>1, NoticesTail
    <3>2. Cardinality(Notices(Tail(inbox[c]))) \in Nat /\ notices[c] \in Nat
      <4>1. Tail(inbox[c]) \in Seq(For(c))
        BY <1>0, <1>1
      <4> QED
        BY <4>1, NoticesType DEF Typed
    <3> QED
      BY <1>0, <2>1, <2>3, <3>1, <3>2 DEF m
  <2> QED
    BY <2>2, <2>3
<1>7. /\ Out(s)' = Out(s) /\ InHand(s)' = InHand(s)
      /\ Before(c, s) = NumberOf(m, s) \cup Before(c, s)' /\ Below(NumberOf(m, s), Before(c, s)')
      /\ Read(c, s)' = Read(c, s) \cup NumberOf(m, s)
  BY <1>0, <1>2, <1>5 DEF Out, InHand, Before, Read, Good, Lined
<1>8. \A d \in Client \ {c} : Before(d, s)' = Before(d, s) /\ Read(d, s)' = Read(d, s)
  BY <1>0 DEF Before, Read
<1>9. Lined(s)'
  BY <1>0, <1>2, <1>5 DEF Good, Lined
<1>10. Placed(s)'
  BY <1>0, <1>7, <1>8, PlacedRead DEF Good
<1>11. Waiting(s)' \cup Delivered(s)' = Waiting(s) \cup Delivered(s)
  BY <1>7, <1>8 DEF Waiting, Delivered, DeliveredTo, Out, Before, Read
<1>12. Account(s)'
  BY <1>0, <1>6, <1>11, GoneKept, AccountKept DEF Good
<1> QED
  BY <1>9, <1>10, <1>12 DEF Good

LEMMA EndsGood ==
  ASSUME Typed, NEW c \in Client, ClientEnds(c), NEW s \in Client, Good(s)
  PROVE  Good(s)'
<1>0. /\ UNCHANGED <<handling, sent, got, notices>> /\ left' = left \cup {Id(c)}
      /\ proc' = [proc EXCEPT ![c] = "down"]
      /\ inbox'[c] = <<>> /\ \A d \in Client \ {c} : inbox'[d] = inbox[d] /\ outbox'[d] = outbox[d]
      /\ \E n \in 0..Len(outbox[c]) : outbox'[c] = SubSeq(outbox[c], 1, n)
      /\ proc \in [Client -> {"off", "up", "down"}] /\ outbox[c] \in Seq(Mine(c))
  BY DEF ClientEnds, Exit, Die, relayVars, Typed, BaseTypeOK, Origin
<1>1. /\ Numbers(outbox'[c], s) \subseteq Numbers(outbox[c], s)
      /\ Rising(outbox[c], s) => Rising(outbox'[c], s)
  <2>1. PICK n \in 0..Len(outbox[c]) : outbox'[c] = SubSeq(outbox[c], 1, n)
    BY <1>0
  <2>2. /\ Numbers(SubSeq(outbox[c], 1, n), s) \subseteq Numbers(outbox[c], s)
        /\ Rising(outbox[c], s) => Rising(SubSeq(outbox[c], 1, n), s)
    BY <1>0, NumbersPrefix
  <2> QED
    BY <2>1, <2>2
<1>2. Numbers(inbox'[c], s) = {} /\ Rising(inbox'[c], s)
  BY <1>0, NumbersNone
<1>3. Lined(s)'
  <2>1. Rising(outbox'[s], s)
    BY <1>0, <1>1 DEF Good, Lined
  <2> QED
    BY <1>0, <1>2, <2>1 DEF Good, Lined
<1>4. /\ Out(s)' \subseteq Out(s) /\ (s # c => Out(s)' = Out(s)) /\ InHand(s)' = InHand(s)
      /\ Before(c, s)' = {} /\ \A d \in Client \ {c} : Before(d, s)' = Before(d, s)
      /\ \A d \in Client : Read(d, s)' = Read(d, s)
  BY <1>0, <1>1, <1>2 DEF Out, InHand, Before, Read
<1>5. Placed(s)'
  BY <1>0, <1>4, PlacedLess DEF Good
<1>6. Account(s)'
  <2>1. CASE s = c \/ RemoteId(s) = Id(c)
    BY <1>0, <2>1 DEF Account
  <2>2. CASE s # c /\ RemoteId(s) # Id(c)
    <3>1. Before(c, s) = {}
      BY <2>2, NumbersType DEF Before
    <3>2. Waiting(s)' = Waiting(s) /\ Delivered(s)' = Delivered(s)
      BY <1>4, <2>2, <3>1 DEF Waiting, Delivered, DeliveredTo, Out, Before, Read
    <3>3. Reported(s)' = Reported(s)
      <4>1. inbox'[s] = inbox[s] /\ notices' = notices
        BY <1>0, <2>2
      <4> QED
        BY <4>1 DEF Reported
    <3> QED
      BY <1>0, <2>2, <3>2, <3>3, GoneKept, AccountKept DEF Good
  <2> QED
    BY <2>1, <2>2
<1> QED
  BY <1>3, <1>5, <1>6 DEF Good

(***************************************************************************)
(* The invariant.                                                          *)
(***************************************************************************)
LEMMA RelayInvInit == ASSUME Init PROVE RelayInv
BY TypedInit, LifeInit, GoodInit DEF RelayInv, Good

LEMMA GoodClient ==
  ASSUME Typed, NEW c \in Client, NEW s \in Client, Good(s),
         \/ ClientStarts(c) \/ ClientSignsIn(c) \/ ClientSends(c) \/ ClientSignsOff(c)
         \/ ClientReads(c) \/ ClientEnds(c)
  PROVE  Good(s)'
<1>1. CASE ClientStarts(c)
  <2>1. UNCHANGED <<outbox, inbox, handling, sent, got, notices, left>> /\ proc[c] = "off"
        /\ \A d \in Client \ {c} : proc'[d] = proc[d]
    BY <1>1 DEF ClientStarts, Boot, relayVars, Typed, BaseTypeOK
  <2> QED
    BY <2>1, StillGood DEF Out
<1>2. CASE ClientSignsIn(c)
  <2>1. UNCHANGED <<proc, inbox, handling, sent, got, notices, left>> /\ Write(c, [id |-> 1])
    BY <1>2 DEF ClientSignsIn, SignIn, relayVars
  <2>2. [id |-> 1] \in Mine(c) /\ [id |-> 1].id # 5
    BY DEF Mine
  <2> QED
    BY <2>1, <2>2, WriteOther, StillGood
<1>3. CASE ClientSends(c)
  BY <1>3, SendsGood
<1>4. CASE ClientSignsOff(c)
  <2>1. /\ UNCHANGED <<proc, inbox, handling, sent, got, notices>> /\ Write(c, [id |-> 3])
        /\ left \subseteq left'
    BY <1>4 DEF ClientSignsOff, relayVars
  <2>2. [id |-> 3] \in Mine(c) /\ [id |-> 3].id # 5
    BY DEF Mine
  <2> QED
    BY <2>1, <2>2, WriteOther, StillGood
<1>5. CASE ClientReads(c)
  BY <1>5, ReadsGood
<1>6. CASE ClientEnds(c)
  BY <1>6, EndsGood
<1> QED
  BY <1>1, <1>2, <1>3, <1>4, <1>5, <1>6

LEMMA GoodHandler ==
  ASSUME Typed, Life, NEW c \in Client, Handler(c), NEW s \in Client, Good(s)
  PROVE  Good(s)'
<1>0. UNCHANGED <<sent, got, notices, left>>
  BY DEF Handler
<1>1. CASE Online(c) \/ Offline(c)
  <2>1. UNCHANGED <<proc, inbox, handling>> /\ (Take(c, 1) \/ Take(c, 3))
    BY <1>1 DEF Online, Offline
  <2>2. Out(s)' = Out(s) /\ (Rising(outbox[s], s) => Rising(outbox'[s], s))
    BY <2>1, TakeOther
  <2> QED
    BY <1>0, <2>1, <2>2, StillGood
<1>2. CASE SendOnline(c)
  BY <1>0, <1>2, SendOnlineGood
<1>3. CASE SendOffline(c)
  BY <1>0, <1>3, SendOfflineGood
<1>4. CASE Forward(c)
  BY <1>0, <1>4, ForwardGood
<1>5. CASE ConnClosed(c)
  BY <1>0, <1>5, StillGood DEF ConnClosed, Out
<1> QED
  BY <1>1, <1>2, <1>3, <1>4, <1>5 DEF Handler, RelayStep, Serve

LEMMA RelayInvNext == ASSUME RelayInv, [Next]_vars PROVE RelayInv'
<1>0. Typed /\ Life /\ \A s \in Client : Good(s)
  BY DEF RelayInv, Good
<1>1. CASE Next
  <2>1. PICK c \in Client :
          \/ \/ ClientStarts(c) \/ ClientSignsIn(c) \/ ClientSends(c) \/ ClientSignsOff(c)
             \/ ClientReads(c) \/ ClientEnds(c)
          \/ Handler(c)
    BY <1>1 DEF Next
  <2>2. Typed' /\ Life'
    BY <1>0, <2>1, TypedClient, LifeClient, TypedHandler, LifeHandler
  <2>3. \A s \in Client : Good(s)'
    BY <1>0, <2>1, GoodClient, GoodHandler
  <2> QED
    BY <2>2, <2>3 DEF RelayInv, Good
<1>2. CASE UNCHANGED vars
  <2>1. Typed'
    BY <1>0, <1>2 DEF vars, baseVars, relayVars, Typed, BaseTypeOK, RelayTypeOK, Origin
  <2>2. Life'
    BY <1>0, <1>2 DEF vars, baseVars, relayVars, Life
  <2>3. \A s \in Client : Good(s)'
    BY <1>0, <1>2, StillGood DEF vars, baseVars, relayVars, Out
  <2> QED
    BY <2>1, <2>2, <2>3 DEF RelayInv, Good
<1> QED
  BY <1>1, <1>2

LEMMA RelayInvHolds == Spec => []RelayInv
<1>1. Init => RelayInv
  BY RelayInvInit
<1>2. RelayInv /\ [Next]_vars => RelayInv'
  BY RelayInvNext
<1> QED
  BY <1>1, <1>2, PTL DEF Spec

(* Every variable of the relay and its clients has its type: what is in    *)
(* hand or in the pool is a message or a connection, and no client sends   *)
(* more than it may (server/service.go:57-123).                            *)
THEOREM TypeCorrect == Spec => []TypeOK
<1>1. RelayInv => TypeOK
  BY DEF RelayInv, Typed, RelayTypeOK, TypeOK, Sends
<1> QED
  BY <1>1, RelayInvHolds, PTL

(* A recipient reads the messages of one sender in the order they were     *)
(* sent and none twice, for any number of connections that come and go and *)
(* any length of the queues before them (server/service.go:86-123).        *)
THEOREM InOrderHolds == Spec => []InOrder
<1>1. ASSUME RelayInv PROVE InOrder
  <2> SUFFICES ASSUME NEW d \in Client, NEW i \in DOMAIN got[d], NEW j \in DOMAIN got[d],
                      i < j, got[d][i].message.from[1] = got[d][j].message.from[1]
               PROVE  got[d][i].message.from[2] < got[d][j].message.from[2]
    BY DEF InOrder
  <2> DEFINE c == got[d][i].message.from[1]
  <2>1. got[d][i] \in For(d) /\ got[d][i].id = 6 /\ got[d][j].id = 6
    <3>1. got[d] \in Seq({m \in For(d) : m.id = 6})
      BY <1>1 DEF RelayInv, Typed, Origin
    <3> QED
      BY <3>1
  <2>2. c \in Client
    <3>1. got[d][i].message \in SDP
      BY <2>1 DEF For
    <3> QED
      BY <3>1 DEF SDP, Session
  <2>3. Rising(got[d], c)
    BY <1>1, <2>2 DEF RelayInv, Lined
  <2> QED
    BY <2>1, <2>3 DEF Rising
<1> QED
  BY <1>1, RelayInvHolds, PTL

(* The relay loses no message and repeats none: nothing is delivered and   *)
(* still to be delivered, or delivered to two connections, and as long as  *)
(* nobody opposite has left, a sender is told once of each message that is *)
(* neither (server/service.go:101-122).                                    *)
THEOREM AccountedHolds == Spec => []Accounted
<1>1. ASSUME RelayInv PROVE Accounted
  <2> SUFFICES ASSUME NEW c \in Client
               PROVE  /\ Waiting(c) \cap Delivered(c) = {}
                      /\ \A d, e \in Client : d # e => DeliveredTo(d, c) \cap DeliveredTo(e, c) = {}
                      /\ proc[c] = "up" /\ RemoteId(c) \notin left
                           => Cardinality(Gone(c)) = Reported(c)
    BY DEF Accounted
  <2>1. Typed /\ Placed(c) /\ Account(c)
    BY <1>1 DEF RelayInv
  <2>2. Waiting(c) \cap Delivered(c) = {}
    <3>1. Waiting(c) \subseteq Nat
      BY <2>1, NumbersType DEF Waiting
    <3>2. \A d \in Client : Below(DeliveredTo(d, c), Waiting(c))
      BY <2>1 DEF Placed
    <3>3. ASSUME NEW n \in Waiting(c), NEW d \in Client, n \in DeliveredTo(d, c) PROVE FALSE
      <4>1. n < n /\ n \in Nat
        BY <3>1, <3>2, <3>3 DEF Below
      <4> QED
        BY <4>1
    <3> QED
      BY <3>3 DEF Delivered
  <2> QED
    BY <2>1, <2>2 DEF Placed, Account
<1> QED
  BY <1>1, RelayInvHolds, PTL

=============================================================================
