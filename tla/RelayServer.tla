---------------------------- MODULE RelayServer ----------------------------
(***************************************************************************)
(* server.Service: the three message handlers of server/service.go over    *)
(* tcpx's pool of online users.  tcpx runs one goroutine per connection,   *)
(* which handles that connection's messages one after the other; handlers  *)
(* of different connections interleave.                                    *)
(***************************************************************************)
EXTENDS BaseService

VARIABLES
  pool,     \* user -> the connection registered for it (tcpx ClientPool)
  handling  \* connection -> the message send() has found a recipient for

relayVars == <<pool, handling>>

ASSUME RelayAssumption == None \notin ToServer

RelayInit ==
  /\ pool = [u \in User |-> None]
  /\ handling = [c \in Client |-> None]

(* The handler goroutine of connection c takes its next message. *)
Take(c, id) ==
  /\ handling[c] = None
  /\ outbox[c] # <<>>
  /\ Head(outbox[c]).id = id
  /\ outbox' = [outbox EXCEPT ![c] = Tail(@)]

(* Writing to connection d: blocks while d reads nothing, and is lost once *)
(* d's process has gone.                                                   *)
Deliver(d, m) ==
  IF proc[d] = "up"
  THEN /\ Len(inbox[d]) < SocketCap
       /\ inbox' = [inbox EXCEPT ![d] = Append(@, m)]
  ELSE UNCHANGED inbox

(* online: a later connection of the same user takes over its name. *)
Online(c) ==
  /\ Take(c, 1)
  /\ pool' = [pool EXCEPT ![Id(c)] = c]
  /\ UNCHANGED <<proc, signedIn, chans, inbox, run, sess, handling>>

Offline(c) ==
  /\ Take(c, 3)
  /\ pool' = [pool EXCEPT ![Id(c)] = None]
  /\ UNCHANGED <<proc, signedIn, chans, inbox, run, sess, handling>>

(* send, first half: GetClientPool(req.ToUser).IsOnline() *)
SendOnline(c) ==
  /\ Take(c, 5)
  /\ pool[Head(outbox[c]).to_user] # None
  /\ handling' = [handling EXCEPT ![c] = Head(outbox[c])]
  /\ UNCHANGED <<proc, signedIn, chans, inbox, run, sess, pool>>

(* Mutant: the sender is not told. *)
SendOfflineSilent(c) ==
  /\ Take(c, 5)
  /\ pool[Head(outbox[c]).to_user] = None
  /\ UNCHANGED <<proc, signedIn, chans, inbox, run, sess, pool, handling>>

(* The user is offline: the sender is told so. *)
SendOffline(c) ==
  /\ Take(c, 5)
  /\ pool[Head(outbox[c]).to_user] = None
  /\ Deliver(c, [id |-> 200])
  /\ UNCHANGED <<proc, signedIn, chans, run, sess, pool, handling>>

(* Mutant: the request is passed on as it came. *)
ForwardedAsIs(m) == m

(* What the recipient is sent: FromUser is filled with req.ToUser. *)
Forwarded(m) ==
  [id |-> 6, from_user |-> m.to_user, messageType |-> m.messageType,
   message |-> m.message]

(* Mutant: the message is delivered and kept for another try. *)
ForwardAndKeep(c) ==
  LET m == handling[c] IN
  /\ m # None
  /\ IF pool[m.to_user] # None
     THEN /\ Deliver(pool[m.to_user], Forwarded(m))
          /\ UNCHANGED handling
     ELSE /\ handling' = [handling EXCEPT ![c] = None]
          /\ UNCHANGED inbox
  /\ UNCHANGED <<proc, signedIn, chans, outbox, run, sess, pool>>

(* Mutant: the handler waits for the recipient to come back. *)
ForwardWaits(c) ==
  LET m == handling[c] IN
  /\ m # None
  /\ pool[m.to_user] # None
  /\ handling' = [handling EXCEPT ![c] = None]
  /\ Deliver(pool[m.to_user], Forwarded(m))
  /\ UNCHANGED <<proc, signedIn, chans, outbox, run, sess, pool>>

(* send, second half: SendToUsername looks the user up again.  An error,   *)
(* the user having gone in between, is only logged.                        *)
Forward(c) ==
  LET m == handling[c] IN
  /\ m # None
  /\ handling' = [handling EXCEPT ![c] = None]
  /\ IF pool[m.to_user] # None
     THEN Deliver(pool[m.to_user], Forwarded(m))
     ELSE UNCHANGED inbox
  /\ UNCHANGED <<proc, signedIn, chans, outbox, run, sess, pool>>

(* The library notices that a connection has ended and takes its user      *)
(* offline.  By name or by connection, the code cannot tell: both are      *)
(* allowed, so a late notice may also remove a newer connection.  It is    *)
(* noticed once: signedIn is cleared with it.                              *)
ConnClosed(c) ==
  /\ proc[c] = "down"
  /\ outbox[c] = <<>>
  /\ handling[c] = None
  /\ signedIn[c]
  /\ signedIn' = [signedIn EXCEPT ![c] = FALSE]
  /\ \/ pool' = [pool EXCEPT ![Id(c)] = None]
     \/ pool[Id(c)] # c /\ UNCHANGED pool
  /\ UNCHANGED <<proc, chans, outbox, inbox, run, sess, handling>>

(* The clients of the repository never send message 3, so what serves them *)
(* is all but Offline.                                                     *)
Serve(c) ==
  \/ Online(c)
  \/ SendOnline(c)
  \/ SendOffline(c)
  \/ Forward(c)
  \/ ConnClosed(c)

RelayStep(c) == Serve(c) \/ Offline(c)

=============================================================================
