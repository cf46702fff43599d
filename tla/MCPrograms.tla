----------------------------- MODULE MCPrograms -----------------------------
EXTENDS Programs

\* A file as a user writes it, apart from one key.
GoodFile ==
  [Default EXCEPT !.serverIp = "10.0.0.1", !.serverPort = 10016, !.stunPort = 3478,
                  !.localPort = 18001, !.id = 2, !.remoteId = 1, !.groupId = 3,
                  !.joystickFreq = 60, !.video = TRUE, !.audio = TRUE, !.cmd = TRUE,
                  !.cmdServicePort = 10018, !.servicePort = 10026,
                  !.packageLen = 1000, !.forwardPort = 10027]

MCFiles ==
  {[GoodFile EXCEPT ![k] = v] :
     k \in Key \ {"serverIp"}, v \in {Missing, Bad}}
  \cup {[GoodFile EXCEPT !.serverIp = Missing]}
  \cup {[GoodFile EXCEPT !.joystickFreq = f] : f \in {-1, 0, 1, 1000000000, 2000000000}}
  \cup {[GoodFile EXCEPT !.serverPort = 70000]}
  \cup {[GoodFile EXCEPT !.gstreamerCli = TRUE]}
=============================================================================
