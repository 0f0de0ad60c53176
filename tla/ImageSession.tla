---------------------------- MODULE ImageSession ----------------------------
(***************************************************************************)
(* Sessions of the host program (host/uart_host.py) with the image server: *)
(* upload two frames in acknowledged blocks, set the threshold, compute,   *)
(* fetch the result and compare it.  The host may be killed and started    *)
(* again at any time, and the board reset at any time.                     *)
(***************************************************************************)
EXTENDS ImageServer

CONSTANTS
    Sessions,       \* command lines: [a, b, t, op]
    MaxTroubles     \* bound: kills, resets, and starts on an unready server

ASSUME SessionAssumption ==
    Sessions \subseteq
        [a : [0 .. Pixels - 1 -> Byte], b : [0 .. Pixels - 1 -> Byte],
         t : Byte, op : ServerOp]

VARIABLES
    host,       \* closed, running, ok or failed (how the last session ended)
    session, step,
    hq,         \* bytes written to the port and not yet received
    inbox,      \* bytes received for the host
    clean,      \* history: the session started on a ready server and has not
                \* been disturbed
    troubles    \* counts towards MaxTroubles

hostVars == <<host, session, step, hq, inbox>>
historyVars == <<clean, troubles>>
vars == <<serverVars, hostVars, historyVars>>

Trouble == troubles < MaxTroubles /\ troubles' = troubles + 1

-----------------------------------------------------------------------------
\* The bytes of frame f from n on, one write of upload().
Piece(f, n) == [k \in 1 .. Block |-> f[n + k - 1]]

UploadSteps(cmd, f) ==
    <<[send |-> <<cmd>>, ack |-> R]>> \o
    [k \in 1 .. Pixels \div Block |->
        [send |-> Piece(f, (k - 1) * Block), ack |-> K]]

\* What main() writes, and the acknowledgement it wants before it goes on.
Script(s) ==
    UploadSteps(1, s.a) \o UploadSteps(2, s.b) \o
    << [send |-> <<48, s.t>>, ack |-> K], [send |-> <<16 + s.op>>, ack |-> K],
       [send |-> <<32>>, ack |-> None] >>

Expected(s) == [n \in 1 .. Pixels |->
                    Golden(s.op, s.a[n - 1], s.b[n - 1], s.t)]

StepNow == Script(session)[step]

-----------------------------------------------------------------------------
ServerReady == Waiting /\ pc = "command"

\* The port is opened when nothing of an earlier process is left to send,
\* and its input is flushed.
Start ==
    /\ host # "running" /\ hq = <<>>
    /\ host' = "running"
    /\ session' \in Sessions
    /\ step' = 1
    /\ hq' = Script(session')[1].send
    /\ inbox' = <<>>
    /\ clean' = ServerReady /\ lost' = FALSE
    /\ IF ServerReady THEN UNCHANGED troubles ELSE Trouble
    /\ UNCHANGED <<box, tx, pc, out, dst, i, op, threshold, ram>>

\* ack(): one byte is read, and it has to be the right one.
Acknowledged ==
    /\ host = "running" /\ StepNow.ack # None
    /\ inbox # <<>> /\ Head(inbox) = StepNow.ack
    /\ inbox' = Tail(inbox)
    /\ step' = step + 1
    /\ hq' = hq \o Script(session)[step + 1].send
    /\ UNCHANGED <<serverVars, host, session, historyVars>>

WrongAck ==
    /\ host = "running" /\ StepNow.ack # None
    /\ inbox # <<>> /\ Head(inbox) # StepNow.ack
    /\ host' = "failed"
    /\ inbox' = <<>>
    /\ UNCHANGED <<serverVars, session, step, hq, historyVars>>

Result ==
    /\ host = "running" /\ StepNow.ack = None
    /\ Len(inbox) >= Pixels
    /\ host' = IF SubSeq(inbox, 1, Pixels) = Expected(session) THEN "ok"
                                                               ELSE "failed"
    /\ inbox' = <<>>
    /\ UNCHANGED <<serverVars, session, step, hq, historyVars>>

TimeoutNever == FALSE /\ UNCHANGED vars    \* mutant: the port has no timeout

\* The ten seconds of a read pass only when nothing is on its way.
Timeout ==
    /\ host = "running"
    /\ IF StepNow.ack = None THEN Len(inbox) < Pixels ELSE inbox = <<>>
    /\ hq = <<>> /\ Waiting
    /\ host' = "failed"
    /\ inbox' = <<>>
    /\ UNCHANGED <<serverVars, session, step, hq, historyVars>>

Killed ==
    /\ host = "running"
    /\ Trouble
    /\ host' = "closed"
    /\ inbox' = <<>>
    /\ clean' = FALSE
    /\ UNCHANGED <<serverVars, session, step, hq>>

\* The two directions of the line.
ToServer ==
    /\ hq # <<>>
    /\ Arrive(Head(hq))
    /\ hq' = Tail(hq)
    /\ UNCHANGED <<host, session, step, inbox, historyVars>>

ToHost ==
    /\ Sent
    /\ inbox' = IF host = "running" THEN Append(inbox, tx) ELSE inbox
    /\ UNCHANGED <<host, session, step, hq, historyVars>>

\* A byte of the host that comes in while the board is reset is lost.
BoardReset ==
    /\ Boot
    /\ ram' \in {ram, IF pc = "compute" THEN [ram EXCEPT !.X = Computed] ELSE ram}
    /\ lost' = lost
    /\ hq' \in {hq, IF hq = <<>> THEN hq ELSE Tail(hq)}
    /\ Trouble
    /\ clean' = FALSE
    /\ UNCHANGED <<host, session, step, inbox>>

Server == Serve /\ UNCHANGED <<hostVars, historyVars>>

Init ==
    /\ box = None /\ tx = None /\ lost = FALSE
    /\ pc = "command" /\ out = Banner
    /\ dst = "A" /\ i = 0 /\ op = 0 /\ threshold = 40
    /\ ram = [f \in {"A", "B", "X"} |-> [n \in Pixel |-> 0]]
    /\ host = "closed" /\ session \in Sessions /\ step = 1
    /\ hq = <<>> /\ inbox = <<>>
    /\ clean = FALSE /\ troubles = 0

HostStep == Acknowledged \/ WrongAck \/ Result \/ Timeout
Next ==
    \/ Start \/ HostStep \/ Killed
    \/ ToServer \/ ToHost \/ Server
    \/ BoardReset

Spec == Init /\ [][Next]_vars

(* The processor, the line and the host make their steps; nobody has to    *)
(* start a session, kill it or reset the board.                            *)
Fairness ==
    /\ WF_vars(HostStep) /\ WF_vars(Server)
    /\ WF_vars(ToServer) /\ WF_vars(ToHost)
FairSpec == Spec /\ Fairness

-----------------------------------------------------------------------------
(* A session that finds the server ready, and is not disturbed, does not   *)
(* fail: no acknowledgement is wrong, no byte is lost for want of buffers, *)
(* no read times out and the result is that of golden.py, whatever frames  *)
(* and threshold earlier sessions left.                                    *)
CleanSessionSucceeds == clean => host # "failed" /\ ~lost

(* And it leaves the server ready for the next one.                        *)
SuccessLeavesReady == clean /\ host = "ok" => ServerReady /\ hq = <<>>

(* The host never gets more than one message ahead of the server: while a  *)
(* session is undisturbed, bytes are on the way in one direction only.     *)
OneDirection == clean => hq = <<>> \/ (tx = None /\ out = <<>> /\ inbox = <<>>)

(* Every session ends, also one that meets a server in the middle of       *)
(* something else.                                                         *)
SessionsEnd == host = "running" ~> host # "running"
=============================================================================
