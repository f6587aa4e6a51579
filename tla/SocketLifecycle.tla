-------------------------- MODULE SocketLifecycle --------------------------
(***************************************************************************)
(* The life of RistSocket handles (rist-transport/src/socket.rs) over the    *)
(* port pairs they bind (channel.rs): opening, which can fail half-way,      *)
(* close, dropping the handle without close, and the end of the task that    *)
(* owns the two UDP sockets.  SO_REUSEADDR is set, so handles may share a    *)
(* port; Foreign ports belong to processes that do not share.                *)
(***************************************************************************)
EXTENDS Integers

CONSTANTS Handles, Asked,   \* handles, and the ports of config.local_addr
          Foreign,          \* ports no bind can get
          Ephemeral         \* ports the system picks from for port 0

ASSUME SocketAssumption == Asked \cup Foreign \cup Ephemeral \subseteq Nat

NoPort == -1

VARIABLES phase,   \* "idle", "rtp", "open", "failed", "closed" or "dropped"
          role,    \* RistRole
          asked,   \* the port asked for
          rtp,     \* port of the RTP socket while it is open, else NoPort
          rtcp,    \* ... and of the RTCP socket
          task     \* the spawned task: "none", "starting" or "running"

lvars == <<phase, role, asked, rtp, rtcp, task>>

LInit ==
  /\ phase = [h \in Handles |-> "idle"]
  /\ role \in [Handles -> {"Sender", "Receiver"}]
  /\ asked = [h \in Handles |-> NoPort]
  /\ rtp = [h \in Handles |-> NoPort] /\ rtcp = [h \in Handles |-> NoPort]
  /\ task = [h \in Handles |-> "none"]

\* The port a socket gets when it binds to p.
create_udp_socket(p) == IF p = 0 THEN Ephemeral \ Foreign ELSE {p} \ Foreign

\* bind refuses an odd port; else the RTP socket comes first.
BindRtp(h, p) ==
  /\ phase[h] = "idle"
  /\ asked' = [asked EXCEPT ![h] = p]
  /\ \/ /\ p % 2 = 1
        /\ phase' = [phase EXCEPT ![h] = "failed"] /\ UNCHANGED rtp
     \/ /\ p % 2 = 0
        /\ phase' = [phase EXCEPT ![h] = "rtp"]
        /\ \E q \in create_udp_socket(p) : rtp' = [rtp EXCEPT ![h] = q]
  /\ UNCHANGED <<role, rtcp, task>>

\* The RTCP socket, on the next port; then the task is spawned and takes both.
BindRtcp(h) ==
  /\ phase[h] = "rtp"
  /\ \E q \in create_udp_socket(asked[h] + 1) : rtcp' = [rtcp EXCEPT ![h] = q]
  /\ phase' = [phase EXCEPT ![h] = "open"]
  /\ task' = [task EXCEPT ![h] = "starting"]
  /\ UNCHANGED <<role, asked, rtp>>

\* Mutant: the first socket stays open when the second cannot be bound.
BindFailsHalf(h) ==
  /\ phase[h] \in {"idle", "rtp"}
  /\ phase' = [phase EXCEPT ![h] = "failed"]
  /\ UNCHANGED <<role, asked, rtp, rtcp, task>>

\* Creating or binding either socket fails; what was open is dropped.
BindFails(h) ==
  /\ phase[h] \in {"idle", "rtp"}
  /\ phase' = [phase EXCEPT ![h] = "failed"]
  /\ rtp' = [rtp EXCEPT ![h] = NoPort]
  /\ UNCHANGED <<role, asked, rtcp, task>>

close(h) ==
  /\ phase[h] = "open"
  /\ phase' = [phase EXCEPT ![h] = "closed"]
  /\ UNCHANGED <<role, asked, rtp, rtcp, task>>

\* There is no impl Drop: the token is not cancelled, the task is detached.
DropHandle(h) ==
  /\ phase[h] = "open"
  /\ phase' = [phase EXCEPT ![h] = "dropped"]
  /\ UNCHANGED <<role, asked, rtp, rtcp, task>>

\* The task gets to its loop.
StartTask(h) ==
  /\ task[h] = "starting"
  /\ task' = [task EXCEPT ![h] = "running"]
  /\ UNCHANGED <<phase, role, asked, rtp, rtcp>>

EndTask(h) ==
  /\ task' = [task EXCEPT ![h] = "none"]
  /\ rtp' = [rtp EXCEPT ![h] = NoPort] /\ rtcp' = [rtcp EXCEPT ![h] = NoPort]
  /\ UNCHANGED <<phase, role, asked>>

\* local_addr fails: the ? of the receiver, or the unwrap for want of a cname.
StartFails(h) == task[h] = "starting" /\ EndTask(h)

\* Mutant: the sender goes on when the application channel is closed.
SenderReturnsOnClose(h) ==
  task[h] = "running" /\ role[h] = "Sender" /\ phase[h] = "closed" /\ EndTask(h)

\* The sender's loop breaks when cancelled, and when its channel is closed,
\* which happens with the handle.
SenderReturns(h) ==
  task[h] = "running" /\ role[h] = "Sender" /\ phase[h] \in {"closed", "dropped"} /\ EndTask(h)

\* The receiver's loop breaks only when cancelled; the task then joins the
\* delivery thread, which DrainThread looks at.
ReceiverReturns(h) ==
  task[h] = "running" /\ role[h] = "Receiver" /\ phase[h] = "closed" /\ EndTask(h)

\* An error of the RTCP socket ends the sender's task.
SenderFails(h) == task[h] = "running" /\ role[h] = "Sender" /\ EndTask(h)

LNext ==
  \E h \in Handles :
    \/ \E p \in Asked : BindRtp(h, p)
    \/ BindRtcp(h) \/ BindFails(h) \/ close(h) \/ DropHandle(h)
    \/ StartTask(h) \/ StartFails(h) \/ SenderReturns(h) \/ ReceiverReturns(h) \/ SenderFails(h)

LSpec == LInit /\ [][LNext]_lvars

\* The runtime polls the tasks that can go on.
LFairSpec == LSpec /\ \A h \in Handles : WF_lvars(StartTask(h)) /\ WF_lvars(SenderReturns(h))

-----------------------------------------------------------------------------
(* Properties *)

\* Every variable has its type; a bound socket has a port, never 0.
LTypeOK ==
  /\ phase \in [Handles -> {"idle", "rtp", "open", "failed", "closed", "dropped"}]
  /\ role \in [Handles -> {"Sender", "Receiver"}]
  /\ asked \in [Handles -> Asked \cup {NoPort}]
  /\ rtp \in [Handles -> (Nat \ {0}) \cup {NoPort}]
  /\ rtcp \in [Handles -> (Nat \ {0}) \cup {NoPort}]
  /\ task \in [Handles -> {"none", "starting", "running"}]

\* No socket outlives its owner: a port is held only by an opening in progress
\* or by a live task, never by an opening that failed half-way.
PortsAreOwned ==
  \A h \in Handles : rtp[h] # NoPort \/ rtcp[h] # NoPort => task[h] # "none" \/ phase[h] = "rtp"

\* A sender's ports are freed in the end, whether it is closed or dropped.
SenderPortsFreed ==
  \A h \in Handles :
    role[h] = "Sender" /\ phase[h] \in {"closed", "dropped"} ~> rtp[h] = NoPort /\ rtcp[h] = NoPort

=============================================================================
