----------------------------- MODULE PeerHosts -----------------------------
(***************************************************************************)
(* The hosts that send to a task, rightly or not: any of them at any time,   *)
(* until, perhaps, all but one fall silent.                                  *)
(***************************************************************************)
EXTENDS Guard

CONSTANTS Addrs,      \* source addresses of the task's datagrams
          Survivors   \* hosts that may be left sending alone

VARIABLE only   \* the one host that still sends, or None before that

Sends(a) == only \in {None, a.ip}

=============================================================================
