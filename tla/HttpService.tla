---------------------------- MODULE HttpService -----------------------------
(***************************************************************************)
(* What the server promises each peer, whatever the file I/O model, the     *)
(* scheduling and the failures: a connection alternates between waiting for *)
(* a request and responding to one; the header of a response announces a    *)
(* body length, and the connection turns to the next request only when      *)
(* exactly that much body has followed.  The only other way out of a        *)
(* response is to end the connection.                                       *)
(***************************************************************************)
EXTENDS Naturals

CONSTANT Conns

VARIABLES phase,   \* "closed", "request" or "respond", of every connection
          owed     \* body announced and not yet sent

svars == <<phase, owed>>

SInit ==
    /\ phase = [c \in Conns |-> "closed"]
    /\ owed = [c \in Conns |-> 0]

Open(c) ==
    /\ phase[c] = "closed"
    /\ phase' = [phase EXCEPT ![c] = "request"]
    /\ UNCHANGED owed

\* A request is accepted; its response announces some length of body.
Respond(c) ==
    /\ phase[c] = "request"
    /\ phase' = [phase EXCEPT ![c] = "respond"]
    /\ owed'[c] \in Nat
    /\ owed' = [owed EXCEPT ![c] = owed'[c]]

\* Some of the body is sent; with the last of it the response may be over.
SendBody(c) ==
    /\ phase[c] = "respond" /\ owed[c] > 0
    /\ owed'[c] \in Nat /\ owed'[c] < owed[c]
    /\ owed' = [owed EXCEPT ![c] = owed'[c]]
    /\ \/ UNCHANGED phase
       \/ owed'[c] = 0 /\ phase' = [phase EXCEPT ![c] = "request"]

\* A response without a body is over.
EndHeader(c) ==
    /\ phase[c] = "respond" /\ owed[c] = 0
    /\ phase' = [phase EXCEPT ![c] = "request"]
    /\ UNCHANGED owed

Close(c) ==
    /\ phase[c] # "closed"
    /\ phase' = [phase EXCEPT ![c] = "closed"]
    /\ owed' = [owed EXCEPT ![c] = 0]

SNext == \E c \in Conns :
            Open(c) \/ Respond(c) \/ SendBody(c) \/ EndHeader(c) \/ Close(c)

SSpec == SInit /\ [][SNext]_svars
=============================================================================
