-------------------------------- MODULE Link --------------------------------
(***************************************************************************)
(* What the long link promises to the code that sends requests over it:    *)
(* the abstract specification that LongLink implements (module             *)
(* LongLinkRefinement) and on which RequestQueue rests.                    *)
(*                                                                         *)
(* There is at most one connection.  It is open, then announced, which     *)
(* gives it a token that no other connection had or will have, then        *)
(* accepted by the server, which makes a session; closing it takes back    *)
(* both.  Losing the network may demote the session at any time, and while *)
(* nobody is logged in there is nothing.                                   *)
(***************************************************************************)
EXTENDS Naturals

CONSTANT Uins  \* the accounts, without 0, which stands for "logged out"

ASSUME UinAssumption == 0 \notin Uins

VARIABLES
    uin,        \* ConnectionsManager::uin
    net,        \* networkAvailable
    handshake,  \* Datacenter::handshakeState
    open,       \* a socket is open
    token,      \* connectionToken, 0 until the connection is announced
    next        \* lastConnectionToken

linkVars == <<uin, net, handshake, open, token, next>>

LinkInit ==
    /\ uin \in Uins
    /\ net = TRUE
    /\ handshake = "Idel"
    /\ open = FALSE
    /\ token = 0
    /\ next = 1

\* onHandshakeConnectionClosed, called only when a handshake was begun.
Demoted == IF handshake = "Idel" THEN "Idel" ELSE "Ing"

Login(u) == uin' = u /\ UNCHANGED <<net, handshake, open, token, next>>

\* clearUp.
Logout ==
    /\ uin' = 0 /\ handshake' = "Idel" /\ open' = FALSE /\ token' = 0
    /\ UNCHANGED <<net, next>>

\* The select loop finds an account without a handshake: it replaces the
\* connection that a timer of the previous login may have opened.
Begin ==
    /\ uin # 0 /\ handshake = "Idel"
    /\ handshake' = "Ing" /\ token' = 0
    /\ open' \in {FALSE, net}
    /\ UNCHANGED <<uin, net, next>>

\* setNetworkAvailable, which connects when the network is back.
Network(available) ==
    /\ net' = available
    /\ open' \in IF available /\ uin # 0 THEN {open, TRUE} ELSE {open}
    /\ UNCHANGED <<uin, handshake, token, next>>

Open ==
    /\ uin # 0 /\ net /\ ~open
    /\ open' = TRUE
    /\ UNCHANGED <<uin, net, handshake, token, next>>

\* The first writable event; the connection may be lost before it returns.
Announce ==
    /\ uin # 0 /\ open /\ token = 0
    /\ next' = next + 1
    /\ \/ token' = next /\ open' = TRUE /\ handshake' = handshake
       \/ token' = 0 /\ open' = FALSE /\ handshake' = Demoted
    /\ UNCHANGED <<uin, net>>

\* The server's answer, accepted by the application.
Accept ==
    /\ uin # 0 /\ token # 0 /\ handshake = "Ing"
    /\ handshake' = "Successed"
    /\ UNCHANGED <<uin, net, open, token, next>>

\* The connection is closed, and perhaps replaced at once.
Close ==
    /\ uin # 0 /\ open
    /\ handshake' = Demoted /\ token' = 0
    /\ open' \in {FALSE, net}
    /\ UNCHANGED <<uin, net, next>>

\* connect() without a network.
Demote ==
    /\ uin # 0 /\ ~net /\ handshake = "Successed"
    /\ handshake' = "Ing"
    /\ UNCHANGED <<uin, net, open, token, next>>

LinkNext ==
    \/ \E u \in Uins : Login(u)
    \/ \E available \in BOOLEAN : Network(available)
    \/ Logout \/ Begin \/ Open \/ Announce \/ Accept \/ Close \/ Demote

LinkSpec == LinkInit /\ [][LinkNext]_linkVars
=============================================================================
