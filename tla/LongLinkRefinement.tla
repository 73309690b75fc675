-------------------------- MODULE LongLinkRefinement --------------------------
(***************************************************************************)
(* LongLink implements Link: every step of the select loop, of the tasks   *)
(* and of the callbacks is a step of the abstract link or leaves it alone. *)
(* The end of the process closes its socket.                               *)
(***************************************************************************)
EXTENDS LongLink

L == INSTANCE Link WITH net       <- c.net,
                        handshake <- c.handshake,
                        open      <- (Running /\ c.sock # "none"),
                        token     <- (IF Running THEN c.token ELSE 0),
                        next      <- c.nextToken

\* The long link keeps the promises of Link: tokens, sessions and logouts seen by
\* the request queue are those of the connection that is really open.
ImplementsLink == L!LinkSpec
===============================================================================
