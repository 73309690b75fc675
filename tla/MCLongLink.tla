------------------------------ MODULE MCLongLink ------------------------------
(* Instances of LongLink for TLC. *)
EXTENDS LongLinkRefinement

OwnPortOnly == <<-1>>

OwnPortThen80 == <<-1, 80>>

NoCalls == {}

LifeCalls == {"start", "destroy", "network", "pause"}

ServerCalls == {"addSvr", "setSvr", "screenOn", "request"}
===============================================================================
