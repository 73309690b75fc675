----------------------------- MODULE MCSendPath -----------------------------
(* The instance of SendPath for TLC: two sizes of buffers, one of which has a    *)
(* buffer at the start. *)
EXTENDS SendPath, TLC

CONSTANTS m1, m2, ping

MCMessages == {m1, m2, ping}

MCAcked == {m1}

MCLengths == m1 :> {1, 3, 4} @@ m2 :> {1}

MCMaxPool == 2 :> 2 @@ 3 :> 1

MCFirstPool == 2 :> <<1>> @@ 3 :> <<>>
=============================================================================
