-------------------------- MODULE MCSessionTimeline -------------------------
(***************************************************************************)
(* The Transport headers of the model.                                     *)
(***************************************************************************)
EXTENDS SessionTimeline

Alternative(names, client_port, interleaved) ==
  [names |-> names, client_port |-> client_port, interleaved |-> interleaved]

AvpUdp == Alternative({"RTP/AVP"}, <<65535>>, <<>>)
AvpTcp == Alternative({"RTP/AVP", "TCP"}, <<>>, <<0, 1>>)
NoPort == Alternative({"RTP/AVP"}, <<>>, <<>>)
Wraps == Alternative({"RTP/AVP"}, <<IntSize, IntSize + 1>>, <<>>)   \* 0 as an int

MCTransports ==
  {<<AvpTcp>>, <<AvpUdp, AvpTcp>>, <<NoPort, AvpUdp>>, <<Wraps, AvpUdp>>}

\* Enough where the header does not matter.
MCFewTransports == {<<AvpTcp>>, <<AvpUdp>>}

=============================================================================
