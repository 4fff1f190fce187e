------------------------ MODULE MCInterfaceSelection ------------------------
EXTENDS InterfaceSelection

Hosts == {"eth0", "wlan0", "lo"}

\* An interface has an address of its own kind before, between or after its
\* internet addresses.
HostAddresses ==
  ("eth0" :> <<"packet", "inet", "packet", "inet6">>) @@ ("wlan0" :> <<"inet", "packet">>) @@ ("lo" :> <<>>)

Orders == {s \in UNION {[1..n -> Hosts] : n \in 0..3} : IsInjective(s)}
=============================================================================
