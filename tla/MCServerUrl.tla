---------------------------- MODULE MCServerUrl -----------------------------
(* URLs with and without a protocol, a host, blanks and a path.            *)
EXTENDS ServerUrl

Protocols == {<<>>, Http, Https}
Hosts     == {<<>>, <<"a">>, <<"a", ":", "8">>}
Paths     == {<<>>, <<"/">>, <<"/">> \o Marker, <<"/", "x", "/">> \o Marker \o <<"/">>,
              <<"/">> \o Marker \o <<"&">> \o Marker, <<"/", "/", "?">> \o Marker,
              <<"/">> \o Http \o Marker,
              <<"/", "l", "o", "o", "k", "/", "?">> \o Marker,
              <<"/", "x", "[">>, <<"/", "x", "?">>}

\* A path that the library takes for a host.
HostLike  == <<"/", "/", "b">> \o Marker \o <<"/", "x">>

PathUrls  == {p \o h \o t : p \in Protocols, h \in Hosts, t \in Paths}
MCUrls    == PathUrls \cup {p \o h \o HostLike : p \in Protocols, h \in Hosts}
          \cup {<<" ">> \o Http \o <<"a", "/">> \o Marker \o <<" ", " ">>, <<" ">>,
                <<" ">> \o Https \o <<"a", "[", "/">> \o Marker}

IPv4   == <<"1.2.3.4">>
IPv6   == <<"fe80", ":", ":", "1">>
Scoped == <<"fe80", ":", ":", "1", "%", "12">>
Quoted == <<"[", "fe80", ":", ":", "1", "]">>

MCAddresses == {IPv4, IPv6, Scoped, Quoted}
Unscoped    == {IPv4, IPv6}

ASSUME InstanceAssumption == AddressesAreForeign
=============================================================================
