------------------------------ MODULE Endpoints ------------------------------
(***************************************************************************)
(* The server addresses of a Datacenter (Datacenter.cpp): the forced or    *)
(* default server nioServer, the list of addresses added by the            *)
(* application, the one or two ports kept for each, and the two indices    *)
(* that select the endpoint of the next connection.                        *)
(*                                                                         *)
(* The module is constant-level: an operator takes the record d of these   *)
(* fields and returns the endpoint, or the record after the call.  The     *)
(* connection (module TcpConnection) holds one such record.                *)
(***************************************************************************)
EXTENDS Integers, Sequences, FiniteSets

CONSTANTS
    Addresses,      \* the addresses the application may name
    DefaultAddress, \* the address the constructor draws from its table
    Ports,          \* the ports the application may name
    DefaultPorts,   \* the array defaultPorts: -1 stands for "the address's own port"
    NoServer        \* nioServer.nioIp is the empty string

ASSUME EndpointAssumption ==
    /\ DefaultPorts \in Seq(Nat \cup {-1})
    /\ DefaultPorts # <<>>
    /\ Ports \subseteq Nat \ {0}
    /\ NoServer \notin Addresses \cup {DefaultAddress}

LastPortIndex == Len(DefaultPorts) - 1

Servers == [ip : Addresses \cup {DefaultAddress, NoServer}, port : Nat]

Pool == [nio : Servers, addresses : Seq(Addresses),
         ports : [Addresses -> Nat \X Nat], addr : Nat, port : 0..LastPortIndex]

\* Datacenter(): the default server is in force, no address has been added.
NewPool ==
    [nio |-> [ip |-> DefaultAddress, port |-> 443], addresses |-> <<>>,
     ports |-> [a \in Addresses |-> <<0, 0>>], addr |-> 0, port |-> 0]

Known(d) == {d.addresses[i] : i \in DOMAIN d.addresses}

\* std::random_shuffle: any ordering of the addresses of s.
Shuffles(s) ==
    {t \in [DOMAIN s -> {s[i] : i \in DOMAIN s}] :
        {t[i] : i \in DOMAIN t} = {s[i] : i \in DOMAIN s}}

\* A known address gets a second port, the last one given; a new one is
\* appended, the list shuffled and the indices reset.  Both clear nioServer.
AddAddressAndPort(d, a, p) ==
    IF a \in Known(d)
    THEN {[d EXCEPT !.nio.ip = NoServer, !.ports[a][2] = p]}
    ELSE {[d EXCEPT !.nio.ip = NoServer, !.ports[a] = <<p, 0>>,
                    !.addresses = s, !.addr = 0, !.port = 0] :
              s \in Shuffles(Append(d.addresses, a))}

ForceAddressAndPort(d, a, p) == [d EXCEPT !.nio = [ip |-> a, port |-> p]]

\* Mutation: the address index may run one past the list.
SwitchAddressOrPortPastEnd(d) ==
    IF d.nio.ip # NoServer THEN d
    ELSE IF d.port < LastPortIndex THEN [d EXCEPT !.port = @ + 1]
    ELSE [d EXCEPT !.port = 0, !.addr = IF @ < Len(d.addresses) THEN @ + 1 ELSE 0]

\* First the ports of an address, then the next address.
SwitchAddressOrPort(d) ==
    IF d.nio.ip # NoServer THEN d
    ELSE IF d.port < LastPortIndex THEN [d EXCEPT !.port = @ + 1]
    ELSE [d EXCEPT !.port = 0,
                   !.addr = IF @ < Len(d.addresses) - 1 THEN @ + 1 ELSE 0]

GetCurrentAddress(d) ==
    IF d.nio.ip # NoServer THEN d.nio.ip
    ELSE IF d.addresses = <<>> THEN NoServer ELSE d.addresses[d.addr + 1]

\* Even slots of defaultPorts alternate between the address's two ports.
GetCurrentPort(d) ==
    IF d.nio.ip # NoServer THEN d.nio.port
    ELSE IF d.addresses = <<>> THEN 443
    ELSE LET preset == DefaultPorts[d.port + 1]
             own    == d.ports[GetCurrentAddress(d)]
         IN IF preset # -1 THEN preset
            ELSE IF own[2] # 0 /\ (d.port \div 2) % 2 = 1 THEN own[2] ELSE own[1]

CurrentEndpoint(d) == [ip |-> GetCurrentAddress(d), port |-> GetCurrentPort(d)]

\* The address index selects an address of the list, and the default server is
\* cleared only in favour of an added one.
InBounds(d) ==
    /\ d.addresses # <<>> => d.addr < Len(d.addresses)
    /\ d.nio.ip = NoServer => d.addresses # <<>>
==============================================================================
