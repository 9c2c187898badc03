---------------------------- MODULE MCSocksProbe ----------------------------
(* SocksProbe with every kind of URL and userinfo, garbage that fails each   *)
(* check of an answer in turn, at its boundary, and Version Negotiation      *)
(* packets that echo no id of the probe's.                                   *)
EXTENDS SocksProbe
D(size, type, name, long, zeros) ==
    [size |-> size, type |-> type, name |-> name, long |-> long,
     zeros |-> zeros, id |-> 0]
MCGarbage ==
    {D(9, IPv4, 0, {10}, {11}), D(41, 9, 0, {10}, {11}),
     D(26, IPv6, 0, {22}, {23}), D(15, Domain, 4, {11}, {12}),
     D(15, IPv4, 0, {}, {11}), D(41, IPv4, 0, {10}, {}),
     D(15, IPv4, 0, {10}, {11}), D(41, Domain, 3, {8, 10}, {9, 11})}
=============================================================================
