----------------------------- MODULE MCLibrary ------------------------------
EXTENDS Library

Networks == {<<"ip4">>, <<"ip6">>, <<"other">>, <<"mpls", "ip4">>, <<"mpls", "ip6">>,
             <<"pppoe", "ip4">>, <<"pppoe", "ip6">>}

MCLayers2 == Networks \cup {<<"vlan">> \o layers : layers \in Networks}
             \cup {<<"vlan", "vlan", "ip4">>}
=============================================================================
