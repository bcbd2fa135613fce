-------------------------------- MODULE MCTun --------------------------------
EXTENDS Tun
CONSTANT First
MCBytes   == [c \in Conns |-> IF c = First THEN 1 ELSE 0]
MCExempt  == <<"node", "dns">>
MCExempt6 == <<"node6">>

MCCnRanges == <<<<1, 2>>, <<6, 6>>>>
MCHosts == {<<"x">>, <<"x", "cn">>, <<"", "x", "cn">>, <<"y", "x">>, <<"y", "", "x">>, <<"", "x">>,
            <<"y", "localhost">>, <<"y", "", "cn">>, <<"ip6-loopback">>}
MCRuleNames == {<<"x">>, <<"x", "cn">>}
MCCnSuffixes == {<<"x">>}
MCLoopback == {<<"ip6-loopback">>}
==============================================================================
