-------------------------- MODULE MCFosCommander --------------------------
(* A management address, DNS servers behind a query, and one extra disk.   *)
EXTENDS FosCommander

MCQueue == <<DiskFormat, "net", "dns">>

Checked(s) == [Cmd("set", s) EXCEPT !.checked = TRUE]

MCBlocks ==
    [net |-> <<ConfigBlock("interface",
                 EditBlock("port1", <<Checked("ip")>> \o ConfigBlock("ipv6", <<Checked("ip6")>>)))>>,
     dns |-> <<<<Cmd("query", "dns")>>, ConfigBlock("dns", <<Checked("primary")>>)>>]

MCHome ==
    [ip |-> <<"interface", "port1">>, ip6 |-> <<"interface", "port1", "ipv6">>, primary |-> <<"dns">>,
     standard |-> <<"console">>, more |-> <<"console">>]
=============================================================================
