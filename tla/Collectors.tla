----------------------------- MODULE Collectors -----------------------------
(***************************************************************************)
(* The collectors of internal/collectors: the commands each sends, the     *)
(* properties it asks for, the metrics it reads from the reply with their  *)
(* labels, and how it goes on after an error.  Labels for the device's     *)
(* name and address, which every series has, are left out; "arity" is the  *)
(* number of label names the description declares besides.                 *)
(***************************************************************************)
EXTENDS Integers, Sequences

\* Metrics by name, property and kind of conversion; a pair of numbers gives two metrics.
Metrics(S, kind) == {[name |-> p, prop |-> p, conv |-> kind] : p \in S}
Num(S) == Metrics(S, "num")
Any(S) == Metrics(S, "any")
Pairs(S) == {[name |-> d \o p, prop |-> p, conv |-> "num"] : d \in {"rx_", "tx_"}, p \in S}
As(name, p, kind) == {[name |-> name, prop |-> p, conv |-> kind]}

\* A group of metrics collected together for each row, or once for a reply; the labels are
\* the tag, which no row gives, and properties.
Group(tag, labels, arity, ms) ==
    [when |-> {}, per |-> "row", key |-> "", drops |-> {}, tag |-> tag, labels |-> labels,
     arity |-> arity, metrics |-> ms]
Total(tag, arity, name) ==
    [Group(tag, <<>>, arity, As(name, "", "given")) EXCEPT !.per = "reply"]
Details(g) == [g EXCEPT !.when = {"details"}]

\* Rows without the property p, or also those that have it empty, are passed over.
WithKey(p, g) == [g EXCEPT !.key = p, !.drops = {"missing", "void"}]
WithValue(p, g) == [g EXCEPT !.key = p, !.drops = {"missing", "empty", "void"}]

\* A command.  Stage 0 joins errors; the commands of another stage end at the first one.
\* One that is Skipping has rows it passes over for what they say.  The path is that of the
\* API sentence without its final print, given where a collector sends more than one.
Ask(asks, takes, groups) ==
    [when |-> {}, path |-> <<>>, id |-> 0, stage |-> 0, follow |-> FALSE, asks |-> asks,
     takes |-> takes, groups |-> groups, skips |-> FALSE, then |-> "some", next |-> <<>>]
Rows(asks, groups) == Ask(asks, "rows", groups)
Count(tag, name, kind) ==
    Ask({"*"}, "ret", <<Group(tag, <<>>, Len(tag), As(name, "ret", kind))>>)
Skipping(c) == [c EXCEPT !.skips = TRUE]
Then(c, how, d) == [c EXCEPT !.then = how, !.next = <<d>>]
At(path, c) == [c EXCEPT !.path = path]
In(stage, c) == [c EXCEPT !.stage = stage]
If(w, c) == [c EXCEPT !.when = @ \cup {w}]

\* A collector: "since" is the version it requires.
Of(cmds) == [cmds |-> cmds, since |-> 0, archOnly |-> FALSE, list |-> FALSE]
OfMenu(path, cmds) == Of([i \in DOMAIN cmds |-> At(path, cmds[i])])
Since(v, prog) == [prog EXCEPT !.since = v]

----------------------------------------------------------------------------
\* One command, all its rows.

Certs == Of(<<
    Rows({"name", "common-name", "issuer", "serial-number", "invalid-after"},
          <<Group(<<>>, <<"name", "common-name", "issuer", "serial-number">>, 4,
                  Num({"invalid-after"}))>>)>>)

\* Other versions pass also on architectures that are not listed.
ContainerStates == {"running", "starting", "unhealthy", "stopped", "stopping", "healthy"}
Container == [Since(705, Of(<<
    Rows({"name", "memory-current", "cpu-usage"} \cup ContainerStates,
          <<Group(<<>>, <<"name">>, 1, Metrics(ContainerStates, "dflt")
                                           \cup Num({"memory-current", "cpu-usage"}))>>)>>))
              EXCEPT !.archOnly = TRUE]

Disk == Since(707, Of(<<
    Rows({"slot", "type", "fs-uuid", "comment", "size", "free", "mounted", "mount-point",
           "parent", "fs", "model", "serial"},
          <<Group(<<>>, <<"slot", "fs-uuid", "mount-point">>, 3,
                  Num({"size", "free"}) \cup Any({"mounted"})),
            Group(<<>>, <<"slot", "type", "fs-uuid", "comment", "parent", "fs", "model",
                          "serial">>, 8, As("entry", "slot", "any"))>>)>>))

Dns == Of(<<
    Ask({"cache-size", "cache-used"}, "menu",
        <<Group(<<>>, <<>>, 0, Num({"cache-used", "cache-size"}))>>)>>)

DnsAdlist == Since(715, Of(<<
    Rows({"url", "match-count", "name-count"},
          <<Group(<<>>, <<"url">>, 1, Num({"match-count", "name-count"}))>>)>>))

Dude == Of(<<
    Ask({"enabled", "status"}, "menu", <<Group(<<>>, <<>>, 0, Any({"enabled", "status"}))>>)>>)

Firmware == Of(<<
    Rows({"*"}, <<Group(<<>>, <<"name", "version", "build-time">>, 3,
                         As("package_enabled", "disabled", "any"))>>)>>)

\* A row may have the name and the value of one metric instead, and one with a name and no
\* value is passed over; such rows are taken together.
Health == Of(<<
    Skipping(Ask({"*"}, "menu",
        <<Group(<<>>, <<>>, 0, Num({"voltage", "temperature", "cpu-temperature"}))>>))>>)

InterfaceCounters ==
    {"rx-byte", "tx-byte", "rx-packet", "tx-packet", "rx-error", "tx-error", "rx-drop",
     "tx-drop", "link-downs", "tx-queue-drop", "fp-rx-byte", "fp-tx-byte", "fp-tx-packet"}
\* The loopback interface is passed over.
Interface == Of(<<
    Skipping(Rows({"name", "type", "disabled", "actual-mtu", "running"} \cup InterfaceCounters,
          <<Group(<<>>, <<"name", "type">>, 2,
                  Num({"actual-mtu", "fp-rx-packet"} \cup InterfaceCounters)
                      \cup Any({"running"}))>>))>>)

IpNumbers == {"ipv4-fast-path-bytes", "ipv4-fast-path-packets", "ipv4-fasttrack-bytes",
              "ipv4-fasttrack-packets"}
IpFlags == {"ipv4-fast-path-active", "ipv4-fasttrack-active"}
Ip == Of(<<
    Ask(IpNumbers \cup IpFlags, "menu",
        <<Group(<<>>, <<>>, 0, Num(IpNumbers) \cup Any(IpFlags))>>)>>)

Netwatch == Of(<<
    Rows({"host", "comment", "status"},
          <<Group(<<>>, <<"host", "comment", "status">>, 3, Metrics({"status"}, "const"))>>)>>)

\* The description of the board comes before the metrics that can fail.
ResourceNumbers ==
    {"free-memory", "total-memory", "cpu-load", "free-hdd-space", "total-hdd-space",
     "cpu-frequency", "bad-blocks", "cpu-count"}
Resource == Of(<<
    Ask({"uptime", "board-name", "version", "architecture-name"} \cup ResourceNumbers, "menu",
        <<Group(<<>>, <<"board-name", "version", "architecture-name">>, 3,
                As("routeros", "", "given")),
          Group(<<>>, <<>>, 0, Num(ResourceNumbers) \cup As("uptime_seconds", "uptime", "num")
                                   \cup As("start_time_seconds", "uptime", "num"))>>)>>)

\* With details also every other property that is a number, by its name as label; two stand
\* for all of them.
SwitchNumbers ==
    {"rx-broadcast", "rx-bytes", "rx-drop", "rx-multicast", "rx-packet", "tx-broadcast",
     "tx-bytes", "tx-drop", "tx-multicast", "tx-packet", "driver-rx-byte", "driver-rx-packet",
     "driver-tx-byte", "driver-tx-packet"}
SwitchStat(p) == Details(Group(<<p>>, <<"name">>, 2, As("stats", p, "stat")))
Switch == Of(<<
    Rows({"*"}, <<Group(<<>>, <<"name">>, 1, Num(SwitchNumbers)),
                   SwitchStat("rx-bytes"), SwitchStat("rx-pause")>>)>>)

WlanSta == Of(<<
    Rows({"interface", "mac-address", "signal-to-noise", "signal-strength", "packets",
           "bytes", "frames"},
          <<Group(<<>>, <<"interface", "mac-address">>, 2,
                  Num({"signal-to-noise", "signal-strength"})
                      \cup Pairs({"packets", "bytes", "frames"}))>>)>>)

----------------------------------------------------------------------------
\* One command, its first row.

Conntrack == Of(<<
    Ask({"total-entries", "max-entries"}, "first",
        <<Group(<<>>, <<>>, 0, Num({"total-entries"})),
          Group(<<>>, <<>>, 0, Num({"max-entries"}))>>)>>)

Radius == Of(<<
    Ask({"*"}, "first",
        <<Group(<<>>, <<>>, 0, Num({"requests", "bad-requests", "naks", "acks"}))>>)>>)

\* RouterOS 6 has no status: it is synchronized if it has an active server.
Ntpc == Of(<<
    If("v6", Ask({"enabled", "active-server", "last-adjustment"}, "first",
                 <<Group(<<>>, <<>>, 0, Any({"enabled"})),
                   Group(<<>>, <<>>, 0, As("synchronized", "active-server", "given")),
                   Group(<<>>, <<>>, 0, As("system-offset", "last-adjustment", "num"))>>)),
    If("v7", Ask({"enabled", "status", "system-offset"}, "first",
                 <<Group(<<>>, <<>>, 0, Any({"enabled"}) \cup Num({"system-offset"})
                                            \cup As("synchronized", "status", "any"))>>))>>)

----------------------------------------------------------------------------
\* Counts of rows by a property, with details the rows themselves.

DhcpLeases == Of(<<
    Rows({"active-mac-address", "server", "status", "active-address", "host-name", "comment",
           "address", "mac-address"},
          <<Group(<<>>, <<"status">>, 1, As("leases_by_status", "", "given")),
            Details(Group(<<>>, <<"active-mac-address", "server", "status", "active-address",
                                  "host-name", "comment", "address", "mac-address">>, 8,
                          As("leases_status", "status", "const")))>>)>>)

\* RouterOS 6 does not know discovered-by, and "about" is never asked for.
NeighborProps ==
    {"address4", "interface", "ipv6", "platform", "software-id", "version", "address",
     "address6", "board", "identity", "interface-name", "mac-address", "system-caps",
     "system-description"}
NeighborGroups ==
    <<Group(<<>>, <<"interface">>, 1, As("discovered", "", "given")),
      Details(Group(<<>>, <<"about", "address4", "discovered-by", "interface", "ipv6",
                            "platform", "software-id", "version", "address", "address6",
                            "board", "identity", "interface-name", "mac-address",
                            "system-caps", "system-description">>, 16,
                    As("entry", "address", "const")))>>
Neighbor == Of(<<
    If("v6", Rows(NeighborProps, NeighborGroups)),
    If("v7", Rows(NeighborProps \cup {"discovered-by"}, NeighborGroups))>>)

Service == Since(719, Of(<<
    Rows({"name"}, <<Group(<<>>, <<"name">>, 1,
                            As("active_connections_count", "", "given"))>>)>>))

Ppp == Of(<<
    If("details", Rows({"name", "service", "caller-id", "address"},
        <<Group(<<>>, <<"name", "service", "caller-id", "address">>, 4,
                As("active_peer", "address", "const")),
          Total(<<>>, 0, "active")>>)),
    If("brief", Count(<<>>, "active", "parsed"))>>)

\* Complete entries are counted by status, and commands of their own count those which
\* failed or are incomplete.
Arp == OfMenu(<<"ip", "arp">>, <<
    Rows({"address", "mac-address", "interface", "comment", "dynamic", "dhcp", "complete",
           "status"},
          <<Group(<<>>, <<"status">>, 1, As("status", "", "given")),
            Details(Group(<<>>, <<"address", "interface", "mac-address", "comment", "dhcp",
                                  "dynamic">>, 6, Any({"complete"})))>>),
    Count(<<"failed">>, "status", "parsed"), Count(<<"incomplete">>, "status", "parsed"),
    Count(<<>>, "invalid", "num")>>)

\* The entries are collected under six labels where five are declared, but what is read of
\* them is never asked for.
Ipv6Neighbor == OfMenu(<<"ipv6", "neighbor">>, <<
    If("ipv6", If("details", Rows({"address", "mac-address", "interface", "dynamic", "dhcp",
                                     "router", "status"},
        <<Group(<<>>, <<"address", "interface", "mac-address", "comment", "dhcp", "dynamic">>,
                5, Any({"reachable"}))>>)))>>
    \o [i \in 1..7 |->
           If("ipv6", Count(<<<<"noarp", "incomplete", "reachable", "stale", "delay", "probe",
                                "failed">>[i]>>, "status", "parsed"))])

----------------------------------------------------------------------------
\* Several commands whose errors are joined.

\* "details" stands for the option "stations" here.
CapsmanInterface == {"name", "mac-address", "configuration", "master-interface"}
CapsmanNumbers == {"current-authorized-clients", "current-registered-clients"}
CapsmanFlags == {"running", "master", "inactive"}
CapsmanGroups(state) ==
    <<Group(<<>>, <<"name", "mac-address", "configuration", "master-interface">>, 4,
            Num(CapsmanNumbers) \cup Any(CapsmanFlags)),
      Group(<<>>, <<"name", "mac-address", "configuration", "master-interface">> \o state, 5,
            As("state", "current-state", "const"))>>
CapsmanStates == CapsmanGroups(<<"current-state">>)
Capsman == Of(<<
    At(<<"caps-man", "registration-table">>, If("details",
        Rows({"interface", "mac-address", "ssid", "uptime", "tx-signal", "rx-signal",
               "packets", "bytes", "eap-identity", "comment"},
        <<Group(<<>>, <<"interface", "mac-address", "ssid", "eap-identity", "comment">>, 5,
                Num({"tx-signal", "rx-signal"}) \cup Pairs({"packets", "bytes"})
                    \cup As("uptime_seconds", "uptime", "num"))>>))),
    At(<<"caps-man", "interface">>,
        Rows({"current-state", "disabled"} \cup CapsmanInterface \cup CapsmanNumbers
                  \cup CapsmanFlags, CapsmanStates)),
    At(<<"caps-man", "radio">>,
        Rows({"interface", "radio-mac", "remote-cap-identity", "remote-cap-name", "provisioned"},
        <<Group(<<>>, <<"interface", "radio-mac", "remote-cap-identity", "remote-cap-name">>,
                4, As("radio_provisioned", "provisioned", "any"))>>))>>)

IpsecCounters == {"rx-bytes", "tx-bytes", "rx-packets", "tx-packets"}
Ipsec == Of(<<
    At(<<"ip", "ipsec", "policy">>,
        Rows({"src-address", "dst-address", "comment", "ph2-state", "invalid", "active"},
        <<Group(<<>>, <<"src-address", "dst-address", "comment">>, 3,
                Any({"ph2-state", "invalid", "active"}))>>)),
    At(<<"ip", "ipsec", "active-peers">>,
        Rows({"src-address", "dst-address", "comment", "side", "state", "uptime", "last-seen",
           "responder"} \cup IpsecCounters,
        <<Group(<<>>, <<"src-address", "dst-address", "comment", "side">>, 4,
                Num({"uptime", "last-seen"} \cup IpsecCounters)
                    \cup Any({"state", "responder"}))>>))>>)

\* Peers without a public key are counted but have no details.
Wireguard == Since(700, Of(<<
    At(<<"interface", "wireguard">>,
        Rows({"comment", "public-key", "disabled", "running", "name"},
        <<Group(<<>>, <<"public-key", "name", "comment">>, 3, Any({"running"}))>>)),
    At(<<"interface", "wireguard", "peers">>,
        Rows({"comment", "public-key", "disabled", "last-handshake", "rx", "tx",
           "current-endpoint-address"},
        <<Total(<<"connected">>, 1, "peers_status"), Total(<<"waiting">>, 1, "peers_status"),
          Details(WithValue("public-key", Group(<<>>, <<"public-key", "comment", "disabled">>,
                  3, Num({"last-handshake", "rx", "tx"}))))>>))>>))

\* The pools of version 6 are counted from the prefixes in use.
Pool == Of(<<
    At(<<"ip", "pool">>, Rows({"name", "total", "used"},
        <<Group(<<"4">>, <<"name">>, 2, Num({"used", "total"}))>>)),
    At(<<"ipv6", "pool", "used">>, If("ipv6", Rows({"pool"},
        <<Group(<<"6">>, <<"pool">>, 2, As("used", "", "given"))>>)))>>)

\* The monitor ends at its first error, the simple queues do not.
QueueSums == {"packets", "bytes", "queued-bytes", "queued-packets"}
Queue == Of(<<
    At(<<"queue", "monitor">>, In(1, Ask({"queued-packets", "queued-bytes"}, "first",
        <<Group(<<>>, <<>>, 0, Num({"queued-bytes"})),
          Group(<<>>, <<>>, 0, Num({"queued-packets"}))>>))),
    At(<<"queue", "simple">>, Rows({"name", "queue", "comment"} \cup QueueSums,
        <<Group(<<>>, <<"name", "queue", "comment">>, 3, Pairs(QueueSums))>>))>>)

\* One command for each configured source or script; two stand for any number.  An invalid
\* source is an error without a command, with the effect of one that fails.
FirewallRules(firewall, chain) ==
    At(<<"ip", "firewall", firewall>>, Rows({"comment", "bytes", "packets"},
        <<WithValue("comment", Group(<<firewall, chain>>, <<"comment">>, 3,
                                     Num({"packets", "bytes"})))>>))
Firewall == [Of(<<FirewallRules("filter", "input"), FirewallRules("nat", "srcnat")>>)
             EXCEPT !.list = TRUE]

\* A script is named by its number, as the last part of the path.
RunScript(number) ==
    At(<<"system", "script", "run", number>>, Count(<<number>>, "script", "script"))
Scripts == [Of(<<RunScript("script1"), RunScript("script2")>>) EXCEPT !.list = TRUE]

----------------------------------------------------------------------------
\* Commands that end at the first error.

Cloud == Of(<<
    At(<<"ip", "cloud">>, In(1, Ask({"*"}, "one",
              <<Group(<<>>, <<"status">>, 1, Metrics({"status"}, "const")),
                Group(<<>>, <<>>, 0, Any({"ddns-enabled"})),
                [Group(<<>>, <<>>, 0,
                       Any({"back-to-home-vpn", "vpn-relay-ipv4-status",
                            "vpn-relay-ipv6-status"}) \cup Metrics({"vpn-status"}, "dflt"))
                 EXCEPT !.when = {"v7"}]>>))),
    At(<<"ip", "cloud", "back-to-home-user">>,
       If("v7", In(1, Count(<<>>, "bth_users", "num"))))>>)

\* The two IP versions do not depend on each other.
Protocols == <<"bgp", "static", "ospf", "dynamic", "connect", "rip">>
CountsOf(version) ==
    <<Count(<<version>>, "ret", "num")>>
    \o [i \in 1..6 |-> Count(<<version, Protocols[i]>>, "protocol", "num")]
RoutesOf(version, topic, stage) ==
    [i \in 1..7 |-> At(<<topic, "route">>, In(stage, CountsOf(version)[i]))]
RoutesStaged(stage6) ==
    Of(RoutesOf("4", "ip", 1) \o [i \in 1..7 |-> If("ipv6", RoutesOf("6", "ipv6", stage6)[i])])
RoutesAtOnce == RoutesStaged(1)            \* mutant: Collect returns at the error of version 4
Routes == RoutesStaged(2)

----------------------------------------------------------------------------
\* Commands for what a first command lists.

Leases(name) == Ask({"*"}, "ret", <<Group(<<>>, <<>>, 1, As(name, "ret", "num"))>>)
Dhcp == Of(<<Then(Rows({"name"}, <<>>), "each", Leases("leases_active"))>>)
Dhcpv6 == Of(<<If("ipv6", Then(Rows({"name"}, <<>>), "each", Leases("binding")))>>)

Lte == Of(<<
    Then(Rows({"name"}, <<>>), "each",
         Ask({"current-cellid", "primary-band", "rssi", "rsrp", "rsrq", "sinr", "status"},
             "first",
             <<Group(<<>>, <<"current-cellid", "primary-band">>, 3,
                     Num({"rssi", "rsrp", "rsrq", "sinr"})
                         \cup As("connected", "status", "any"))>>))>>)

\* Disabled interfaces without a frequency are passed over, the first interface in trouble
\* ends the collector; a channel stands for one frequency.
WlanIf == Of(<<
    In(1, Then(Skipping(Rows({"name", "disabled", "frequency"}, <<>>)), "each",
        Ask({"registered-clients", "noise-floor", "overall-tx-ccq", "channel"}, "first",
            <<Group(<<>>, <<>>, 1,
                    Num({"registered-clients", "noise-floor", "overall-tx-ccq"})),
              Group(<<>>, <<"channel">>, 2, As("channel", "", "given")),
              Group(<<"1">>, <<>>, 2, As("frequency", "channel", "num"))>>)))>>)

\* Also a device without Ethernet is asked.
Monitor == Of(<<
    Then(Rows({"name"}, <<>>), "all",
         Rows({"name", "status", "rate", "full-duplex"},
               <<Group(<<>>, <<"name">>, 1, Any({"status", "rate", "full-duplex"}))>>))>>)

OpticsNumbers == {"sfp-rx-power", "sfp-tx-power", "sfp-temperature", "sfp-tx-bias-current",
                  "sfp-supply-voltage"}
OpticsFlags == {"sfp-rx-loss", "sfp-tx-fault"}
OpticsAsks == {"name"} \cup OpticsNumbers \cup OpticsFlags
Optics == Of(<<
    Then(Rows({"name", "default-name"}, <<>>), "some",
         Rows(OpticsAsks, <<WithKey("name", Group(<<>>, <<"name">>, 1,
                                     Num(OpticsNumbers) \cup Any(OpticsFlags)))>>))>>)

\* What is asked for is not what is read, and rows without a name are passed over.
Poe == Of(<<
    Then(Rows({"name"}, <<>>), "some",
         Rows({"poe-out-current", "poe-out-voltage", "poe-out-power"},
               <<WithKey("name", Group(<<>>, <<"name">>, 1,
                                       Num({"current", "wattage", "voltage"})))>>))>>)

W60gNumbers == {"signal", "rssi", "tx-mcs", "frequency", "tx-phy-rate", "tx-sector",
                "distance", "tx-packet-error-rate"}
W60g == Of(<<
    Then(Rows({"name"}, <<>>), "some",
         Rows({"name"} \cup W60gNumbers,
               <<WithKey("name", Group(<<>>, <<"name">>, 1, Num(W60gNumbers)))>>))>>)

----------------------------------------------------------------------------
\* The registered collectors.
Registered ==
    [arp |-> Arp, capsman |-> Capsman, certs |-> Certs, cloud |-> Cloud,
     conntrack |-> Conntrack, container |-> Container, dhcp |-> Dhcp, dhcpl |-> DhcpLeases,
     dhcpv6 |-> Dhcpv6, disk |-> Disk, dns |-> Dns, dns_adlist |-> DnsAdlist, dude |-> Dude,
     firewall |-> Firewall, firmware |-> Firmware, health |-> Health, interface |-> Interface,
     ip |-> Ip, ipsec |-> Ipsec, ipv6_neighbor |-> Ipv6Neighbor, lte |-> Lte,
     monitor |-> Monitor, neighbor |-> Neighbor, netwatch |-> Netwatch, ntpc |-> Ntpc,
     optics |-> Optics, poe |-> Poe, pools |-> Pool, ppp |-> Ppp, queue |-> Queue,
     radius |-> Radius, resource |-> Resource, routes |-> Routes, scripts |-> Scripts,
     service |-> Service, switch |-> Switch, w60g |-> W60g, wireguard |-> Wireguard,
     wlanif |-> WlanIf, wlansta |-> WlanSta]

=============================================================================
