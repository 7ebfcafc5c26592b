---------------------------- MODULE ConfigMihomo ----------------------------
(***************************************************************************)
(* config_compat/mihomo: how a proxy entry of a mihomo file becomes a      *)
(* client configuration.  For every proxy type, XOptions are the options   *)
(* its struct declares with the values other than the default that are     *)
(* tried, and the operator X is its to_client_config.                      *)
(***************************************************************************)
EXTENDS ConfigNode

Names == [servername |-> {"x"}, skip_cert_verify |-> {"on"}]
Login == [username |-> {"x"}, password |-> {"x"}]
Fingerprint == [client_fingerprint |-> {"x"}]

(* MihomoWsOptions, MihomoGrpcOptions and MihomoXhttpOptions: a block is   *)
(* absent, present and empty, or has settings, or an unknown key.          *)
StreamBlocks == [ws_opts |-> {"empty", "path", "extra"}, grpc_opts |-> {"path", "extra"}]
XhttpBlock == [xhttp_opts |-> {"path", "packet-up", "extra"}]

(* MihomoUdpOverTcpOptions::enabled_for: version 2 only, and no version on *)
(* a disabled block.                                                       *)
UdpOverTcpBlock == [udp_over_tcp |-> {"on", "on-v2", "on-v1", "off-v2", "extra"}]
UdpOverTcpOk(n) == Val(n, "udp_over_tcp", "off") \in {"off", "on", "on-v2"}
UdpOverTcp(n) == IF Val(n, "udp_over_tcp", "off") \in {"on", "on-v2"} THEN [uot |-> "on"] ELSE [uot |-> "off"]

(* ensure_unused_*_opts: a block for another transport is refused when it  *)
(* has settings, and its unknown keys are refused either way.              *)
UnusedBlock(n, o) == ~HasData(n, o)

MihomoTransport(protocol, n) ==
  LET network == Val(n, "network", "tcp")
      kind    == NetworkKind(network)
      own     == CASE kind = "grpc" -> "grpc_opts" [] kind = "xhttp" -> "xhttp_opts" [] kind = "ws" -> "ws_opts" [] OTHER -> "none"
      t       == Transport(network, Val(n, own, ""))
  IN [t EXCEPT !.ok = /\ @
                      /\ kind = "xhttp" => protocol = "VLESS"
                      /\ ObjectOk(n, own)
                      /\ \A block \in {"ws_opts", "grpc_opts", "xhttp_opts"} \ {own} : UnusedBlock(n, block)]

ShadowsocksOptions == [udp |-> {"off"}, plugin |-> {"x"}, plugin_opts |-> {"x"}] @@ UdpOverTcpBlock
Shadowsocks(n) ==
  Accept(NoExtra(n) /\ None(n, {"plugin", "plugin_opts"}) /\ UdpOverTcpOk(n),
         "cipher", FALSE, Carried(n, {"udp"}) @@ UdpOverTcp(n))

(* A SOCKS proxy that reads over what it cannot do.                        *)
SocksLenient(n) == Accept(NoExtra(n), "plain", FALSE, Carried(n, {"username", "password", "udp"}))

SocksOptions == Login @@ [udp |-> {"off"}, tls |-> {"on"}, skip_cert_verify |-> {"on"}, alpn |-> {"h2"}]
Socks(n) ==
  Accept(NoExtra(n) /\ None(n, {"tls", "skip_cert_verify", "alpn"}), "plain", FALSE, Carried(n, {"username", "password", "udp"}))

HttpOptions == Login @@ Names @@ Fingerprint @@ [tls |-> {"on"}, alpn |-> {"h2", "http/1.1"}, headers |-> {"x"}]
Http(n) ==
  LET tls == On(n, "tls") IN
  Accept(/\ NoExtra(n)
         /\ IF tls THEN HttpAlpnOk(Val(n, "alpn", "")) ELSE None(n, {"alpn", "skip_cert_verify", "client_fingerprint"}),
         IF tls THEN "tls" ELSE "plain", On(n, "skip_cert_verify"),
         Carried(n, {"username", "password", "servername", "client_fingerprint", "headers"}))

(* REALITY without tls: true is still REALITY, and replaces plain TLS,     *)
(* under every transport (VlessRealityOnTcp keeps it for raw TCP only).    *)
VlessRealityOnTcp(n) == Has(n, "reality_opts") /\ ~Has(n, "network")
VlessReality(n) == Has(n, "reality_opts")
VlessOptions ==
  Names @@ Fingerprint @@ StreamBlocks @@ XhttpBlock @@
  [udp |-> {"off"}, tls |-> {"off"}, network |-> {"ws", "grpc", "xhttp", "h2", "bogus"}, flow |-> {"x"}, encryption |-> {"none", "x"},
   packet_encoding |-> {"x"}, reality_opts |-> {"key", "badkey", "extra"}, alpn |-> {"h2", "http/1.1"}, mux |-> {"on"}, smux |-> {"empty", "x", "extra"}]
Vless(n) ==
  LET t       == MihomoTransport("VLESS", n)
      reality == VlessReality(n)
      secured == Val(n, "tls", "on") = "on" \/ reality
  IN Accept(/\ NoExtra(n)
            /\ Val(n, "encryption", "none") = "none"
            /\ reality => n["reality_opts"] = "key"
            /\ t.ok
            /\ IF secured THEN AlpnOk(t.kind, Val(n, "alpn", "")) ELSE None(n, {"client_fingerprint", "alpn"})
            /\ ~HasData(n, "smux"),
            IF reality THEN "reality" ELSE IF secured THEN "tls" ELSE "plain",
            secured /\ On(n, "skip_cert_verify"),
            WithTransport(Carried(n, {"servername", "flow", "packet_encoding", "mux", "udp", "client_fingerprint"}), t))

VmessOptions ==
  Names @@ Fingerprint @@ StreamBlocks @@
  [alter_id |-> {"x"}, cipher |-> {"x"}, udp |-> {"on"}, tls |-> {"on"}, network |-> {"ws", "grpc", "xhttp", "bogus"},
   packet_encoding |-> {"xudp", "bogus"}, alpn |-> {"h2"}]
Vmess(n) ==
  LET t   == MihomoTransport("VMess", n)
      tls == On(n, "tls")
  IN Accept(/\ NoExtra(n) /\ None(n, {"alter_id"})
            /\ tls \/ ~Has(n, "client_fingerprint")
            /\ Val(n, "packet_encoding", "") # "bogus"
            /\ t.ok
            /\ IF tls THEN AlpnOk(t.kind, Val(n, "alpn", "")) ELSE ~Has(n, "alpn"),
            IF tls THEN "tls" ELSE "plain", tls /\ On(n, "skip_cert_verify"),
            WithTransport(Carried(n, {"cipher", "packet_encoding", "udp", "servername"} \cup IF tls THEN {"client_fingerprint"} ELSE {}), t))

TrojanOptions ==
  Names @@ Fingerprint @@ StreamBlocks @@ [udp |-> {"off"}, tls |-> {"off"}, network |-> {"ws", "grpc", "xhttp", "bogus"}, alpn |-> {"h2"}]
Trojan(n) ==
  LET t == MihomoTransport("Trojan", n) IN
  Accept(NoExtra(n) /\ Val(n, "tls", "on") = "on" /\ t.ok /\ AlpnOk(t.kind, Val(n, "alpn", "")),
         "tls", On(n, "skip_cert_verify"), WithTransport(Carried(n, {"udp", "servername", "client_fingerprint"}), t))

Windows == {"initial_stream_receive_window", "max_stream_receive_window", "initial_connection_receive_window", "max_connection_receive_window"}
Hysteria2Options ==
  Names @@ [o \in Windows |-> {"x"}] @@
  [port |-> {"missing"}, ports |-> {"x"}, hop_interval |-> {"empty", "x"}, fingerprint |-> {"x"}, obfs |-> {"salamander", "x"}, obfs_password |-> {"x"},
   up |-> {"x", "bad"}, down |-> {"x"}, bbr_profile |-> {"standard", "x"}, realm_opts |-> {"x"}, congestion_control |-> {"x"}, udp |-> {"off"}, alpn |-> {"h2", "h3"}]
Hysteria2(n) ==
  Accept(/\ NoExtra(n) /\ None(n, {"port", "ports", "realm_opts"} \cup Windows)
         /\ Val(n, "up", "") # "bad"                \* deserialize_optional_bandwidth_mbps
         /\ ~HasData(n, "hop_interval")
         /\ Val(n, "bbr_profile", "standard") = "standard"
         /\ Val(n, "obfs", "salamander") = "salamander"
         /\ Hy2AlpnOk(Val(n, "alpn", "")),
         "tls", On(n, "skip_cert_verify"),
         Carried(n, {"servername", "fingerprint", "obfs", "obfs_password", "up", "down", "udp", "congestion_control"}))

AnyTlsOptions == Names @@ Fingerprint @@ [padding_scheme |-> {"x"}]
AnyTls(n) ==
  Accept(NoExtra(n), "tls", On(n, "skip_cert_verify"), Carried(n, {"servername", "client_fingerprint", "padding_scheme"}))

(* SudokuOptions::validate; the udp field of the proxy is not passed on.   *)
SudokuOptions ==
  [udp |-> {"on"}, aead |-> {"aes-128-gcm", "none"}, table |-> {"x", "bad"}, padding_min |-> {"above-max"}, padding_max |-> {"x"},
   multiplex |-> {"on", "bad"}, http_mask |-> {"on"}, http_mask_mode |-> {"ws", "stream"}, http_mask_tls |-> {"on"}, path_root |-> {"x", "bad"}]
Sudoku(n) ==
  Accept(/\ NoExtra(n)
         /\ Val(n, "table", "") # "bad" /\ Val(n, "path_root", "") # "bad" /\ Val(n, "multiplex", "") # "bad"
         /\ Val(n, "aead", "") # "none"
         /\ ~Has(n, "padding_min") \/ Has(n, "padding_max")
         /\ On(n, "http_mask_tls") => On(n, "http_mask")
         /\ On(n, "http_mask") => Val(n, "http_mask_mode", "legacy") # "stream",
         "cipher", FALSE, Carried(n, DOMAIN SudokuOptions \ {"udp"}))

MieruOptions == [username |-> {"x"}, transport |-> {"udp", "bogus"}, traffic_pattern |-> {"x", "bad"}, nonce_pattern |-> {"x", "bad"}]
MieruOk(n) == Val(n, "transport", "tcp") # "bogus" /\ Val(n, "traffic_pattern", "") # "bad" /\ Val(n, "nonce_pattern", "") # "bad"
Mieru(n) == Accept(NoExtra(n) /\ MieruOk(n), "cipher", FALSE, Carried(n, DOMAIN MieruOptions))

(* The type naive+quic selects the same struct as naive: quic is its own   *)
(* field.                                                                  *)
NaiveOptions == Login @@ Names @@ UdpOverTcpBlock @@ [type |-> {"naive+https", "naive+quic"}, port |-> {"x"}, quic |-> {"on"}, extra_headers |-> {"x"}]
Naive(n) ==
  Accept(NoExtra(n) /\ UdpOverTcpOk(n), "tls", On(n, "skip_cert_verify"),
         Carried(n, {"username", "password", "servername", "port", "quic", "extra_headers"}) @@ UdpOverTcp(n))

TuicRefused == {"token", "disable_sni", "reduce_rtt", "fast_open", "max_open_streams", "max_udp_relay_packet_size", "request_timeout"}
TuicOptions ==
  Names @@ [o \in TuicRefused |-> {"x"}] @@
  [ip |-> {"x"}, uuid |-> {"missing"}, password |-> {"missing"}, udp |-> {"off"}, alpn |-> {"h2", "h3"}, heartbeat_interval |-> {"x"},
   bbr_profile |-> {"standard", "x"}, congestion_control |-> {"x"}, udp_relay_mode |-> {"x"}]
Tuic(n) ==
  Accept(/\ NoExtra(n) /\ None(n, TuicRefused \cup {"uuid", "password"})
         /\ Val(n, "bbr_profile", "standard") = "standard"
         /\ TuicAlpnOk(Val(n, "alpn", "")),
         "tls", On(n, "skip_cert_verify"),
         Carried(n, {"ip", "servername", "udp", "alpn", "heartbeat_interval", "congestion_control", "udp_relay_mode"}))

(* direct, reject and block entries, decoded without a struct: anything    *)
(* but name, type and udp is an unknown field.                             *)
RouteEntryOptions == [udp |-> {"on", "off"}, server |-> {"x"}]
RouteEntry(n) == Accept(NoExtra(n) /\ None(n, {"server"}) /\ Val(n, "udp", "on") = "on", "plain", FALSE, <<>>)

MihomoKinds ==
  [ss |-> ShadowsocksOptions, socks5 |-> SocksOptions, http |-> HttpOptions, vless |-> VlessOptions, vmess |-> VmessOptions, trojan |-> TrojanOptions,
   hysteria2 |-> Hysteria2Options, anytls |-> AnyTlsOptions, sudoku |-> SudokuOptions, mieru |-> MieruOptions, naive |-> NaiveOptions, tuic |-> TuicOptions,
   direct |-> RouteEntryOptions, unknown |-> [server |-> {"x"}]]

(* Decoding chooses the struct by type; an entry its struct cannot decode  *)
(* is kept raw, and decoded again, in vain, when it is used.               *)
MihomoMapper(kind, n) ==
  CASE kind = "ss" -> Shadowsocks(n) [] kind = "socks5" -> Socks(n) [] kind = "http" -> Http(n) [] kind = "vless" -> Vless(n)
    [] kind = "vmess" -> Vmess(n) [] kind = "trojan" -> Trojan(n) [] kind = "hysteria2" -> Hysteria2(n) [] kind = "anytls" -> AnyTls(n)
    [] kind = "sudoku" -> Sudoku(n) [] kind = "mieru" -> Mieru(n) [] kind = "naive" -> Naive(n) [] kind = "tuic" -> Tuic(n)
    [] kind = "direct" -> RouteEntry(n) [] OTHER -> Refused
MihomoProxy(kind, n) == IF Has(n, "mistyped") /\ kind # "direct" THEN Refused ELSE MihomoMapper(kind, n)

(* The local listener: mixed-port before socks-port, the address from      *)
(* bind-address and, without one, from allow-lan.                          *)
ListenRefused == {"port", "redir_port", "tproxy_port", "authentication", "skip_auth_prefixes", "lan_allowed_ips", "lan_disallowed_ips"}
ListenOptions ==
  [o \in ListenRefused |-> {"x"}] @@ [mixed_port |-> {"x"}, socks_port |-> {"x"}, allow_lan |-> {"on"}, bind_address |-> {"*", "ip", "bad"}, dns |-> {"extra"}, tun |-> {"extra"}]
LocalSocksListen(n) ==
  LET bind == Val(n, "bind_address", "") IN
  Accept(/\ NoExtra(n) /\ ObjectOk(n, "dns") /\ ObjectOk(n, "tun") /\ None(n, ListenRefused)
         /\ None(n, {"mixed_port", "socks_port"}) \/ bind # "bad",
         "plain", FALSE,
         IF Has(n, "mixed_port") \/ Has(n, "socks_port")
         THEN [port |-> IF Has(n, "mixed_port") THEN "mixed" ELSE "socks",
               ip |-> IF bind = "*" \/ (bind = "" /\ On(n, "allow_lan")) THEN "any" ELSE IF bind = "" THEN "loopback" ELSE bind]
         ELSE <<>>)

(* The TUN section; a section that is not enabled is not looked at.        *)
TunOptions ==
  [enable |-> {"on"}, device |-> {"x"}, auto_route |-> {"x"}, mtu |-> {"x"}, dns_hijack |-> {"x"}, route_exclude_address |-> {"x"},
   route_exclude_address_set |-> {"x"}, ipv6 |-> {"on"}, enhanced_mode |-> {"fake-ip", "x"}, fake_ip_range |-> {"x"}]
TunDns(n) ==
  CASE Val(n, "enhanced_mode", "") = "fake-ip" -> "virtual" [] Has(n, "dns_hijack") -> "over-tcp" [] OTHER -> "direct"
TunSection(n) ==
  Accept(NoExtra(n) /\ (On(n, "enable") => ~Has(n, "route_exclude_address_set")), "plain", FALSE,
         IF On(n, "enable")
         THEN Carried(n, {"device", "auto_route", "mtu", "ipv6", "fake_ip_range", "route_exclude_address"}) @@ [dns |-> TunDns(n), enabled |-> "on"]
         ELSE <<>>)
=============================================================================
