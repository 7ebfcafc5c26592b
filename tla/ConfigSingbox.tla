--------------------------- MODULE ConfigSingbox ----------------------------
(***************************************************************************)
(* config_compat/singbox: how an outbound or an inbound of a sing-box file *)
(* becomes a client or a server configuration.  The options of the tls     *)
(* block are options of the node; "tls" itself is its enabled flag.        *)
(***************************************************************************)
EXTENDS ConfigNode

(* SingBoxTlsOptions, and the fields that reject_unsupported_fields names. *)
SbTlsOptions ==
  [tls |-> {"on", "off"}, server_name |-> {"x"}, insecure |-> {"on"}, disable_system_root |-> {"on"}, alpn |-> {"h2", "http/1.1", "h3"},
   utls |-> {"on", "fingerprint-off"}, reality |-> {"on", "no-key", "bad-key", "server-fields", "fields-off"},
   certificate |-> {"x", "mistyped"}, certificate_path |-> {"x"}, key |-> {"x"}, key_path |-> {"x"}, ech |-> {"off", "keys", "no-key", "mistyped"},
   client_authentication |-> {"no", "x"}, disable_sni |-> {"on"}]
SbTlsRefused ==
  {"engine", "min_version", "max_version", "cipher_suites", "curve_preferences", "certificate_public_key_sha256", "client_certificate",
   "client_certificate_path", "client_key", "client_key_path", "client_certificate_public_key_sha256", "kernel_tx", "kernel_rx", "handshake_timeout",
   "certificate_provider", "fragment", "fragment_fallback_delay", "record_fragment", "spoof", "spoof_method", "acme"}
SbTlsDecodes(n) == None(n, SbTlsRefused \cup {"disable_sni"}) /\ Val(n, "client_authentication", "no") = "no"

(* ensure_supported_client_options: no private key, no ECH.                *)
SbClientTlsOk(n) ==
  SbTlsDecodes(n) /\ None(n, {"key", "key_path"}) /\ Val(n, "ech", "off") = "off" /\ Val(n, "certificate", "") # "mistyped"
SbTlsOn(n) == On(n, "tls")
SbRoots == {"certificate", "certificate_path"}

(* utls_fingerprint and ensure_disabled_utls; reality_client_config and    *)
(* ensure_disabled_reality.                                                *)
SbUtlsOk(n) == Val(n, "utls", "") # "fingerprint-off"
SbNoUtls(n) == ~Has(n, "utls")
SbRealityOk(n) == Val(n, "reality", "on") = "on"
SbNoReality(n) == ~Has(n, "reality")

(* vless_transport_config: the type of the transport object, and without   *)
(* one the network, which also selects UDP.                                *)
SbTransportOptions == [network |-> {"tcp", "udp", "ws"}, transport |-> {"empty", "ws", "grpc", "h2", "xhttp", "packet-up", "typeless", "extra", "mistyped"}]
SbTransport(n) ==
  LET object  == Val(n, "transport", "empty")
      network == Val(n, "network", "")
      t == CASE object = "empty" -> Transport(network, "")
             [] object = "typeless" -> Transport(network, "path")
             [] object = "packet-up" -> Transport("xhttp", "packet-up")
             [] OTHER -> Transport(object, "path")
  IN [t EXCEPT !.ok = @ /\ object \notin {"extra", "mistyped"}]
SbUdp(n) == [udp |-> IF Val(n, "network", "") = "tcp" THEN "off" ELSE "on"]
SbNetworkOk(n) == Val(n, "network", "") \in {"", "tcp", "udp"}

(* ensure_multiplex_disabled; singbox_uot_enabled, which reads the version *)
(* of an enabled block only.                                               *)
SbMultiplex == [multiplex |-> {"off", "on", "protocol", "extra"}]
SbNoMultiplex(n) == Val(n, "multiplex", "off") = "off"
SbUot == [udp_over_tcp |-> {"on", "on-v2", "on-v1", "off-v1", "mistyped"}]
SbUotOk(n) == Val(n, "udp_over_tcp", "off") \notin {"on-v1", "mistyped"}
SbUotOn(n) == IF Val(n, "udp_over_tcp", "off") \in {"on", "on-v2"} THEN [uot |-> "on"] ELSE [uot |-> "off"]

SbShadowsocksOptions == SbMultiplex @@ SbUot @@ [network |-> {"tcp", "udp", "bogus"}, plugin |-> {"x"}, plugin_opts |-> {"x"}]
SbShadowsocks(n) ==
  Accept(NoExtra(n) /\ SbNoMultiplex(n) /\ None(n, {"plugin", "plugin_opts"}) /\ SbUotOk(n), "cipher", FALSE,
         SbUotOn(n) @@ [udp |-> IF SbUotOn(n).uot = "on" THEN "on" ELSE SbUdp(n).udp])

(* tcp_udp_network: a SOCKS outbound needs its TCP control connection.     *)
SbSocksOptions == [username |-> {"x"}, password |-> {"x"}, network |-> {"tcp", "udp", "both", "bogus"}]
SbSocks(n) ==
  Accept(NoExtra(n) /\ Val(n, "network", "") \notin {"udp", "bogus"}, "plain", FALSE, SbUdp(n) @@ Carried(n, {"username", "password"}))

(* An inline certificate passes the checks of an HTTP outbound and is not  *)
(* used; certificate_path is.                                              *)
SbHttpOptions == SbTlsOptions @@ [username |-> {"x"}, password |-> {"x"}, headers |-> {"x"}]
SbHttp(n) ==
  Accept(/\ NoExtra(n) /\ SbTlsDecodes(n) /\ None(n, {"key", "key_path"}) /\ Val(n, "ech", "off") = "off" /\ SbUtlsOk(n)
         /\ IF SbTlsOn(n) THEN HttpAlpnOk(Val(n, "alpn", ""))
            ELSE SbNoUtls(n) /\ SbNoReality(n) /\ None(n, {"alpn", "insecure", "disable_system_root"} \cup SbRoots),
         IF SbTlsOn(n) THEN "tls" ELSE "plain", On(n, "insecure"),
         Carried(n, {"username", "password", "headers", "server_name", "certificate_path", "disable_system_root", "utls"}))

(* The options of a block that is not enabled: insecure and                *)
(* disable_system_root are dropped, names and roots are kept unused.       *)
SbClientTls(n) ==
  Carried(n, {"server_name"} \cup SbRoots \cup (IF SbTlsOn(n) THEN {"disable_system_root", "utls"} ELSE {}))

SbVlessOptions == SbTlsOptions @@ SbTransportOptions @@ SbMultiplex @@ [flow |-> {"x"}, packet_encoding |-> {"x"}]
SbVless(n) ==
  LET t       == SbTransport(n)
      reality == SbTlsOn(n) /\ Has(n, "reality")
  IN Accept(/\ NoExtra(n) /\ SbNoMultiplex(n) /\ t.ok /\ SbClientTlsOk(n) /\ SbUtlsOk(n)
            /\ IF SbTlsOn(n) THEN AlpnOk(t.kind, Val(n, "alpn", "")) /\ SbRealityOk(n)
               ELSE SbNoUtls(n) /\ SbNoReality(n) /\ ~Has(n, "alpn"),
            IF reality THEN "reality" ELSE IF SbTlsOn(n) THEN "tls" ELSE "plain", SbTlsOn(n) /\ On(n, "insecure"),
            WithTransport(SbClientTls(n) @@ SbUdp(n) @@ Carried(n, {"flow", "packet_encoding"}), t))

(* Without TLS a VMess outbound refuses uTLS and ALPN, not REALITY.        *)
SbVmessOptions == SbTlsOptions @@ SbTransportOptions @@ SbMultiplex @@ [security |-> {"x"}, alter_id |-> {"x"}, packet_encoding |-> {"xudp", "bogus"}]
SbVmess(n) ==
  LET t == SbTransport(n) IN
  Accept(/\ NoExtra(n) /\ SbNoMultiplex(n) /\ t.ok /\ ~Has(n, "alter_id") /\ Val(n, "packet_encoding", "") # "bogus" /\ SbClientTlsOk(n)
         /\ IF SbTlsOn(n) THEN AlpnOk(t.kind, Val(n, "alpn", "")) /\ SbUtlsOk(n) ELSE SbNoUtls(n) /\ ~Has(n, "alpn"),
         IF SbTlsOn(n) THEN "tls" ELSE "plain", SbTlsOn(n) /\ On(n, "insecure"),
         WithTransport(SbClientTls(n) @@ SbUdp(n) @@ Carried(n, {"security", "packet_encoding"}), t))

SbTrojanOptions == SbTlsOptions @@ SbTransportOptions @@ SbMultiplex
SbTrojan(n) ==
  LET t == SbTransport(n) IN
  Accept(NoExtra(n) /\ SbNoMultiplex(n) /\ t.ok /\ SbTlsOn(n) /\ SbClientTlsOk(n) /\ AlpnOk(t.kind, Val(n, "alpn", "")) /\ SbUtlsOk(n),
         "tls", On(n, "insecure"), WithTransport(SbClientTls(n) @@ SbUdp(n), t))

SbHysteria2Options ==
  SbTlsOptions @@
  [network |-> {"tcp", "udp", "bogus"}, server_ports |-> {"empty", "x"}, hop_interval |-> {"x"}, realm |-> {"x"}, bbr_profile |-> {"standard", "x"},
   brutal_debug |-> {"on"}, obfs |-> {"salamander", "other", "extra"}, up_mbps |-> {"x"}, down_mbps |-> {"x"}, down |-> {"x"}]
SbHysteria2(n) ==
  Accept(/\ NoExtra(n) /\ SbNetworkOk(n) /\ ~HasData(n, "server_ports") /\ None(n, {"hop_interval", "realm", "brutal_debug"})
         /\ Val(n, "bbr_profile", "standard") = "standard" /\ Val(n, "obfs", "salamander") = "salamander"
         /\ ~None(n, {"server"}) /\ SbTlsOn(n) /\ SbClientTlsOk(n) /\ Hy2AlpnOk(Val(n, "alpn", "")),
         "tls", On(n, "insecure"),
         SbUdp(n) @@ Carried(n, {"server_name", "disable_system_root", "obfs", "up_mbps"} \cup SbRoots \cup IF Has(n, "down_mbps") THEN {"down_mbps"} ELSE {"down"}))

SbAnyTlsOptions == SbTlsOptions
SbAnyTls(n) ==
  Accept(NoExtra(n) /\ SbTlsOn(n) /\ SbClientTlsOk(n) /\ SbUtlsOk(n), "tls", On(n, "insecure"), SbClientTls(n))

SbMieruOptions == [username |-> {"x"}, mtu |-> {"x"}, transport |-> {"udp", "bogus"}, traffic_pattern |-> {"x", "bad"}]
SbMieru(n) ==
  Accept(NoExtra(n) /\ Val(n, "transport", "tcp") # "bogus" /\ Val(n, "traffic_pattern", "") # "bad", "cipher", FALSE, Carried(n, DOMAIN SbMieruOptions))

(* The network of a Naive outbound only selects QUIC; no other value of it *)
(* is checked.                                                             *)
SbNaiveOptions ==
  SbTlsOptions @@ SbUot @@ [username |-> {"x"}, network |-> {"quic", "bogus"}, extra_headers |-> {"x"}, quic |-> {"on"}, insecure_concurrency |-> {"x"}, quic_congestion_control |-> {"x"}]
SbNaive(n) ==
  Accept(NoExtra(n) /\ SbTlsOn(n) /\ SbClientTlsOk(n) /\ ~Has(n, "insecure_concurrency") /\ SbUotOk(n), "tls", On(n, "insecure"),
         SbUotOn(n) @@ [quic |-> IF On(n, "quic") \/ Val(n, "network", "") = "quic" THEN "on" ELSE "off"]
           @@ Carried(n, {"username", "server_name", "disable_system_root", "extra_headers", "quic_congestion_control"} \cup SbRoots))

SbTuicOptions ==
  SbTlsOptions @@ [network |-> {"tcp", "udp", "bogus"}, zero_rtt_handshake |-> {"on"}, udp_over_stream |-> {"on", "off", "mistyped"}, udp_relay_mode |-> {"x"},
                   congestion_control |-> {"x"}, heartbeat |-> {"x", "bad"}]
SbTuic(n) ==
  Accept(/\ NoExtra(n) /\ SbNetworkOk(n) /\ ~Has(n, "zero_rtt_handshake") /\ Val(n, "udp_over_stream", "off") = "off"
         /\ SbTlsOn(n) /\ SbClientTlsOk(n) /\ TuicAlpnOk(Val(n, "alpn", "")) /\ Val(n, "heartbeat", "") # "bad",
         "tls", On(n, "insecure"),
         SbUdp(n) @@ Carried(n, {"server_name", "disable_system_root", "alpn", "udp_relay_mode", "congestion_control", "heartbeat"} \cup SbRoots))

(* direct and block have no fields at all.                                 *)
SbRouteOptions == [override_address |-> {"x"}]
SbRoute(n) == Accept(None(n, {"override_address", "extra"}), "plain", FALSE, <<>>)

SbOutboundOptions ==
  [shadowsocks |-> SbShadowsocksOptions, socks |-> SbSocksOptions, http |-> SbHttpOptions, vless |-> SbVlessOptions, vmess |-> SbVmessOptions,
   trojan |-> SbTrojanOptions, hysteria2 |-> SbHysteria2Options, anytls |-> SbAnyTlsOptions, mieru |-> SbMieruOptions, naive |-> SbNaiveOptions,
   tuic |-> SbTuicOptions, direct |-> SbRouteOptions]
SbOutbound(kind, n) ==
  CASE kind = "shadowsocks" -> SbShadowsocks(n) [] kind = "socks" -> SbSocks(n) [] kind = "http" -> SbHttp(n) [] kind = "vless" -> SbVless(n)
    [] kind = "vmess" -> SbVmess(n) [] kind = "trojan" -> SbTrojan(n) [] kind = "hysteria2" -> SbHysteria2(n) [] kind = "anytls" -> SbAnyTls(n)
    [] kind = "mieru" -> SbMieru(n) [] kind = "naive" -> SbNaive(n) [] kind = "tuic" -> SbTuic(n) [] kind = "direct" -> SbRoute(n) [] OTHER -> Refused

(***************************************************************************)
(* Inbounds.  The first user is the primary one.                           *)
(***************************************************************************)
SbListenOptions == [listen |-> {"x", "bad"}, users |-> {"two", "none", "differ", "second-legacy", "no-uuid"}]
SbListens(n) == Has(n, "listen_port") /\ Val(n, "listen", "x") # "bad"
SbUsers(n) == Val(n, "users", "one") # "none"

(* ensure_supported_server_options and singbox_tls_server_identity.        *)
SbServerTlsOk(n) == SbTlsDecodes(n) /\ SbNoUtls(n) /\ SbNoReality(n)
SbIdentity == SbRoots \cup {"key", "key_path"}
SbIdentityOk(n) == ~None(n, SbRoots) /\ ~None(n, {"key", "key_path"}) /\ Val(n, "certificate", "") # "mistyped"
SbEchOk(n) == Val(n, "ech", "off") \in {"off", "keys"}
SbEch(n) == [ech |-> Val(n, "ech", "off")]
SbServerTls(n) == SbTlsOn(n) /\ SbServerTlsOk(n) /\ SbIdentityOk(n)

(* The unsupported TLS fields are looked at by every inbound but Naive.    *)
SbNaiveInOptions == SbListenOptions @@ SbTlsOptions @@ [network |-> {"udp", "both", "bogus"}, quic_congestion_control |-> {"x"}]
SbNaiveIn(n) ==
  LET network == Val(n, "network", "tcp")
      alpn == Val(n, "alpn", "") IN
  Accept(/\ NoExtra(n) /\ SbTlsOn(n) /\ SbNoUtls(n) /\ SbNoReality(n) /\ network # "bogus"
         /\ alpn \in {""} \cup (IF network \in {"tcp", "both"} THEN {"h2", "http/1.1"} ELSE {}) \cup (IF network \in {"udp", "both"} THEN {"h3"} ELSE {})
         /\ ~Has(n, "ech") /\ SbIdentityOk(n) /\ SbListens(n),
         "tls", FALSE, Carried(n, {"network", "users", "listen", "quic_congestion_control"} \cup SbIdentity))

SbVlessInOptions == SbListenOptions @@ SbTlsOptions @@ SbTransportOptions @@ SbMultiplex
SbVlessIn(n) ==
  LET t       == SbTransport(n)
      reality == Val(n, "reality", "") \in {"on", "no-key", "bad-key", "server-fields"}
      certs   == SbTlsOn(n) /\ ~reality
  IN Accept(/\ NoExtra(n) /\ SbNoMultiplex(n) /\ t.ok /\ SbTlsDecodes(n) /\ (reality => SbTlsOn(n))
            /\ IF SbTlsOn(n) THEN AlpnOk(t.kind, Val(n, "alpn", "")) ELSE SbNoUtls(n) /\ SbNoReality(n) /\ ~Has(n, "alpn")
            /\ SbUsers(n) /\ Val(n, "users", "one") # "differ" /\ SbListens(n)
            /\ reality => n["reality"] = "server-fields"      \* handshake and private key, no public key
            /\ IF certs THEN SbServerTlsOk(n) /\ SbIdentityOk(n) /\ SbEchOk(n) ELSE SbNoUtls(n) /\ None(n, SbIdentity),
            IF reality THEN "reality" ELSE IF SbTlsOn(n) THEN "tls" ELSE "plain", FALSE,
            WithTransport(Carried(n, {"users", "listen"} \cup SbIdentity) @@ (IF certs THEN SbEch(n) ELSE [ech |-> "off"]), t))

SbAnyTlsInOptions == SbListenOptions @@ SbTlsOptions @@ [padding_scheme |-> {"x"}]
SbAnyTlsIn(n) ==
  Accept(NoExtra(n) /\ SbServerTls(n) /\ SbUsers(n) /\ SbEchOk(n) /\ SbListens(n), "tls", FALSE,
         SbEch(n) @@ Carried(n, {"users", "listen", "padding_scheme"} \cup SbIdentity))

SbMieruInOptions == SbListenOptions @@ SbMieruOptions @@ [user_hint_mandatory |-> {"on"}]
SbMieruIn(n) ==
  Accept(NoExtra(n) /\ SbUsers(n) /\ SbListens(n) /\ Val(n, "transport", "tcp") # "bogus" /\ Val(n, "traffic_pattern", "") # "bad", "cipher", FALSE,
         Carried(n, {"users", "listen", "mtu", "transport", "traffic_pattern", "user_hint_mandatory"}))

SbHysteria2InOptions ==
  SbListenOptions @@ SbTlsOptions @@
  [network |-> {"tcp", "udp", "bogus"}, password |-> {"x"}, obfs |-> {"salamander", "other", "extra"}, masquerade |-> {"empty", "x"}, bbr_profile |-> {"standard", "x"},
   brutal_debug |-> {"on"}, up_mbps |-> {"x"}, down_mbps |-> {"x"}, down |-> {"x"}]
SbHysteria2In(n) ==
  Accept(/\ NoExtra(n) /\ SbServerTls(n) /\ SbNetworkOk(n) /\ Hy2AlpnOk(Val(n, "alpn", "")) /\ ~HasData(n, "masquerade")
         /\ Val(n, "bbr_profile", "standard") = "standard" /\ ~Has(n, "brutal_debug") /\ Val(n, "obfs", "salamander") = "salamander"
         /\ SbUsers(n) \/ Has(n, "password")
         /\ SbListens(n),
         "tls", FALSE,
         SbUdp(n) @@ Carried(n, {"users", "listen", "obfs", "up_mbps"} \cup SbIdentity \cup (IF SbUsers(n) THEN {} ELSE {"password"})
                                   \cup (IF Has(n, "down_mbps") THEN {"down_mbps"} ELSE {"down"})))

SbTuicInOptions ==
  SbListenOptions @@ SbTlsOptions @@
  [network |-> {"tcp", "udp", "bogus"}, zero_rtt_handshake |-> {"on"}, udp_relay_mode |-> {"quic", "bogus"}, congestion_control |-> {"x"}, heartbeat |-> {"x", "bad"}]
SbTuicIn(n) ==
  Accept(/\ NoExtra(n) /\ SbServerTls(n) /\ SbNetworkOk(n) /\ TuicAlpnOk(Val(n, "alpn", "")) /\ ~Has(n, "zero_rtt_handshake")
         /\ Val(n, "udp_relay_mode", "native") # "bogus" /\ SbUsers(n) /\ SbListens(n) /\ Val(n, "heartbeat", "") # "bad",
         "tls", FALSE, SbUdp(n) @@ Carried(n, {"users", "listen", "congestion_control", "alpn", "heartbeat"} \cup SbIdentity))

SbShadowsocksInOptions == SbListenOptions @@ SbMultiplex @@ [network |-> {"tcp", "udp", "bogus"}, managed |-> {"on"}, destinations |-> {"empty", "x"}]
SbShadowsocksIn(n) ==
  Accept(/\ NoExtra(n) /\ ~Has(n, "managed") /\ SbNoMultiplex(n) /\ ~HasData(n, "destinations")
         /\ Val(n, "network", "") # "bogus" /\ SbListens(n),
         "cipher", FALSE, Carried(n, {"users", "listen", "network"}))

SbTrojanInOptions == SbListenOptions @@ SbTlsOptions @@ SbTransportOptions @@ SbMultiplex @@ [fallback |-> {"empty", "x"}, fallback_for_alpn |-> {"x"}]
SbTrojanIn(n) ==
  LET t == SbTransport(n) IN
  Accept(/\ NoExtra(n) /\ SbNoMultiplex(n) /\ ~HasData(n, "fallback") /\ ~Has(n, "fallback_for_alpn") /\ SbServerTls(n) /\ t.ok
         /\ AlpnOk(t.kind, Val(n, "alpn", "")) /\ SbUsers(n) /\ SbEchOk(n) /\ SbListens(n),
         "tls", FALSE, WithTransport(SbEch(n) @@ Carried(n, {"users", "listen"} \cup SbIdentity), t))

SbVmessInOptions == SbVlessInOptions
SbVmessIn(n) ==
  LET t == SbTransport(n) IN
  Accept(/\ NoExtra(n) /\ SbNoMultiplex(n) /\ t.ok /\ Val(n, "users", "one") \in {"one", "two", "differ"} /\ SbServerTlsOk(n) /\ SbListens(n)
         /\ IF SbTlsOn(n) THEN AlpnOk(t.kind, Val(n, "alpn", "")) /\ SbIdentityOk(n) /\ SbEchOk(n)
            ELSE None(n, SbIdentity \cup {"alpn"}),
         IF SbTlsOn(n) THEN "tls" ELSE "plain", FALSE,
         WithTransport(Carried(n, {"users", "listen"} \cup SbIdentity) @@ (IF SbTlsOn(n) THEN SbEch(n) ELSE [ech |-> "off"]), t))

SbInboundOptions ==
  [naive |-> SbNaiveInOptions, vless |-> SbVlessInOptions, anytls |-> SbAnyTlsInOptions, mieru |-> SbMieruInOptions, hysteria2 |-> SbHysteria2InOptions,
   tuic |-> SbTuicInOptions, shadowsocks |-> SbShadowsocksInOptions, trojan |-> SbTrojanInOptions, vmess |-> SbVmessInOptions]
SbInbound(kind, n) ==
  CASE kind = "naive" -> SbNaiveIn(n) [] kind = "vless" -> SbVlessIn(n) [] kind = "anytls" -> SbAnyTlsIn(n) [] kind = "mieru" -> SbMieruIn(n)
    [] kind = "hysteria2" -> SbHysteria2In(n) [] kind = "tuic" -> SbTuicIn(n) [] kind = "shadowsocks" -> SbShadowsocksIn(n)
    [] kind = "trojan" -> SbTrojanIn(n) [] kind = "vmess" -> SbVmessIn(n) [] OTHER -> Refused

(* The local listeners, and the TUN inbound.                               *)
SbLocalSocksOptions == [listen |-> {"x", "bad"}, users |-> {"x"}]
SbLocalSocks(n) == Accept(NoExtra(n) /\ None(n, {"users"}) /\ SbListens(n), "plain", FALSE, Carried(n, {"listen"}))
SbTunOptions == [interface_name |-> {"x"}, mtu |-> {"x"}, auto_route |-> {"x"}, exclude |-> {"x", "mistyped"}, exclude_set |-> {"x"}, address |-> {"v4", "v6"}]
SbTun(n) ==
  Accept(NoExtra(n) /\ None(n, {"exclude_set"}) /\ Val(n, "exclude", "") # "mistyped", "plain", FALSE,
         Carried(n, {"interface_name", "mtu", "auto_route", "exclude"}) @@ [ipv6 |-> IF Val(n, "address", "") = "v6" THEN "on" ELSE "off"])
=============================================================================
