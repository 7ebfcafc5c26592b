----------------------------- MODULE ConfigXray -----------------------------
(***************************************************************************)
(* config_compat/xray: how an outbound or an inbound of an Xray file       *)
(* becomes a client or a server configuration.  Every protocol decodes the *)
(* same settings and streamSettings structs and reads the fields it knows  *)
(* of; the fields that no protocol supports are refused for all of them.   *)
(***************************************************************************)
EXTENDS ConfigNode

(* XrayOutboundSettings, with the first vnext or servers entry as one      *)
(* option whose value tells what is special about it.                      *)
XraySettings ==
  [version |-> {"2", "1"}, id |-> {"x"}, password |-> {"x"}, auth |-> {"x"}, user |-> {"x"}, pass |-> {"x"}, headers |-> {"x"},
   settings_network |-> {"tcp", "udp", "bogus"}, domain_strategy |-> {"x"}, redirect |-> {"x"}, user_level |-> {"x"}, response |-> {"x"},
   flow |-> {"x"}, packet_encoding |-> {"xudp", "bogus"}, settings_security |-> {"x"}, method |-> {"x"}, decryption |-> {"none", "x"}, alter_id |-> {"x"},
   clients |-> {"two", "no-secret", "second-no-secret", "second-differs", "alter-id"}, fallbacks |-> {"x"},
   vnext |-> {"user", "no-users", "no-id", "encrypted", "alter-id", "flow"}, servers |-> {"x", "no-secret", "login"}]

(* XrayStreamSettings: the blocks it refuses, and those of the transports. *)
XrayRefusedBlocks == {"raw_settings", "kcp_settings", "quic_settings", "ds_settings", "sockopt"}
XrayBlocks ==
  [ws_settings |-> {"path"}, http_upgrade_settings |-> {"path"}, grpc_settings |-> {"path"}, http_settings |-> {"path"},
   xhttp_settings |-> {"path", "packet-up"}, split_http_settings |-> {"path"}]
XrayStream ==
  [network |-> {"ws", "httpupgrade", "grpc", "h2", "http", "xhttp", "kcp", "hysteria"}, security |-> {"tls", "reality", "bogus"}] @@
  [o \in XrayRefusedBlocks |-> {"empty", "x"}] @@ XrayBlocks

(* XrayTlsSettings, its certificates as one option, and the fields that    *)
(* reject_unsupported_fields of the settings and of a certificate refuse.  *)
XrayTlsSettings ==
  [server_name |-> {"x"}, allow_insecure |-> {"on"}, fingerprint |-> {"x"}, alpn |-> {"h2", "http/1.1", "h3"}, disable_system_root |-> {"on"},
   pinned |-> {"x"}, certificates |-> {"pair", "verify", "verify-empty", "no-certificate", "no-key"}, ech_server_keys |-> {"x"}]
XrayTlsRefused ==
  {"verify_peer_cert_by_name", "min_version", "max_version", "cipher_suites", "master_key_log", "ech_config_list", "reject_unknown_sni",
   "enable_session_resumption", "curve_preferences", "ech_sockopt"}
XrayCertificateRefused == {"ocsp_stapling", "one_time_loading", "build_chain"}
XrayReality ==
  [public_key |-> {"x", "bad"}, private_key |-> {"x", "bad"}, dest |-> {"x", "no-port"}, server_names |-> {"x"}, short_id |-> {"x", "bad"}, short_ids |-> {"x"},
   reality_server_name |-> {"x"}, reality_fingerprint |-> {"x"}, reality_alpn |-> {"h2"}]
XrayHysteria ==
  [hysteria_version |-> {"2", "1"}, hysteria_auth |-> {"x"}, congestion |-> {"reno", "x"}, up |-> {"x"}, down |-> {"x"}, udp_hop |-> {"empty", "x"},
   masquerade |-> {"empty", "x"}, mask_tcp |-> {"x"}, mask_udp |-> {"salamander", "no-password", "other", "two"}, quic_congestion |-> {"reno", "x"},
   quic_debug |-> {"x"}, bbr_profile |-> {"standard", "x"}, brutal_up |-> {"x"}, brutal_down |-> {"x"}, quic_udp_hop |-> {"empty", "x"}]

(* reject_unsupported_extra_fields and reject_unsupported_fields: every    *)
(* object of the node refuses a field that its struct does not declare,    *)
(* the blocks of transports that are not used included.                    *)
XrayDecodes(n) ==
  /\ NoExtra(n)
  /\ \A o \in XrayRefusedBlocks : ~HasData(n, o)
  /\ None(n, XrayTlsRefused \cup XrayCertificateRefused)

XraySecurity(n) == Val(n, "security", "none")
XrayRawTcp(n) == NetworkKind(Val(n, "network", "tcp")) = "tcp"
XrayMux == [mux |-> {"on"}]
XrayMuxOff(n) == ~On(n, "mux")

(* vless_transport_config: only the block of the network is read, and the  *)
(* network http, an alias of h2, reads none.                               *)
XrayTransport(n) ==
  LET network == Val(n, "network", "tcp")
      block == CASE network = "ws" -> "ws_settings" [] network = "httpupgrade" -> "http_upgrade_settings" [] network = "grpc" -> "grpc_settings"
                 [] network = "h2" -> "http_settings"
                 [] network = "xhttp" -> IF Has(n, "xhttp_settings") THEN "xhttp_settings" ELSE "split_http_settings"
                 [] OTHER -> "none"
  IN Transport(network, Val(n, block, ""))

(* stream_alpn: REALITY has its own list.                                  *)
XrayAlpn(n) == Val(n, IF XraySecurity(n) = "reality" THEN "reality_alpn" ELSE "alpn", "")

(* xray_tls_client_roots, xray_disable_system_roots and                    *)
(* xray_pinned_cert_sha256: roots are read only when the system roots are  *)
(* disabled.                                                               *)
XrayRootsOk(n) == On(n, "disable_system_root") => Val(n, "certificates", "") # "verify-empty"
XrayTls(n) ==
  Carried(n, {"server_name", "fingerprint", "disable_system_root", "pinned"})
    @@ [roots |-> IF On(n, "disable_system_root") /\ Val(n, "certificates", "") = "verify" THEN "x" ELSE ""]
XrayTlsOnly == {"allow_insecure", "fingerprint", "server_name", "disable_system_root", "pinned", "certificates"}

(* first_trojan_server: the servers list, or address, port and password of *)
(* the settings; the password of the settings does not back up the list.   *)
XrayServer(n) ==
  [ok |-> Has(n, "servers") \/ Has(n, "address"),
   secret |-> IF Has(n, "servers") THEN n["servers"] # "no-secret" ELSE Has(n, "password"),
   carried |-> Carried(n, IF Has(n, "servers") THEN {"servers"} ELSE {"address"}),
   method |-> IF Has(n, "servers") THEN n["servers"] # "no-secret" ELSE Has(n, "method")]
XrayPassword(n) == Carried(n, IF Val(n, "servers", "no-secret") # "no-secret" THEN {} ELSE {"password"})

(* first_vless_or_vmess_peer: the vnext list, or the fields of the         *)
(* settings, of which encryption is not one.                               *)
XrayPeer(n) ==
  LET listed == Has(n, "vnext") IN
  [ok |-> IF listed THEN n["vnext"] # "no-users" ELSE Has(n, "address"),
   secret |-> IF listed THEN n["vnext"] # "no-id" ELSE Has(n, "id"),
   plain |-> ~listed \/ n["vnext"] # "encrypted",
   aead |-> (~listed \/ n["vnext"] # "alter-id") /\ ~Has(n, "alter_id"),
   carried |-> Carried(n, (IF listed THEN {"vnext"} ELSE {"address", "id"})
                            \cup (IF listed /\ n["vnext"] = "flow" THEN {} ELSE {"flow"}))]

XraySocksNetwork(n, default) == LET v == Val(n, "settings_network", default) IN [tcp |-> v # "udp", udp |-> v # "tcp", ok |-> v # "bogus"]

XrayAnyTls(n) ==
  LET server == XrayServer(n) IN
  Accept(XrayMuxOff(n) /\ XrayRawTcp(n) /\ XraySecurity(n) \in {"none", "tls"} /\ server.ok /\ (server.secret \/ Has(n, "password")) /\ XrayRootsOk(n),
         "tls", On(n, "allow_insecure"), XrayTls(n) @@ server.carried @@ XrayPassword(n))

XrayMieru(n) ==
  LET server == XrayServer(n) IN
  Accept(/\ XrayMuxOff(n) /\ XrayRawTcp(n) /\ XraySecurity(n) = "none" /\ server.ok /\ (server.secret \/ Has(n, "password"))
         /\ Val(n, "settings_network", "tcp") # "bogus",
         "cipher", FALSE, server.carried @@ XrayPassword(n) @@ Carried(n, {"user", "settings_network"}))

XrayHttp(n) ==
  LET server == XrayServer(n)
      tls    == XraySecurity(n) = "tls"
  IN Accept(/\ XrayMuxOff(n) /\ XraySecurity(n) \in {"none", "tls"} /\ server.ok
            /\ IF tls THEN HttpAlpnOk(XrayAlpn(n)) /\ XrayRootsOk(n) ELSE None(n, XrayTlsOnly \cup {"alpn"}),
            IF tls THEN "tls" ELSE "plain", tls /\ On(n, "allow_insecure"),
            XrayTls(n) @@ server.carried @@ Carried(n, {"user", "pass", "headers"}))

XraySocks(n) ==
  LET server == XrayServer(n)
      network == XraySocksNetwork(n, "tcp,udp")
  IN Accept(/\ XrayMuxOff(n) /\ XrayRawTcp(n) /\ XraySecurity(n) = "none" /\ server.ok /\ network.ok /\ network.tcp
            /\ None(n, XrayTlsOnly \cup {"alpn", "headers"}),
            "plain", FALSE, server.carried @@ Carried(n, {"user", "pass", "settings_network"}))

XrayVless(n) ==
  LET peer     == XrayPeer(n)
      t        == XrayTransport(n)
      security == XraySecurity(n)
  IN Accept(/\ peer.ok /\ peer.secret /\ peer.plain /\ t.ok /\ security # "bogus"
            /\ security = "reality" => Val(n, "public_key", "bad") # "bad" /\ Val(n, "short_id", "") # "bad"
            /\ IF security = "none" THEN XrayAlpn(n) = "" ELSE AlpnOk(t.kind, XrayAlpn(n))
            /\ security = "tls" => XrayRootsOk(n),
            IF security = "none" THEN "plain" ELSE security, security = "tls" /\ On(n, "allow_insecure"),
            WithTransport(peer.carried @@ Carried(n, {"packet_encoding", "mux"})
                            @@ (CASE security = "tls" -> XrayTls(n)
                                  [] security = "reality" -> Carried(n, {"reality_server_name", "reality_fingerprint", "public_key", "short_id"})
                                  [] OTHER -> <<>>), t))

XrayShadowsocks(n) ==
  LET server == XrayServer(n) IN
  Accept(/\ XrayMuxOff(n) /\ XrayRawTcp(n) /\ XraySecurity(n) = "none" /\ server.ok /\ server.secret
         /\ server.method \/ Has(n, "method") \/ Has(n, "settings_security"),
         "cipher", FALSE, server.carried @@ XrayPassword(n) @@ Carried(n, IF server.method THEN {"method"} ELSE {"method", "settings_security"}))

XrayVmess(n) ==
  LET peer == XrayPeer(n)
      t    == XrayTransport(n)
      tls  == XraySecurity(n) = "tls"
  IN Accept(/\ XrayMuxOff(n) /\ peer.ok /\ peer.secret /\ peer.aead /\ t.ok /\ XraySecurity(n) \in {"none", "tls"}
            /\ Val(n, "packet_encoding", "") # "bogus"
            /\ IF tls THEN AlpnOk(t.kind, XrayAlpn(n)) /\ XrayRootsOk(n) ELSE XrayAlpn(n) = "",
            IF tls THEN "tls" ELSE "plain", tls /\ On(n, "allow_insecure"),
            WithTransport(peer.carried @@ Carried(n, {"packet_encoding", "settings_security", "server_name"}) @@ (IF tls THEN XrayTls(n) ELSE <<>>), t))

XrayTrojan(n) ==
  LET server == XrayServer(n)
      t      == XrayTransport(n)
  IN Accept(XrayMuxOff(n) /\ server.ok /\ server.secret /\ t.ok /\ XraySecurity(n) = "tls" /\ AlpnOk(t.kind, XrayAlpn(n)) /\ XrayRootsOk(n),
            "tls", On(n, "allow_insecure"), WithTransport(server.carried @@ XrayPassword(n) @@ XrayTls(n), t))

(* The version, the masks and the congestion control of a hysteria block,  *)
(* checked alike for both directions; a value of quicParams hides the one  *)
(* of hysteriaSettings.                                                    *)
XrayHysteriaOk(protocol, n) ==
  LET version == Val(n, "version", Val(n, "hysteria_version", "")) IN
  /\ version = "2" \/ (version = "" /\ protocol # "hysteria")
  /\ \A o \in {"udp_hop", "masquerade", "quic_udp_hop"} : ~HasData(n, o)
  /\ None(n, {"mask_tcp", "quic_debug"})
  /\ Val(n, "mask_udp", "salamander") = "salamander"
  /\ Val(n, "bbr_profile", "standard") = "standard"
  /\ Val(n, "quic_congestion", Val(n, "congestion", "bbr")) \in {"bbr", "reno"}
  /\ Hy2AlpnOk(Val(n, "alpn", ""))
XrayHysteriaCarried(n) ==
  Carried(n, {"mask_udp"} \cup {IF Has(n, p[1]) THEN p[1] ELSE p[2] :
                                  p \in {<<"quic_congestion", "congestion">>, <<"brutal_up", "up">>, <<"brutal_down", "down">>}})

XrayHysteria2(protocol, n) ==
  LET server == XrayServer(n) IN
  Accept(/\ XrayMuxOff(n) /\ server.ok /\ (Has(n, "hysteria_auth") \/ server.secret) /\ XrayHysteriaOk(protocol, n) /\ XrayRootsOk(n)
         /\ Val(n, "network", "tcp") \in {"hysteria"} \cup (IF protocol = "hysteria" THEN {} ELSE {"tcp"}),
         "tls", On(n, "allow_insecure"), server.carried @@ XrayTls(n) @@ XrayHysteriaCarried(n)
           @@ (IF Has(n, "hysteria_auth") THEN Carried(n, {"hysteria_auth"}) ELSE XrayPassword(n)))

(* freedom and blackhole: ensure_empty_route_settings, and no stream       *)
(* options at all.                                                         *)
XrayRoute(n) ==
  Accept(/\ XrayMuxOff(n) /\ XrayRawTcp(n) /\ XraySecurity(n) = "none"
         /\ None(n, DOMAIN XraySettings \cup {"address"} \cup DOMAIN XrayBlocks \cup DOMAIN XrayTlsSettings \cup DOMAIN XrayReality
                      \cup (DOMAIN XrayHysteria)),
         "plain", FALSE, <<>>)

XrayOutbound(protocol, n) ==
  IF ~XrayDecodes(n) THEN Refused
  ELSE CASE protocol = "anytls" -> XrayAnyTls(n) [] protocol = "freedom" -> XrayRoute(n) [] protocol = "shadowsocks" -> XrayShadowsocks(n)
         [] protocol = "socks" -> XraySocks(n) [] protocol = "http" -> XrayHttp(n) [] protocol = "vless" -> XrayVless(n)
         [] protocol = "vmess" -> XrayVmess(n) [] protocol = "trojan" -> XrayTrojan(n) [] protocol \in {"hysteria", "hysteria2"} -> XrayHysteria2(protocol, n)
         [] protocol = "mieru" -> XrayMieru(n) [] OTHER -> Refused

(***************************************************************************)
(* Inbounds.  The first client is the primary one, the others are users.   *)
(***************************************************************************)
XrayListens(n) == Has(n, "port") /\ Val(n, "listen", "x") # "bad"
XrayClient(n) == Val(n, "clients", "none")
XraySecondOk(n) == XrayClient(n) # "second-no-secret"

(* xray_first_server_certificate and xray_tls_server_identity.             *)
XrayIdentityOk(n) == Val(n, "certificates", "") = "pair"

XrayShadowsocksIn(n) ==
  LET network == XraySocksNetwork(n, "tcp") IN
  Accept(/\ XrayRawTcp(n) /\ XraySecurity(n) = "none" /\ XrayListens(n) /\ network.ok
         /\ XrayClient(n) \in {"none", "no-secret"} => Has(n, "password")
         /\ XrayClient(n) \in {"none", "no-secret"} => Has(n, "method") \/ Has(n, "settings_security")
         /\ XraySecondOk(n) /\ XrayClient(n) # "second-differs",
         "cipher", FALSE, Carried(n, {"clients", "password", "method", "settings_security", "settings_network", "listen"}))

(* A second client without a password is dropped, not refused.             *)
XrayAnyTlsIn(n) ==
  Accept(/\ XrayRawTcp(n) /\ XraySecurity(n) \in {"none", "tls"} /\ XrayIdentityOk(n) /\ XrayListens(n)
         /\ Has(n, "password") \/ XrayClient(n) \notin {"none", "no-secret"},
         "tls", FALSE, Carried(n, {"password", "clients", "certificates", "ech_server_keys", "listen"}))

XrayMieruIn(n) ==
  Accept(/\ XrayRawTcp(n) /\ XraySecurity(n) = "none" /\ XrayListens(n)
         /\ XrayClient(n) \in {"none", "no-secret"} => Has(n, "password") \/ (XrayClient(n) = "none" /\ Has(n, "auth"))
         /\ XraySecondOk(n) /\ Val(n, "settings_network", "tcp") # "bogus",
         "cipher", FALSE, Carried(n, {"clients", "user", "password", "auth", "settings_network", "listen"}))

(* The secret of the first client, of hysteriaSettings or of the settings, *)
(* and one for every other client.                                         *)
XrayHysteriaSecretsOk(n) ==
  XraySecondOk(n) /\ (XrayClient(n) \in {"none", "no-secret"} => ~None(n, {"hysteria_auth", "auth", "password"}))
XrayHysteria2In(protocol, n) ==
  Accept(/\ XrayHysteriaOk(protocol, n) /\ Val(n, "network", "tcp") = "hysteria" /\ XraySecurity(n) \in {"none", "tls"}
         /\ XrayIdentityOk(n) /\ XrayListens(n) /\ XrayHysteriaSecretsOk(n),
         "tls", FALSE, XrayHysteriaCarried(n) @@ Carried(n, {"clients", "hysteria_auth", "auth", "password", "certificates", "listen"}))

XrayTrojanIn(n) ==
  LET t == XrayTransport(n) IN
  Accept(/\ None(n, {"fallbacks"}) /\ XraySecurity(n) = "tls" /\ t.ok /\ AlpnOk(t.kind, Val(n, "alpn", "")) /\ XrayIdentityOk(n)
         /\ XrayClient(n) \notin {"none", "no-secret"} /\ XraySecondOk(n) /\ XrayListens(n),
         "tls", FALSE, WithTransport(Carried(n, {"clients", "certificates", "ech_server_keys", "listen"}), t))

(* xray_reality_server_config and RealityServerConfig::from_strings.       *)
XrayRealityInOk(n) ==
  /\ Val(n, "dest", "no-port") # "no-port"
  /\ Val(n, "private_key", "bad") # "bad"
  /\ Has(n, "short_ids") \/ Val(n, "short_id", "") # "bad"

XrayVlessIn(n) ==
  LET t        == XrayTransport(n)
      security == XraySecurity(n)
      secret   == CASE security = "tls" -> {"certificates", "ech_server_keys"}
                    [] security = "reality" -> {"dest", "private_key", "server_names", "reality_alpn"} \cup (IF Has(n, "short_ids") THEN {"short_ids"} ELSE {"short_id"})
                    [] OTHER -> {}
  IN Accept(/\ Val(n, "decryption", "none") = "none" /\ None(n, {"fallbacks"}) /\ security # "bogus" /\ t.ok
            /\ IF security = "none" THEN Val(n, "alpn", "") = "" ELSE AlpnOk(t.kind, XrayAlpn(n))
            /\ XrayClient(n) \notin {"none", "no-secret"} /\ XraySecondOk(n) /\ XrayListens(n)
            /\ XrayClient(n) # "second-differs"      \* one flow for the inbound
            /\ security = "tls" => XrayIdentityOk(n)
            /\ security = "reality" => XrayRealityInOk(n),
            IF security = "none" THEN "plain" ELSE security, FALSE, WithTransport(Carried(n, {"clients", "flow", "listen"} \cup secret), t))

XrayVmessIn(n) ==
  LET t   == XrayTransport(n)
      tls == XraySecurity(n) = "tls"
  IN Accept(/\ XraySecurity(n) \in {"none", "tls"} /\ t.ok /\ None(n, {"alter_id"})
            /\ IF tls THEN AlpnOk(t.kind, Val(n, "alpn", "")) /\ XrayIdentityOk(n) ELSE Val(n, "alpn", "") = ""
            /\ XrayClient(n) \notin {"none", "no-secret", "alter-id"} /\ XraySecondOk(n) /\ XrayListens(n),
            IF tls THEN "tls" ELSE "plain", FALSE,
            WithTransport(Carried(n, {"clients", "listen"} \cup IF tls THEN {"certificates", "ech_server_keys"} ELSE {}), t))

XrayInbound(protocol, n) ==
  IF ~XrayDecodes(n) THEN Refused
  ELSE CASE protocol = "anytls" -> XrayAnyTlsIn(n) [] protocol = "shadowsocks" -> XrayShadowsocksIn(n)
         [] protocol \in {"hysteria", "hysteria2"} -> XrayHysteria2In(protocol, n) [] protocol = "mieru" -> XrayMieruIn(n)
         [] protocol = "trojan" -> XrayTrojanIn(n) [] protocol = "vless" -> XrayVlessIn(n) [] protocol = "vmess" -> XrayVmessIn(n) [] OTHER -> Refused

(* The local listeners: local_socks_listen takes no authentication, no     *)
(* proxy settings and no stream options; tun_config takes the interface    *)
(* fields among the unknown ones, and ignores a value of the wrong type.   *)
XrayPlainStream(n) ==
  /\ XrayDecodes(n) /\ XrayRawTcp(n) /\ XraySecurity(n) = "none"
  /\ None(n, DOMAIN XrayBlocks \cup DOMAIN XrayTlsSettings \cup DOMAIN XrayReality \cup DOMAIN XrayHysteria)
XrayLocalSocks(n) ==
  Accept(XrayPlainStream(n) /\ XrayListens(n) /\ None(n, DOMAIN XraySettings), "plain", FALSE, Carried(n, {"listen"}))
XrayTunOptions == [interface |-> {"x"}, mtu |-> {"x", "mistyped"}, auto_route |-> {"x", "mistyped"}, exclude |-> {"x", "mistyped"}, address |-> {"v4", "v6"}]
XrayTun(n) ==
  Accept(XrayPlainStream(n) /\ None(n, DOMAIN XraySettings) /\ Val(n, "exclude", "") # "mistyped", "plain", FALSE,
         [o \in {p \in {"interface", "mtu", "auto_route", "exclude"} \cap DOMAIN n : n[p] # "mistyped"} |-> n[o]]
           @@ [ipv6 |-> IF Val(n, "address", "") = "v6" THEN "on" ELSE "off"])
=============================================================================
