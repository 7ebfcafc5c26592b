---------------------------- MODULE ConfigNative ----------------------------
(***************************************************************************)
(* config.rs and main.rs: how a [client] or [server] profile of a TOML     *)
(* file becomes a configuration.  One struct serves every protocol, each   *)
(* protocol reads its own fields of it, and a field the struct does not    *)
(* declare is dropped by the decoder.                                      *)
(***************************************************************************)
EXTENDS ConfigNode

(* ClientFileConfig and ServerFileConfig.                                  *)
NativeRoots == {"ca_cert_paths", "ca_certificates", "disable_system_roots", "pinned_cert_sha256"}
NativeStream == [network |-> {"ws", "grpc", "xhttp", "bogus"}, path |-> {"x"}, host |-> {"x"}, headers |-> {"x"}]
NativePatterns == [transport |-> {"udp", "quic", "bogus"}, traffic_pattern |-> {"x", "bad"}, nonce_pattern |-> {"x", "bad"}, mtu |-> {"x"}]
NativeQuic == [obfs |-> {"x"}, obfs_password |-> {"x"}, upload_bandwidth |-> {"x"}, udp |-> {"off"}, udp_over_tcp |-> {"on"}, congestion_control |-> {"x"},
               quic_congestion_control |-> {"x"}, udp_relay_mode |-> {"x"}, heartbeat_interval_secs |-> {"x"}, padding_scheme |-> {"x"}]
NativeCommon == NativeStream @@ NativePatterns @@ NativeQuic @@
  [username |-> {"x"}, user_id |-> {"x"}, security |-> {"x"}, flow |-> {"x"}, tls |-> {"on", "off"}, alpn |-> {"h2"}]
NativeClientOptions == [o \in NativeRoots |-> {"x"}] @@ NativeCommon @@
  [sni |-> {"x"}, insecure |-> {"on"}, certificate_fingerprint |-> {"x"}, packet_encoding |-> {"x"}, mux |-> {"on"}, client_fingerprint |-> {"x"},
   reality_public_key |-> {"x", "bad"}, reality_short_id |-> {"x", "bad"}, download_bandwidth |-> {"x"}]
NativeServerOptions == NativeCommon @@
  [users |-> {"x", "bad"}, cert |-> {"x"}, key |-> {"x"}, certificates |-> {"x"}, key_pem |-> {"x"}, reality_private_key |-> {"x", "bad"},
   reality_server_name |-> {"x"}, reality_short_ids |-> {"x", "bad"}, cc_rx |-> {"x"}, auth_timeout |-> {"x"}, ech_server_keys |-> {"x"}, user_hint_mandatory |-> {"on"}]

(* native_vless_transport; MieruTransport::parse and the pattern pair; the *)
(* user id may stand in the user name, whose default does not count.       *)
NativeTransport(n) == Transport(Val(n, "network", "tcp"), IF None(n, {"path", "host", "headers"}) THEN "" ELSE "path")
NativeMieruOk(n) ==
  Val(n, "transport", "tcp") \in {"tcp", "udp"} /\ Val(n, "traffic_pattern", "") # "bad" /\ Val(n, "nonce_pattern", "") # "bad"
NativeUserOk(n) == ~None(n, {"user_id", "username"})
NativeUser(n) == Carried(n, IF Has(n, "user_id") THEN {"user_id"} ELSE {"username"})
NativeClientTls(n) == Carried(n, NativeRoots \cup {"sni"})
NativeNaiveQuic(n, protocol) == [quic |-> IF Val(n, "transport", "") = "quic" \/ protocol = "naive+quic" THEN "on" ELSE "off"]

(* HTTP: the TLS of the protocol's name, unless tls is set.                *)
NativeHttp(protocol, n) ==
  LET tls == Val(n, "tls", IF protocol = "https" THEN "on" ELSE "off") = "on" IN
  Accept(tls \/ None(n, NativeRoots \cup {"insecure", "client_fingerprint"}), IF tls THEN "tls" ELSE "plain", On(n, "insecure"),
         NativeClientTls(n) @@ Carried(n, {"username", "client_fingerprint", "headers"}))
NativeSocks(n) ==
  Accept(~On(n, "tls") /\ None(n, NativeRoots \cup {"insecure", "client_fingerprint", "alpn", "headers"}), "plain", FALSE, Carried(n, {"username", "udp"}))
NativeVless(n) ==
  LET t == NativeTransport(n)
      reality == Has(n, "reality_public_key")
      tls == ~reality /\ Val(n, "tls", "on") = "on"
  IN Accept(NativeUserOk(n) /\ t.ok /\ (reality => n["reality_public_key"] # "bad" /\ Val(n, "reality_short_id", "") # "bad"),
            IF reality THEN "reality" ELSE IF tls THEN "tls" ELSE "plain", On(n, "insecure"),
            WithTransport(NativeClientTls(n) @@ NativeUser(n) @@ Carried(n, {"flow", "packet_encoding", "mux", "udp", "client_fingerprint"}), t))

NativeTrojan(n) ==
  Accept(NativeTransport(n).ok, "tls", On(n, "insecure"), WithTransport(NativeClientTls(n) @@ Carried(n, {"udp", "client_fingerprint"}), NativeTransport(n)))
NativeVmess(n) ==
  Accept(NativeUserOk(n) /\ NativeTransport(n).ok, IF On(n, "tls") THEN "tls" ELSE "plain", On(n, "insecure"),
         WithTransport(NativeClientTls(n) @@ NativeUser(n) @@ Carried(n, {"security", "packet_encoding", "udp", "client_fingerprint"}), NativeTransport(n)))
NativeAnyTls(n) ==
  Accept(TRUE, "tls", On(n, "insecure"), NativeClientTls(n) @@ Carried(n, {"client_fingerprint", "padding_scheme", "heartbeat_interval_secs"}))

(* run_native_client: one branch per protocol, and AnyTLS at the end.      *)
NativeClient(protocol, n) ==
  IF Val(n, "server", "x") = "no-port" THEN Refused
  ELSE CASE protocol = "hysteria2" -> Accept(TRUE, "tls", On(n, "insecure"), NativeClientTls(n)
              @@ Carried(n, {"certificate_fingerprint", "obfs", "obfs_password", "upload_bandwidth", "download_bandwidth", "udp", "congestion_control"}))
    [] protocol = "mieru" -> Accept(NativeMieruOk(n), "cipher", FALSE, Carried(n, {"username", "mtu", "transport", "traffic_pattern", "nonce_pattern"}))
    [] protocol = "tuic" -> Accept(TRUE, "tls", On(n, "insecure"), NativeClientTls(n)
              @@ Carried(n, {"username", "udp", "udp_relay_mode", "congestion_control", "alpn", "heartbeat_interval_secs"}))
    [] protocol \in {"naive", "naive+quic"} -> Accept(TRUE, "tls", On(n, "insecure"),
              NativeNaiveQuic(n, protocol) @@ NativeClientTls(n) @@ Carried(n, {"username", "headers", "udp_over_tcp", "quic_congestion_control"}))
    [] protocol = "shadowsocks" -> Accept(Has(n, "security"), "cipher", FALSE, Carried(n, {"security", "udp", "udp_over_tcp"}))
    [] protocol \in {"http", "https"} -> NativeHttp(protocol, n)
    [] protocol = "socks" -> NativeSocks(n)
    [] protocol = "trojan" -> NativeTrojan(n)
    [] protocol = "vless" -> NativeVless(n)
    [] protocol = "vmess" -> NativeVmess(n)
    [] protocol = "anytls" -> NativeAnyTls(n)
    [] OTHER -> Refused                          \* ensure_supported_protocol

(* native_tls_paths: a certificate and a key, each as a path or inline.    *)
NativeIdentity == {"cert", "key", "certificates", "key_pem"}
NativeIdentityOk(n) == ~None(n, {"cert", "certificates"}) /\ ~None(n, {"key", "key_pem"})
NativeUsersOk(n) == Val(n, "users", "") # "bad"

NativeVlessIn(n) ==
  LET t == NativeTransport(n)
      reality == Has(n, "reality_private_key")
      tls == ~reality /\ Val(n, "tls", "on") = "on"
  IN Accept(/\ t.ok /\ NativeUserOk(n) /\ (tls => NativeIdentityOk(n))
            /\ reality => Has(n, "reality_server_name") /\ n["reality_private_key"] # "bad" /\ Val(n, "reality_short_ids", "") # "bad",
            IF reality THEN "reality" ELSE IF tls THEN "tls" ELSE "plain", FALSE,
            WithTransport(NativeUser(n) @@ Carried(n, {"users", "flow", "ech_server_keys"} \cup (IF tls THEN NativeIdentity ELSE {})
                                                      \cup (IF reality THEN {"reality_private_key", "reality_server_name", "reality_short_ids"} ELSE {})), t))
(* VMess: any certificate or key turns TLS on, unless tls is set.          *)
NativeVmessIn(n) ==
  LET t == NativeTransport(n)
      tls == Val(n, "tls", IF None(n, NativeIdentity) THEN "off" ELSE "on") = "on"
  IN Accept(t.ok /\ NativeUserOk(n) /\ (tls => NativeIdentityOk(n)), IF tls THEN "tls" ELSE "plain", FALSE,
            WithTransport(NativeUser(n) @@ Carried(n, {"users"} \cup IF tls THEN NativeIdentity \cup {"ech_server_keys"} ELSE {}), t))

NativeAnyTlsIn(n) ==
  Accept(NativeIdentityOk(n), "tls", FALSE, Carried(n, NativeIdentity \cup {"users", "padding_scheme", "heartbeat_interval_secs", "ech_server_keys"}))

(* run_native_server.                                                      *)
NativeServer(protocol, n) ==
  CASE protocol = "hysteria2" -> Accept(NativeIdentityOk(n), "tls", FALSE,
              Carried(n, NativeIdentity \cup {"users", "obfs", "obfs_password", "upload_bandwidth", "udp", "cc_rx", "congestion_control", "auth_timeout"}))
    [] protocol = "mieru" -> Accept(NativeUsersOk(n) /\ NativeMieruOk(n), "cipher", FALSE,
              Carried(n, {"username", "users", "mtu", "user_hint_mandatory", "transport", "traffic_pattern", "nonce_pattern"}))
    [] protocol = "tuic" -> Accept(NativeIdentityOk(n) /\ NativeUsersOk(n), "tls", FALSE,
              Carried(n, NativeIdentity \cup {"username", "users", "udp", "congestion_control", "alpn", "heartbeat_interval_secs"}))
    [] protocol = "shadowsocks" -> Accept(Has(n, "security"), "cipher", FALSE, Carried(n, {"security", "users", "udp", "udp_over_tcp"}))
    [] protocol \in {"naive", "naive+quic"} -> Accept(NativeIdentityOk(n), "tls", FALSE,
              NativeNaiveQuic(n, protocol) @@ Carried(n, NativeIdentity \cup {"username", "users", "udp_over_tcp", "quic_congestion_control"}))
    [] protocol = "trojan" -> Accept(NativeIdentityOk(n) /\ NativeTransport(n).ok, "tls", FALSE,
              WithTransport(Carried(n, NativeIdentity \cup {"users", "ech_server_keys"}), NativeTransport(n)))
    [] protocol = "vless" -> NativeVlessIn(n)
    [] protocol = "vmess" -> NativeVmessIn(n)
    [] protocol = "anytls" -> NativeAnyTlsIn(n)
    [] OTHER -> Refused
=============================================================================
