----------------------------- MODULE ConfigNode -----------------------------
(***************************************************************************)
(* The vocabulary shared by the configuration mappers of config_compat and *)
(* of the native configuration.  A node (a proxy, an outbound, an inbound) *)
(* is a function from the options its file sets to their values; an option *)
(* that is not set is not in its domain.  The value of an option is a      *)
(* string that stands for the class of values the mappers tell apart; a    *)
(* nested object is one option whose value says which of its fields is     *)
(* set, "extra" being a field no decoder knows.  A mapper refuses the node *)
(* or produces a configuration, of which these modules keep the channel,   *)
(* whether certificates go unverified, and the values it carries over.     *)
(***************************************************************************)
EXTENDS Integers, FiniteSets, Sequences, TLC

Has(n, o) == o \in DOMAIN n
Val(n, o, d) == IF Has(n, o) THEN n[o] ELSE d
On(n, o) == Val(n, o, "off") = "on"
None(n, options) == options \cap DOMAIN n = {}
Carried(n, options) == [o \in options \cap DOMAIN n |-> n[o]]
Without(n, o) == [p \in DOMAIN n \ {o} |-> n[p]]

Refused == [ok |-> FALSE]

(* What a mapper returns: the node is refused unless every ensure held.    *)
Accept(ok, channel, insecure, carried) ==
  IF ok THEN [ok |-> TRUE, channel |-> channel, insecure |-> insecure, carried |-> carried] ELSE Refused

(* Unknown fields of the node itself, and of a nested object.              *)
NoExtra(n) == None(n, {"extra"})
ObjectOk(n, o) == Val(n, o, "") # "extra"

(* value_has_data: null, false, zero, "" and empty collections do not      *)
(* count, a present block with an empty value is the value "empty".        *)
HasData(n, o) == Val(n, o, "empty") # "empty"

(* from_network and its aliases; raw TCP has no settings to keep.          *)
NetworkKind(network) ==
  CASE network \in {"", "tcp", "raw"} -> "tcp"
    [] network \in {"ws", "websocket"} -> "ws"
    [] network = "httpupgrade" -> "httpupgrade"
    [] network \in {"h2", "http", "http2"} -> "h2"
    [] network = "grpc" -> "grpc"
    [] network \in {"xhttp", "splithttp"} -> "xhttp"
    [] OTHER -> "unsupported"

XhttpModeOk(settings) == settings # "packet-up"

Transport(network, settings) ==
  LET kind == NetworkKind(network) IN
  [ok |-> kind # "unsupported" /\ (kind = "xhttp" => XhttpModeOk(settings)),
   kind |-> kind,
   settings |-> IF kind = "tcp" \/ settings = "empty" THEN "" ELSE settings]

(* ensure_vless_alpn: the ALPN a transport dictates may be repeated.       *)
TransportAlpn(kind) == IF kind \in {"h2", "grpc"} THEN "h2" ELSE IF kind = "xhttp" THEN "http/1.1" ELSE ""
AlpnOk(kind, alpn) == alpn \in {"", TransportAlpn(kind)}
Hy2AlpnOk(alpn) == alpn \in {"", "h3"}
TuicAlpnOk(alpn) == alpn \in {"", "h3"}
HttpAlpnOk(alpn) == alpn \in {"", "http/1.1"}

(* Merging the transport into what a configuration carries.                *)
WithTransport(carried, t) == carried @@ ("transport" :> t.kind) @@ ("settings" :> t.settings)
=============================================================================
