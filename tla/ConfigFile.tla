----------------------------- MODULE ConfigFile -----------------------------
(***************************************************************************)
(* A configuration file being edited and loaded.  The file describes one   *)
(* entry of one format; the user sets and drops options of it, and loading *)
(* runs the mapper of the entry, which refuses it or says what will run.   *)
(***************************************************************************)
EXTENDS ConfigMihomo, ConfigXray, ConfigSingbox, ConfigNative

CONSTANTS Entries,      \* the entries looked at: [format, kind, base]
          MaxEdits      \* how many options the user changes

VARIABLES entry,        \* the entry of the file
          node,         \* its options
          edited,       \* the options the user has set
          edits,        \* the number of changes so far
          outcome       \* what loading the file gave, or Pending

fileVars == <<entry, node, edited, edits, outcome>>
Pending == [ok |-> FALSE, channel |-> "pending"]

(* The decoder and the mapper of an entry.                                 *)
Convert(e, n) ==
  CASE e.format = "mihomo" -> MihomoProxy(e.kind, n)
    [] e.format = "mihomo-listen" -> LocalSocksListen(n)
    [] e.format = "mihomo-tun" -> TunSection(n)
    [] e.format = "xray-out" -> XrayOutbound(e.kind, n)
    [] e.format = "xray-in" -> XrayInbound(e.kind, n)
    [] e.format = "xray-socks" -> XrayLocalSocks(n)
    [] e.format = "xray-tun" -> XrayTun(n)
    [] e.format = "singbox-out" -> SbOutbound(e.kind, n)
    [] e.format = "singbox-in" -> SbInbound(e.kind, n)
    [] e.format = "singbox-socks" -> SbLocalSocks(n)
    [] e.format = "singbox-tun" -> SbTun(n)
    [] e.format = "client" -> NativeClient(e.kind, n)
    [] e.format = "server" -> NativeServer(e.kind, n)

(* The options tried on an entry.  An Xray entry decodes the blocks of     *)
(* every protocol; one field stands for a block its protocol never reads,  *)
(* and one for a list of options that are refused alike.                   *)
XrayOptions(kind) ==
  XraySettings @@ [o \in DOMAIN XrayStream \ (XrayRefusedBlocks \ {"sockopt"}) |-> XrayStream[o]] @@ XrayTlsSettings
    @@ (IF kind = "vless" THEN XrayReality ELSE [public_key |-> {"x"}])
    @@ (IF kind \in {"hysteria", "hysteria2"} THEN XrayHysteria ELSE [mask_udp |-> {"other"}])
OptionsOf(e) ==
  [extra |-> {"x"}] @@
  CASE e.format = "mihomo" -> MihomoKinds[e.kind] @@ [mistyped |-> {"x"}]
    [] e.format = "mihomo-listen" -> ListenOptions
    [] e.format = "mihomo-tun" -> TunOptions
    [] e.format = "xray-out" -> XrayOptions(e.kind) @@ XrayMux @@ [min_version |-> {"x"}, ocsp_stapling |-> {"x"}]
    [] e.format \in {"xray-in", "xray-socks"} -> XrayOptions(e.kind) @@ [listen |-> {"x", "bad"}]
    [] e.format = "xray-tun" -> XrayTunOptions @@ XrayStream
    [] e.format = "singbox-out" -> SbOutboundOptions[e.kind] @@ (IF "tls" \in DOMAIN SbOutboundOptions[e.kind] THEN [min_version |-> {"x"}] ELSE <<>>)
    [] e.format = "singbox-in" -> SbInboundOptions[e.kind] @@ (IF "tls" \in DOMAIN SbInboundOptions[e.kind] THEN [min_version |-> {"x"}] ELSE <<>>)
    [] e.format = "singbox-socks" -> SbLocalSocksOptions
    [] e.format = "singbox-tun" -> SbTunOptions
    [] e.format = "client" -> NativeClientOptions @@ [server |-> {"no-port"}]
    [] e.format = "server" -> NativeServerOptions

Options == [e \in Entries |-> OptionsOf(e)]

Init ==
  /\ entry \in Entries
  /\ node = entry.base
  /\ edited = {}
  /\ edits = 0
  /\ outcome = Pending

Editing == outcome = Pending /\ edits < MaxEdits

SetOption(o, v) ==
  /\ Editing /\ Val(node, o, "") # v
  /\ node' = (o :> v) @@ node
  /\ edited' = edited \cup {o}
  /\ edits' = edits + 1
  /\ UNCHANGED <<entry, outcome>>

DropOption(o) ==
  /\ Editing /\ o \notin edited
  /\ node' = Without(node, o)
  /\ edits' = edits + 1
  /\ UNCHANGED <<entry, edited, outcome>>

Load ==
  /\ outcome = Pending
  /\ outcome' = Convert(entry, node)
  /\ UNCHANGED <<entry, node, edited, edits>>

SetSome ==
  /\ Editing
  /\ LET options == Options[entry] IN \E o \in DOMAIN options : \E v \in options[o] : SetOption(o, v)

Next == SetSome \/ (\E o \in DOMAIN node : DropOption(o)) \/ Load
=============================================================================
