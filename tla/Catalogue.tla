----------------------------- MODULE Catalogue -----------------------------
(***************************************************************************)
(* The sources flx knows (src/providers) and which of them a run asks       *)
(* (ProxyFetcher::new in src/fetcher/mod.rs).  A source is                  *)
(*   [types, mode, timeout, schema]                                         *)
(* with the protocols of the rows that name none, the parser, the seconds a *)
(* download may take and, for JSON, the schema of the rows.                 *)
(***************************************************************************)
EXTENDS Naturals, SequencesExt

Socks == {"SOCKS4", "SOCKS5"}
Tunnels == {"CONNECT:25", "CONNECT:80", "CONNECT:443"}
Common == {"HTTP", "HTTPS"} \cup Socks \cup Tunnels

\* Source::http, typed, all, socks, new: no types at all stand for the common ones.
DefaultTypes(kind) ==
    CASE kind = "all" -> Common
      [] kind = "http" -> {"HTTP", "HTTPS"} \cup Tunnels
      [] kind = "socks" -> Socks
      [] OTHER -> {kind}
NewTypes(types) == IF types = {} THEN Common ELSE types

NoSchema == [rows |-> <<>>, ip |-> <<>>, port |-> <<>>, one |-> {}, many |-> {}, fixed |-> {}]
TypedSource(kind, mode, timeout) ==
    [types |-> DefaultTypes(kind), mode |-> mode, timeout |-> timeout, schema |-> NoSchema]
JsonSource(kind, timeout, schema) ==
    [types |-> DefaultTypes(kind), mode |-> "json rows", timeout |-> timeout, schema |-> schema]

\* JsonPath::parse, JsonRowsConfig: no empty segment, and one way to say the protocol.
PathParses(segments) == \A i \in DOMAIN segments : segments[i] # ""
SchemaBuilds(s) ==
    /\ PathParses(s.rows) /\ PathParses(s.ip) /\ PathParses(s.port)
    /\ s.ip # <<>> /\ s.port # <<>>
    /\ s.one = {} \/ s.many = {}
    /\ \A p \in s.one \cup s.many : PathParses(p)

Pages(n, source) == [page \in 1..n |-> source]
Each(kinds, mode, timeout) == [i \in DOMAIN kinds |-> TypedSource(kinds[i], mode, timeout)]
-----------------------------------------------------------------------------
(* The lists of each provider, in their order.                               *)
Proxyscrape == Each(<<"http", "SOCKS4", "SOCKS5">>, "plaintext", 20)
OpenProxyList == Each(<<"http", "SOCKS4", "SOCKS5">>, "plaintext", 15)
Geonode ==
    Pages(3, JsonSource("all", 8, [rows |-> <<"data">>, ip |-> <<"ip">>, port |-> <<"port">>,
                                   one |-> {}, many |-> {<<"protocols">>}, fixed |-> {}]))
FreeProxyList == Each(<<"http", "http", "http", "SOCKS4">>, "html table", 15)
FreeProxyWorld == Pages(15, TypedSource("http", "html table", 15))
ProxyListOrg == Pages(10, TypedSource("http", "base64 rows", 15))
MyProxy == <<TypedSource("http", "regex pairs", 15)>>
ProxyNova ==
    <<JsonSource("all", 15, [rows |-> <<"data">>, ip |-> <<"ip">>, port |-> <<"port">>,
                             one |-> {}, many |-> {}, fixed |-> {"HTTP"}])>>
HProxy == Each(<<"HTTP", "HTTPS", "SOCKS4", "SOCKS5">>, "plaintext", 15)
ProxyDb == Pages(3, TypedSource("all", "html table", 15))
HideMyName == <<TypedSource("all", "html table", 10)>>
SpysOne == <<TypedSource("all", "html table", 10)>>
Stormsia ==
    <<JsonSource("all", 20, [rows |-> <<>>, ip |-> <<"host">>, port |-> <<"port">>,
                             one |-> {<<"protocol">>}, many |-> {}, fixed |-> {}])>>
GithubKinds ==
    LET three == <<"http", "SOCKS4", "SOCKS5">>
        four == <<"HTTP", "HTTPS", "SOCKS4", "SOCKS5">>
    IN  three \o three \o three \o <<"SOCKS5", "http">> \o three \o <<"http">> \o three \o three
            \o three \o <<"http">> \o three \o three \o four \o four \o four \o <<"all", "all">>
GithubRaw == Each(GithubKinds, "plaintext", 20)

\* all_providers, in the order of the registry.
Names == <<"proxyscrape", "openproxylist", "geonode", "free-proxy-list", "freeproxy-world",
           "proxylist-org", "my-proxy", "proxynova", "hproxy", "proxydb", "hidemy.name",
           "spys.one", "stormsia", "github-raw">>
Lists == <<Proxyscrape, OpenProxyList, Geonode, FreeProxyList, FreeProxyWorld, ProxyListOrg,
           MyProxy, ProxyNova, HProxy, ProxyDb, HideMyName, SpysOne, Stormsia, GithubRaw>>

\* Providers whose lists are asked only when the others were not enough.
Tier(name) == IF name \in {"stormsia", "github-raw"} THEN "fallback" ELSE "primary"
-----------------------------------------------------------------------------
\* select_providers: in the list, if there is one, and not excluded.
Selected(names, include, exclude) ==
    SelectSeq(names, LAMBDA n : (include = {} \/ n \in include) /\ n \notin exclude)

\* ProxyFetcher::new: a name nobody has is an error; "custom" is one once a source of the user's
\* own is given; those sources are asked whatever is selected.
Accepted(include, custom) ==
    include \subseteq ToSet(Names) \cup (IF custom > 0 THEN {"custom"} ELSE {})
Providers(include, exclude, custom) ==
    Selected(Names, include, exclude) \o [k \in 1..custom |-> "custom"]

SourcesOf(name) ==
    IF name = "custom" THEN <<[TypedSource("all", "plaintext", 3) EXCEPT !.types = NewTypes({})]>>
    ELSE Lists[CHOOSE i \in DOMAIN Names : Names[i] = name]

\* What is asked in a phase; one timeout may stand for those of the sources.
Scheduled(tier, providers, timeout) ==
    LET asked == SelectSeq(providers, LAMBDA n : Tier(n) = tier)
        sources == FlattenSeq([i \in DOMAIN asked |-> SourcesOf(asked[i])])
    IN  [i \in DOMAIN sources |->
            IF timeout = {} THEN sources[i]
            ELSE [sources[i] EXCEPT !.timeout = CHOOSE t \in timeout : TRUE]]
=============================================================================
