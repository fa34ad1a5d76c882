------------------------------ MODULE MCPortal ------------------------------
(* A model-checking instance of Portal. *)
EXTENDS Portal

Ex  == <<"ex", "com">>
Www == <<"www", "ex", "com">>
Api == <<"api", "www", "ex", "com">>

MCHosts  == {"www.ex.com", "api.www.ex.com"}
MCLabels == [h \in MCHosts |-> IF h = "www.ex.com" THEN Www ELSE Api]
MCNames  == {Ex, Www, Api}

A == <<"a">>
MCPaths ==
  {RootPath, A, <<"a", "">>, <<"a", "b">>, <<"a", "b", "">>, <<"a", "b", "c">>,
   <<"b">>, <<"ab">>}

(* Below a name, without a path and a port of the target; a path of the    *)
(* target and an apex, less a path with a glob; a target that is excluded. *)
Carved  == [in  |-> <<WildcardRule(Ex), IpRule("ip1")>>,
            out |-> <<UrlRule("none", Www, 0, A), UrlRule("https", Www, 8443, NoPath)>>]
Partial == [in  |-> <<UrlRule("https", Www, 0, <<"a", "">>), DomainRule(Ex),
                      UrlRule("none", Www, 8443, <<"*", "b">>), CidrRule({"ip1", "ip2"})>>,
            out |-> <<IpRule("ip2"), UrlRule("none", Ex, 443, <<"a", "*", "c">>),
                      UrlRule("http", Ex, 0, RootPath)>>]
Without == [in  |-> <<DomainRule(Ex), WildcardRule(Ex)>>, out |-> <<DomainRule(Www)>>]

(* The target is an asset, and one asset twice; an asset that becomes the  *)
(* target; one asset in two spellings; another's target; no asset.         *)
MCMemories ==
  { [target |-> Www,
     cells  |-> << Cell("url", Www, 0, A, "mixed"), Cell("bare", NoHost, 0, NoPath, "small"),
                   Cell("bare", Www, 8443, RootPath, "small"),
                   Cell("url", Www, 0, A, "mixed") >>],
    [target |-> Ex, cells |-> << Cell("url", Www, 0, RootPath, "small") >>],
    [target |-> Www,
     cells  |-> << Cell("url", Www, 0, A, "mixed"), Cell("url", Www, 0, A, "small") >>],
    [target |-> Www, cells |-> << Cell("bare", Ex, 0, NoPath, "small") >>],
    [target |-> Www, cells |-> << >>] }

MCWritten      == {Carved, Partial, Without}
MCScopeChoices == MCWritten \cup {SuggestedScope(m) : m \in MCMemories}
MCSubmitted    == {Partial, Without}

MCGrants == {<<"target_enumeration", "api.www.ex.com">>}
MCCalls  == {<<"dns_records", "api.www.ex.com">>}
=============================================================================
