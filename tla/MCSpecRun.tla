----------------------------- MODULE MCSpecRun -----------------------------
(***************************************************************************)
(* Instances of SpecRun for TLC. The store holds a ZIP-like file with a    *)
(* skipped document, and a file that may change between two fetches, and   *)
(* may be unreadable or hold nothing usable.                               *)
(***************************************************************************)
EXTENDS SpecRunInvariant

CONSTANTS f1, f2, f3

Doc(title, paths, webhooks) ==
    [title |-> title, paths |-> paths, webhooks |-> webhooks]

NoItems == <<>>
Item(key, item) == [k \in {key} |-> item]

\* A webhook that takes the key of a path; an untracked method is dropped.
Petstore == Doc(<<"pets">>, Item(<<"x">>, {"get", "trace"}),
                            Item(<<"x">>, {"post"}))
Orders   == Doc(<<"orders">>, Item(<<"y">>, {"get"}), Item(<<"z">>, NotADict))
Untitled == Doc(<<>>, Item(<<"w">>, {"put"}), NoItems)

MCVersions == [f \in {f1, f2, f3} |->
    CASE f = f1 -> {<<Untitled, Petstore>>}
      [] f = f2 -> {<<Orders>>, <<Petstore, Orders>>}
      [] f = f3 -> {<<Orders>>, <<Untitled>>, Corrupt}]

Places == {"two", "odd", "empty"}
MCListing == [s \in {"acme", "tenant"} |-> [l \in Places |->
    CASE l = "two"   -> <<f1, f2>>
      [] l = "odd"   -> IF s = "tenant" THEN <<f3>> ELSE <<f2>>
      [] l = "empty" -> <<>>]]

C == <<"c1">>

Input(usage, type, location, url, agent, source, load) ==
    [connection_usage |-> usage,
     connection |-> C, connection_qualified_name |-> C,
     import_type |-> type, location |-> location, spec_url |-> url,
     openapi_credential |-> None, agent |-> agent, cloud_source |-> source,
     load_to_atlan |-> load, tenant_store |-> TRUE]

Cloud(usage, location, agent, source) ==
    Input(usage, "CLOUD", location, None, agent, source, TRUE)
Url(usage, url, load) == Input(usage, "URL", None, url, None, None, load)

\* Two spec files, a new connection and a shared one.
TwoFiles == {Cloud(u, "two", "acme", None) : u \in {"CREATE", "REUSE"}}

\* Every way in, and every reason to refuse one.
AllWays ==
    {Url(u, f, l) : u \in {"CREATE", "REUSE"}, f \in {f1, f3, None}, l \in BOOLEAN}
    \cup {Cloud("CREATE", l, r, s) :
            l \in {"odd", "empty", None}, r \in {None, "acme", "bare", "misrouted"},
            s \in {None, "acme"}}
    \cup {[Url("REUSE", f1, TRUE) EXCEPT !.connection_qualified_name = q] :
            q \in {<<>>, Placeholder}}
    \cup {[Url("CREATE", f1, TRUE) EXCEPT !.connection = <<>>],
          Input("CREATE", "DIRECT", None, f1, None, None, TRUE),
          [Cloud("CREATE", "odd", None, "bare") EXCEPT !.tenant_store = FALSE],
          [Cloud("CREATE", "odd", "misrouted", None)
             EXCEPT !.openapi_credential = "acme"],
          Cloud("REUSE", "two", "acme", None)}
============================================================================
