---------------------------- MODULE MCPublishDag ----------------------------
(***************************************************************************)
(* An instance of PublishDag for TLC: one workflow that creates its        *)
(* connection, and two that share one with another source and load specs   *)
(* of the same title.                                                      *)
(***************************************************************************)
EXTENDS PublishDag

Doc(title, keys) ==
    [title |-> title, paths |-> [k \in {<<key>> : key \in keys} |-> {"get"}],
     webhooks |-> <<>>]

Pets      == Doc(<<"pets">>, {"x"})
MorePets  == Doc(<<"pets">>, {"x", "y"})
Orders    == Doc(<<"orders">>, {"z"})
\* An entry of a ZIP that lost its title.
Untitled  == Doc(<<>>, {"z"})

Own == <<"own">>
Team == <<"team">>

Input(usage, conn) ==
    [connection_usage |-> usage, connection |-> conn,
     connection_qualified_name |-> conn]

MCInputs == [w \in Workflows |-> IF w = "create" THEN Input("CREATE", Own)
                                                 ELSE Input("REUSE", Team)]

\* One or two spec files, one of them a ZIP; a title in both; a file that is
\* gone, or has nothing usable.
MCReads == [w \in Workflows |->
    CASE w = "create" -> {<<<<MorePets>>, <<Orders>>>>, <<<<Pets, Untitled>>>>,
                          <<<<Pets>>, <<MorePets>>>>, <<<<Untitled>>>>}
      [] w = "reuse1" -> {<<<<Pets>>>>, <<<<Orders>>>>}
      [] w = "reuse2" -> {<<<<MorePets>>>>}]

MCForeign == {[key |-> ConnectionKey(Team), conn |-> Team],
              [key |-> <<"APISpec", Team \o <<"canary">>>>, conn |-> Team]}
============================================================================
