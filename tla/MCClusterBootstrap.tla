------------------------- MODULE MCClusterBootstrap -------------------------
EXTENDS ClusterBootstrap, TLC

CONSTANTS p1, p2

McName == (p1 :> "a") @@ (p2 :> "b")

\* Two members; one with two URLs; a clash of two members; a clash of two out of
\* three; a URL that is refused; the second process not listed.
McConfigs == {
  {<<"a", 1>>, <<"b", 2>>},
  {<<"a", 1>>, <<"a", 2>>, <<"b", 1>>},
  {<<"a", 1>>, <<"b", 1>>},
  {<<"a", 1>>, <<"b", 2>>, <<"c", 1>>},
  {<<"a", 1>>, <<"b", 0>>},
  {<<"a", 1>>, <<"c", 2>>}}

\* The text of URL 1 begins that of URL 2, and the tokens make up for the rest: URL 1
\* with the first token is the same text as URL 2 with the second.
McUrlText == 1 :> <<"h:1">> @@ 2 :> <<"h:1", "0">>
McTokens == {<<"0", "x">>, <<"x">>}

McTexts == {Text(urls) \o t : urls \in {<<1>>, <<2>>, <<1, 2>>, <<2, 1>>}, t \in McTokens}

\* Ids for the seven texts.  In the last one the two URLs share an id with the second
\* token, and the id of URL 2 with the first is raft.None.
McHash(one, two, both, swapped) ==
  [x \in McTexts |->
     CASE x = <<"h:1", "x">> -> one
       [] x = <<"h:1", "0", "x">> -> two
       [] x = <<"h:1", "h:1", "0", "x">> -> both
       [] x = <<"h:1", "0", "h:1", "x">> -> swapped
       [] x = <<"h:1", "0", "0", "x">> -> IF one = two THEN 0 ELSE 5
       [] x = <<"h:1", "h:1", "0", "0", "x">> -> 6
       [] x = <<"h:1", "0", "h:1", "0", "x">> -> 7]

McHashes == {McHash(1, 2, 3, 4), McHash(3, 1, 2, 4), McHash(2, 2, 3, 1)}
=============================================================================
