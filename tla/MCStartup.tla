----------------------------- MODULE MCStartup -----------------------------
(* Configurations for Startup: both protocols, one commented out, one      *)
(* variable missing, lists of each kind of unequal lengths, a blank        *)
(* protocol, another chain, no history, no RPC_URL, a setting of indexing  *)
(* that is no number, no migration at the start.                           *)
EXTENDS Startup

MCTexts == {"n1", "n2", "n3", "u1", "u2", "u3", "k1", "k2", Blank}

Lists(names, urls, keys) ==
    [LOGGING_NAMES |-> names, URLS |-> urls, API_KEYS |-> keys]

Two == Lists(<<"n1", "n2">>, <<"u1", "u2">>, <<"k1", Blank>>)
One == Lists(<<"n3">>, <<"u3">>, <<Blank>>)
Nothing == Lists(Unset, Unset, Unset)
NoKeys == Lists(<<"n1", "n2">>, <<"u1", "u2">>, Unset)
Empty == Lists(<<Blank>>, <<Blank>>, <<Blank>>)
ShortNames == Lists(<<"n1">>, <<"u1", "u2">>, <<"k1", "k2">>)
ShortUrls == Lists(<<"n1", "n2">>, <<"u1">>, <<"k1", "k2">>)
ShortKeys == Lists(<<"n1", "n2">>, <<"u1", "u2">>, <<"k1">>)

Usual == [rpc_url |-> "http://node", chain |-> 14, history |-> 28800,
          indexing_in_numbers |-> TRUE, auto_migrate |-> TRUE,
          FTSO |-> Two, FDC |-> One]

MCEnvironments ==
    {Usual,
     [Usual EXCEPT !.FTSO = Empty, !.FDC = Nothing,
                   !.history = Unset, !.auto_migrate = FALSE],
     [Usual EXCEPT !.FTSO = NoKeys, !.chain = 114],
     [Usual EXCEPT !.rpc_url = Unset],
     [Usual EXCEPT !.chain = 1],
     [Usual EXCEPT !.indexing_in_numbers = FALSE]}
      \cup {[Usual EXCEPT !.FTSO = bad] : bad \in {ShortNames, ShortUrls, ShortKeys}}

=============================================================================
