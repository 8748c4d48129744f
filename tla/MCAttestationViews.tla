------------------------ MODULE MCAttestationViews ------------------------
(* AttestationViews with a request attested in every round but one, and    *)
(* another attested once.                                                  *)
EXTENDS AttestationViews

CONSTANTS q1, q2

MCRequests == {q1, q2}
MCAttested == [r \in Rounds |-> IF r = 1 THEN {q1, q2}
                                ELSE IF r = 2 THEN {} ELSE {q1}]

\* A response with dicts in a list in a dict, a list in a list, integers next
\* to containers and a Boolean; and a flat one.
MCResponse ==
    (q1 :> (<<>> :> Container("dict")
            @@ <<"votingRound">> :> Leaf("int", "1")
            @@ <<"body">> :> Container("dict")
            @@ <<"body", "listEvents">> :> Leaf("bool", "1")
            @@ <<"body", "events">> :> Container("list")
            @@ <<"body", "events", "0">> :> Container("dict")
            @@ <<"body", "events", "0", "logIndex">> :> Leaf("int", "5")
            @@ <<"body", "events", "0", "topics">> :> Container("list")
            @@ <<"body", "events", "0", "topics", "0">> :> Leaf("str", "0a")
            @@ <<"matrix">> :> Container("list")
            @@ <<"matrix", "0">> :> Container("list")
            @@ <<"matrix", "0", "0">> :> Leaf("int", "7")))
    @@ (q2 :> (<<>> :> Container("dict")
               @@ <<"amount">> :> Leaf("int", "9")
               @@ <<"source">> :> Leaf("str", "XRP")))

=============================================================================
