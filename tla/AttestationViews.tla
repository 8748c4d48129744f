-------------------------- MODULE AttestationViews --------------------------
(***************************************************************************)
(* The FDC endpoints of both API versions (src/fdc/views/v0.py and v1.py)  *)
(* over the table of attestations, while rounds are stored and dropped.    *)
(*                                                                         *)
(* Every endpoint is one query, hence one step.  A round's attestations    *)
(* are stored, and dropped, in one step: ProtocolStore shows why.          *)
(*                                                                         *)
(* Abstractions                                                            *)
(*  - A row is an attestation of a round with its request; what it says    *)
(*    depends on the request alone, decoding is external, ABI and proof    *)
(*    come with the row.  A request is attested once in a round.           *)
(*  - The rows stored for a round carry its number, which no code checks   *)
(*    (fdc/models.py:74, 98).                                              *)
(*  - A text of request bytes is a request and its notation: with a 0x     *)
(*    prefix or plain.  Providers send it plain, and that is stored.       *)
(***************************************************************************)
EXTENDS Integers, DictTransform

CONSTANTS
    Requests,              \* attestation requests users have emitted
    Attested,              \* the requests attested in each round
    Response,              \* the decoded response to each request
    History,               \* HISTORY_KEEP_ROUNDS
    MaxRound               \* bound: the last voting round

Rounds == 0 .. MaxRound

ASSUME AttestedAssumption ==
    /\ MaxRound \in Nat
    /\ History \in Nat
    /\ Attested \in [Rounds -> SUBSET Requests]

ASSUME ResponseAssumption == \A q \in Requests : IsDocument(Response[q])

VARIABLES
    now,                   \* the active voting round
    results,               \* rows of fdc_attestationresult
    answer                 \* the last answer given, and to which question

vars == <<now, results, answer>>

AttestationResult == [round : Rounds, request : Requests]

Text == [request : Requests, notation : {"0x", "plain"}]

\* request_hex of a row, as FdcProcessor stored it.
RequestHex(row) == [request |-> row.request, notation |-> "plain"]

UnPrefix0x(text) == [text EXCEPT !.notation = "plain"]

NoRound == -1
NoText == [request |-> "none", notation |-> "none"]
NoAnswer == [endpoint |-> "none", text |-> NoText, round |-> NoRound,
             status |-> 0, rows |-> {}, responses |-> {}]

Endpoints == {"v0 list", "v0 get-proof-round-id-bytes",
              "v0 get-proof-round-bytes", "v1 list",
              "v1 proof-by-request-round"}

TypeOK ==
    /\ now \in Rounds
    /\ results \in SUBSET [round : 0 .. now - 1, request : Requests]
    /\ \/ answer = NoAnswer
       \/ /\ answer.endpoint \in Endpoints
          /\ answer.text \in Text \cup {NoText}
          /\ answer.round \in Rounds \cup {NoRound}
          /\ answer.status \in {200, 400}
          /\ answer.rows \in SUBSET AttestationResult

Init ==
    /\ now = 0
    /\ results = {}
    /\ answer = NoAnswer

-----------------------------------------------------------------------------
(* The queries                                                             *)

InRound(r) == {row \in results : row.round = r}

\* Mutant: the bytes are compared as they come.
MatchingAsSent(text) == {row \in results : RequestHex(row) = text}

\* filter(request_hex=un_prefix_0x(...)).
Matching(text) == {row \in results : RequestHex(row) = UnPrefix0x(text)}

\* filter(request_hex=...) of get-proof-round-bytes, which does not strip 0x.
MatchingExactly(text) == {row \in results : RequestHex(row) = text}

\* Mutant: order_by("voting_round_id").
FirstIsOldest(rows) == {row \in rows : \A other \in rows : row.round <= other.round}

\* order_by("-voting_round_id").first(): the row, or nothing.
First(rows) == {row \in rows : \A other \in rows : row.round >= other.round}

\* Mutant: the usual status for what is not there.
Status404(found) == IF found = {} THEN 404 ELSE 200

\* "attestation request not found" is a 400.
Status(found) == IF found = {} THEN 400 ELSE 200

V0 == {"v0 list", "v0 get-proof-round-id-bytes", "v0 get-proof-round-bytes"}

\* The property response_ts of a row.
ResponseTs == [q \in Requests |-> DictTransform(Response[q])]

\* The field "response" of AttestationResultV0Serializer is response_ts, that
\* of AttestationResultV1Serializer is response.
Serialized(endpoint, row) ==
    IF endpoint \in V0 THEN ResponseTs[row.request] ELSE Response[row.request]

Answered(endpoint, text, r, status, rows) ==
    answer' = [endpoint |-> endpoint, text |-> text, round |-> r,
               status |-> status, rows |-> rows,
               responses |-> {Serialized(endpoint, row) : row \in rows}]

-----------------------------------------------------------------------------
(* Version 0                                                               *)

\* The round is in the query, or now_id() is taken.
V0List ==
    /\ \E r \in Rounds \cup {NoRound} :
          Answered("v0 list", NoText, r, 200,
                   InRound(IF r = NoRound THEN now ELSE r))
    /\ UNCHANGED <<now, results>>

\* Mutant: filtered by the request alone.
ThatRoundAny(text, r) == Matching(text)

ThatRound(text, r) == Matching(text) \cap InRound(r)

\* .get(): DoesNotExist is answered with 400.
V0ProofRoundIdBytes ==
    /\ \E text \in Text, r \in Rounds :
          Answered("v0 get-proof-round-id-bytes", text, r,
                   Status(ThatRound(text, r)), ThatRound(text, r))
    /\ UNCHANGED <<now, results>>

\* .first() does not raise DoesNotExist: without a match the serializer gets
\* None and the answer is 200 all the same.
V0ProofRoundBytes ==
    /\ \E text \in Text :
          Answered("v0 get-proof-round-bytes", text, NoRound, 200,
                   First(MatchingExactly(text)))
    /\ UNCHANGED <<now, results>>

-----------------------------------------------------------------------------
(* Version 1                                                               *)

\* list and raw, which differ in the serializer.
V1List ==
    /\ \E r \in Rounds : Answered("v1 list", NoText, r, 200, InRound(r))
    /\ UNCHANGED <<now, results>>

Candidates(text, r) ==
    IF r = NoRound THEN Matching(text) ELSE Matching(text) \cap InRound(r)

\* proof-by-request-round and proof-by-request-round-raw.
V1ProofByRequestRound ==
    /\ \E text \in Text, r \in Rounds \cup {NoRound} :
          LET found == First(Candidates(text, r))
          IN  Answered("v1 proof-by-request-round", text, r, Status(found),
                       found)
    /\ UNCHANGED <<now, results>>

-----------------------------------------------------------------------------
(* The table                                                               *)

NextRound ==
    /\ now < MaxRound
    /\ now' = now + 1
    /\ UNCHANGED <<results, answer>>

\* FdcProcessor.process: a round that is over, late ones after later ones.
StoreRound ==
    /\ \E r \in 0 .. now - 1 :
          /\ InRound(r) = {}
          /\ results' = results \cup
                {[round |-> r, request |-> q] : q \in Attested[r]}
    /\ UNCHANGED <<now, answer>>

\* Mutant: the newest rounds go.
KeptNewest(row) == row.round <= now - History

Kept(row) == row.round >= now - History

DeleteHistory ==
    /\ results' = {row \in results : Kept(row)}
    /\ UNCHANGED <<now, answer>>

Endpoint ==
    \/ V0List
    \/ V0ProofRoundIdBytes
    \/ V0ProofRoundBytes
    \/ V1List
    \/ V1ProofByRequestRound

Next == Endpoint \/ NextRound \/ StoreRound \/ DeleteHistory

Spec == Init /\ [][Next]_vars

-----------------------------------------------------------------------------
(* Properties                                                              *)

\* What a question about request bytes asks for: the matching row, of the
\* round given or else of the latest round, in either notation.
AskedFor(text, r) ==
    {row \in results :
        /\ row.request = text.request
        /\ r # NoRound => row.round = r
        /\ \A other \in results :
              other.request = text.request /\ r = NoRound
                  => other.round <= row.round}

NewAnswer(endpoints) == answer' # answer /\ answer'.endpoint \in endpoints

\* v1/request.py:6 "If not provided latest matching proof will be fetched
\* instead": with a round, both versions answer the same, and not found means
\* that there is no such row, in whatever notation the bytes were sent.
ProofAsAsked ==
    [][NewAnswer({"v0 get-proof-round-id-bytes", "v1 proof-by-request-round"})
          => /\ answer'.rows = AskedFor(answer'.text, answer'.round)
             /\ answer'.status = 200 <=> answer'.rows # {}]_vars

\* While rounds are stored late, out of order, and dropped, the latest proof
\* of a request never turns into an older one.
LatestNeverGoesBack ==
    [][\A text \in Text :
          \A old \in First(Matching(text)), new \in First(Matching(text))' :
             new.round >= old.round]_vars

\* Version 0 sends the response with every integer, however deep in lists and
\* dicts, as text ("this is needed since javascript number type is a float",
\* models.py:57), and nothing else changed; version 1 sends it as it is.
IntegersAsText ==
    LET AsText(item) == IF item.type = "int" THEN Leaf("str", item.value) ELSE item
        Typescript(data) == [path \in DOMAIN data |-> AsText(data[path])]
        said == {Response[row.request] : row \in answer.rows}
    IN  answer.responses =
            IF answer.endpoint \in V0 THEN {Typescript(data) : data \in said}
            ELSE said

\* v0.py:85 "Retrieves the last attestation minimal proof based on request
\* bytes": with or without the prefix, as in the other endpoints.
LastProofFound ==
    [][NewAnswer({"v0 get-proof-round-bytes"})
          => answer'.rows = AskedFor(answer'.text, NoRound)]_vars

=============================================================================
