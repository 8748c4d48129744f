-------------------------- MODULE FetchMerkleTree --------------------------
(***************************************************************************)
(* Processor.fetch_merkle_tree (src/processing/processing.py) with the     *)
(* clients and checks of both protocols: the providers are asked in order, *)
(* an answer that does not parse or whose tree does not have the root on   *)
(* chain sends the process to the next provider, and the first good answer *)
(* is stored.                                                              *)
(*                                                                         *)
(* Abstractions                                                            *)
(*  - The processes of the two protocols fetch independently of each other,*)
(*    so one fetch at a time stands for both.                              *)
(*  - A leaf has the round it claims and a body; body r stands for the     *)
(*    values the protocol agreed on in round r.                            *)
(*  - Hashes do not collide, and the Merkle root is that of the set of the *)
(*    leaves' hashes.                                                      *)
(*  - The hash of an FTSO leaf covers its round.  That of an FDC leaf      *)
(*    covers only response_hex: whatever roundId is sent with it is stored.*)
(***************************************************************************)
EXTENDS Integers, Sequences

CONSTANTS
    N,                     \* the number of providers of each protocol
    MaxRound,              \* bound: rounds 1 .. MaxRound
    Trees                  \* what a provider may send as its leaves

Providers == 1 .. N
Rounds == 1 .. MaxRound

\* The part of a ProtocolMessageRelayed that names what to fetch.
Root == [protocol : {"ftso", "fdc"}, round : Rounds]
NoRoot == [protocol |-> "none", round |-> 0]

Leaf == [kind : {"random", "feed", "attestation"}, round : Rounds, body : Rounds]

ASSUME FetchAssumption ==
    /\ N \in Nat
    /\ MaxRound \in Nat
    /\ Trees \subseteq Seq(Leaf)

VARIABLES
    good,                  \* providers that answer correctly at the moment
    steady,                \* history: those that did since the fetch began
    root,                  \* the message being processed; NoRoot
    client,                \* the next of self.providers
    data,                  \* the answer accepted
    stored                 \* the leaves in the tables for each message

vars == <<good, steady, root, client, data, stored>>

TypeOK ==
    /\ good \in SUBSET Providers
    /\ steady \in SUBSET Providers
    /\ root \in Root \cup {NoRoot}
    /\ client \in 1 .. N + 1
    /\ data \in Seq(Leaf)
    /\ stored \in [Root -> Seq(Leaf)]

-----------------------------------------------------------------------------
(* Roots                                                                   *)

\* Mutant: the round is not among the fields hashed.
FeedResultHashNoRound(leaf) == [kind |-> leaf.kind, body |-> leaf.body]

FeedResultHash(leaf) == [kind |-> leaf.kind, round |-> leaf.round,
                         body |-> leaf.body]

AttestationResultHash(leaf) == [body |-> leaf.body]

Hash(leaf) == IF leaf.kind = "attestation" THEN AttestationResultHash(leaf)
                                           ELSE FeedResultHash(leaf)

MerkleRoot(tree) == {Hash(tree[i]) : i \in DOMAIN tree}

\* The tree the protocol's clients agreed on.
AgreedTree(r) ==
    IF r.protocol = "ftso"
    THEN <<[kind |-> "random", round |-> r.round, body |-> r.round],
           [kind |-> "feed", round |-> r.round, body |-> r.round]>>
    ELSE <<[kind |-> "attestation", round |-> r.round, body |-> r.round]>>

RootOnChain(r) == MerkleRoot(AgreedTree(r))

-----------------------------------------------------------------------------
(* Answers of a provider to a GET for the round                            *)

\* status: what comes of HTTP and of the status keyword.
Answer == [status : {"no answer", "NOT_AVAILABLE", "OK"},
           merkleRoot : {RootOnChain(r) : r \in Root}, tree : Trees]

RightAnswer(r) == [status |-> "OK", merkleRoot |-> RootOnChain(r),
                   tree |-> AgreedTree(r)]

AnswersOf(provider) ==
    IF provider \in good THEN {RightAnswer(root)} ELSE Answer

\* FtsoClient.get_data: every other answer raises.
FtsoParses(answer) ==
    /\ answer.status = "OK"
    /\ answer.tree # <<>>
    /\ Head(answer.tree).kind = "random"
    /\ \A i \in 2 .. Len(answer.tree) : answer.tree[i].kind = "feed"

\* FdcClient.get_data.
FdcParses(answer) ==
    /\ answer.status = "OK"
    /\ \A i \in DOMAIN answer.tree : answer.tree[i].kind = "attestation"

\* Mutant: only the root the provider claims is compared.
FtsoVerifiesClaimOnly(answer) == answer.merkleRoot = RootOnChain(root)

FtsoVerifies(answer) ==
    /\ answer.merkleRoot = RootOnChain(root)
    /\ MerkleRoot(answer.tree) = answer.merkleRoot

FdcVerifies(answer) ==
    /\ answer.tree # <<>>
    /\ MerkleRoot(answer.tree) = RootOnChain(root)

Accepted(answer) ==
    IF root.protocol = "ftso" THEN FtsoParses(answer) /\ FtsoVerifies(answer)
                              ELSE FdcParses(answer) /\ FdcVerifies(answer)

-----------------------------------------------------------------------------

Init ==
    /\ good \in SUBSET Providers
    /\ steady = {}
    /\ root = NoRoot
    /\ client = 1
    /\ data = <<>>
    /\ stored = [r \in Root |-> <<>>]

\* Processor.process is called for a message without rows.
Process ==
    /\ root = NoRoot
    /\ \E r \in Root :
          /\ stored[r] = <<>>
          /\ root' = r
    /\ client' = 1
    /\ steady' = good
    /\ UNCHANGED <<good, data, stored>>

Fetching == root # NoRoot /\ data = <<>>

\* process_single_provider returns.
ProviderAccepted ==
    /\ Fetching
    /\ client <= N
    /\ \E answer \in AnswersOf(client) :
          /\ Accepted(answer)
          /\ data' = answer.tree
    /\ UNCHANGED <<good, steady, root, client, stored>>

\* Mutants: an error ends the loop over the providers; the last provider is
\* followed by the first; one is left out.
NextClientNone == N + 1
NextClientWraps == (client % N) + 1
NextClientSkips == client + 2

NextClient == client + 1

\* process_single_provider raises: `continue` with the next provider.
ProviderRejected ==
    /\ Fetching
    /\ client <= N
    /\ ~(\A answer \in AnswersOf(client) : Accepted(answer))
    /\ client' = NextClient
    /\ UNCHANGED <<good, steady, root, data, stored>>

\* ValueError: the message goes to the retry queue.
AllProvidersFailed ==
    /\ Fetching
    /\ client = N + 1
    /\ root' = NoRoot
    /\ client' = 1
    /\ steady' = {}
    /\ UNCHANGED <<good, data, stored>>

Finish ==
    /\ root' = NoRoot
    /\ client' = 1
    /\ steady' = {}
    /\ data' = <<>>

\* transaction.atomic commits the root with the data...
Store ==
    /\ data # <<>>
    /\ stored' = [stored EXCEPT ![root] = data]
    /\ Finish
    /\ UNCHANGED good

\* ...or raises.
StoreFails ==
    /\ data # <<>>
    /\ Finish
    /\ UNCHANGED <<good, stored>>

\* Providers come and go; a fresh round is NOT_AVAILABLE for a while.
ProviderChanges ==
    /\ \E S \in SUBSET Providers :
          /\ S # good
          /\ good' = S
          /\ steady' = steady \cap S
    /\ UNCHANGED <<root, client, data, stored>>

Step ==
    \/ ProviderAccepted
    \/ ProviderRejected
    \/ AllProvidersFailed
    \/ Store
    \/ StoreFails

Next == Process \/ Step \/ ProviderChanges

Spec == Init /\ [][Next]_vars

\* A GET ends, with an answer or with its timeout.
FairSpec == Spec /\ WF_vars(Step)

-----------------------------------------------------------------------------
(* Properties                                                              *)

\* README.md:23 "If the roots of both trees match, the data from the providers
\* is then loaded into the database": what is stored for a round has the root
\* the chain has for it, whatever claim, status or tree a provider sends.
StoredHasRootOnChain ==
    \A r \in Root : stored[r] # <<>> => MerkleRoot(stored[r]) = RootOnChain(r)

\* The rows stored with the root of a round say what the protocol agreed on for
\* that round; the random number and the feeds also bear its number, which they
\* get from the answer and not from the message: the views find them by it.
\* Attestations may bear any: their roundId is the provider's word alone
\* (fdc/models.py:74, 98).
StoredUnderItsRound ==
    \A r \in Root : \A i \in DOMAIN stored[r] :
        /\ stored[r][i].body = r.round
        /\ r.protocol = "ftso" => stored[r][i].round = r.round

\* An attempt fails in fetch_merkle_tree only if no provider was good all the
\* time: however the others err, one of them is enough, in any position.
OneGoodProviderIsEnough == [][AllProvidersFailed => steady = {}]_vars

\* Every attempt ends, so the ingest loop gets to the next message.
AttemptsEnd == root # NoRoot ~> root = NoRoot

=============================================================================
