----------------------- MODULE FetchMerkleTreeProofs -----------------------
(***************************************************************************)
(* What a round is stored with, proved for every number of providers,      *)
(* every set of answers they may send and every number of rounds.          *)
(***************************************************************************)
EXTENDS FetchMerkleTree, TLAPS

\* A tree the checks have let through for message r.
VerifiedFor(tree, r) ==
    /\ MerkleRoot(tree) = RootOnChain(r)
    /\ \A i \in DOMAIN tree :
          tree[i].kind = "attestation" <=> r.protocol = "fdc"

\* The answer accepted belongs to the round being fetched.
DataVerified == data # <<>> => root \in Root /\ VerifiedFor(data, root)

StoredVerified == \A r \in Root : stored[r] # <<>> => VerifiedFor(stored[r], r)

\* A provider that was good all the time is good now...
SteadyGood == steady \subseteq good

\* ...and has not been asked while the fetch is still looking.
SteadyUnasked == data = <<>> => \A p \in steady : p >= client

IInv ==
    /\ TypeOK
    /\ DataVerified
    /\ StoredVerified
    /\ SteadyGood
    /\ SteadyUnasked

-----------------------------------------------------------------------------
(* The checks                                                              *)

\* The tree agreed on is a sequence of leaves of its protocol that name its
\* round.
LEMMA AgreedTreeType ==
    ASSUME NEW r \in Root
    PROVE  /\ AgreedTree(r) \in Seq(Leaf)
           /\ \A i \in DOMAIN AgreedTree(r) :
                 /\ AgreedTree(r)[i].round = r.round
                 /\ AgreedTree(r)[i].body = r.round
                 /\ AgreedTree(r)[i].kind = "attestation" <=> r.protocol = "fdc"
                 /\ AgreedTree(r)[i] \in Leaf
<1>1. r.round \in Rounds
  BY DEF Root
<1>2. CASE r.protocol = "ftso"
  <2>1. [kind |-> "random", round |-> r.round, body |-> r.round] \in Leaf
    BY <1>1 DEF Leaf
  <2>2. [kind |-> "feed", round |-> r.round, body |-> r.round] \in Leaf
    BY <1>1 DEF Leaf
  <2> QED BY <1>2, <2>1, <2>2 DEF AgreedTree
<1>3. CASE r.protocol = "fdc"
  <2>1. [kind |-> "attestation", round |-> r.round, body |-> r.round] \in Leaf
    BY <1>1 DEF Leaf
  <2> QED BY <1>3, <2>1 DEF AgreedTree
<1> QED BY <1>2, <1>3 DEF Root

\* The tree agreed on passes the checks of its protocol.
LEMMA RightAnswerAccepted ==
    ASSUME root \in Root
    PROVE  Accepted(RightAnswer(root))
<1> DEFINE t == AgreedTree(root)
<1>1. CASE root.protocol = "ftso"
  <2>1. /\ Len(t) = 2
        /\ t # <<>>
        /\ Head(t).kind = "random"
        /\ t[2].kind = "feed"
    BY <1>1 DEF AgreedTree
  <2>2. FtsoParses(RightAnswer(root))
    <3>1. RightAnswer(root).status = "OK" /\ RightAnswer(root).tree = t
      BY DEF RightAnswer
    <3>2. \A i \in 2 .. Len(t) : i = 2
      BY <2>1
    <3> HIDE DEF t
    <3> QED BY <2>1, <3>1, <3>2 DEF FtsoParses
  <2>3. FtsoVerifies(RightAnswer(root))
    BY DEF FtsoVerifies, RightAnswer, RootOnChain
  <2> QED BY <1>1, <2>2, <2>3 DEF Accepted
<1>2. CASE root.protocol = "fdc"
  <2>1. t # <<>>
    BY <1>2 DEF AgreedTree
  <2>2. FdcParses(RightAnswer(root))
    BY <1>2, AgreedTreeType DEF FdcParses, RightAnswer
  <2>3. FdcVerifies(RightAnswer(root))
    BY <2>1 DEF FdcVerifies, RightAnswer, RootOnChain
  <2> QED BY <1>2, <2>2, <2>3 DEF Accepted
<1> QED BY <1>1, <1>2 DEF Root

\* The leaves of an accepted answer are all attestations, or none is.
LEMMA AcceptedKinds ==
    ASSUME root \in Root, NEW answer, answer.tree \in Seq(Leaf), Accepted(answer),
           NEW i \in DOMAIN answer.tree
    PROVE  answer.tree[i].kind = "attestation" <=> root.protocol = "fdc"
<1> DEFINE t == answer.tree
<1>1. CASE root.protocol = "ftso"
  <2>1. FtsoParses(answer)
    BY <1>1 DEF Accepted
  <2>2. i = 1 \/ i \in 2 .. Len(t)
    OBVIOUS
  <2>3. CASE i = 1
    <3>1. t[i] = Head(t)
      BY <2>3
    <3> QED BY <1>1, <2>1, <3>1 DEF FtsoParses
  <2>4. CASE i \in 2 .. Len(t)
    BY <1>1, <2>1, <2>4 DEF FtsoParses
  <2> QED BY <2>2, <2>3, <2>4
<1>2. CASE root.protocol = "fdc"
  BY <1>2 DEF Accepted, FdcParses
<1> QED BY <1>1, <1>2 DEF Root

\* An accepted answer, of a good provider or of any other, is a verified tree.
LEMMA AcceptedIsVerified ==
    ASSUME root \in Root, NEW p \in Providers,
           NEW answer \in AnswersOf(p), Accepted(answer)
    PROVE  answer.tree \in Seq(Leaf) /\ VerifiedFor(answer.tree, root)
<1>1. MerkleRoot(answer.tree) = RootOnChain(root)
  BY DEF Accepted, FtsoVerifies, FdcVerifies
<1>2. answer.tree \in Seq(Leaf)
  <2>1. CASE p \in good
    <3>1. answer.tree = AgreedTree(root)
      BY <2>1 DEF AnswersOf, RightAnswer
    <3> QED BY <3>1, AgreedTreeType
  <2>2. CASE p \notin good
    <3>1. answer.tree \in Trees
      BY <2>2 DEF AnswersOf, Answer
    <3> QED BY <3>1, FetchAssumption
  <2> QED BY <2>1, <2>2
<1>3. \A i \in DOMAIN answer.tree :
         answer.tree[i].kind = "attestation" <=> root.protocol = "fdc"
  BY <1>2, AcceptedKinds
<1> QED BY <1>1, <1>2, <1>3 DEF VerifiedFor

\* A verified tree has only leaves with the values agreed on for its round; in
\* an FTSO tree they also name it.
LEMMA VerifiedIsOfItsRound ==
    ASSUME NEW r \in Root, NEW tree \in Seq(Leaf), VerifiedFor(tree, r),
           NEW i \in DOMAIN tree
    PROVE  /\ tree[i].body = r.round
           /\ r.protocol = "ftso" => tree[i].round = r.round
<1>1. Hash(tree[i]) \in RootOnChain(r)
  BY DEF VerifiedFor, MerkleRoot
<1>2. PICK j \in DOMAIN AgreedTree(r) : Hash(tree[i]) = Hash(AgreedTree(r)[j])
  BY <1>1 DEF RootOnChain, MerkleRoot
<1>3. /\ AgreedTree(r)[j].round = r.round
      /\ AgreedTree(r)[j].body = r.round
      /\ AgreedTree(r)[j].kind = "attestation" <=> r.protocol = "fdc"
  BY <1>2, AgreedTreeType
<1>4. tree[i].kind = "attestation" <=> r.protocol = "fdc"
  BY DEF VerifiedFor
<1>5. CASE r.protocol = "ftso"
  <2>1. FeedResultHash(tree[i]) = FeedResultHash(AgreedTree(r)[j])
    BY <1>2, <1>3, <1>4, <1>5 DEF Hash
  <2>2. FeedResultHash(tree[i]).round = FeedResultHash(AgreedTree(r)[j]).round
    BY <2>1
  <2>3. FeedResultHash(tree[i]).body = FeedResultHash(AgreedTree(r)[j]).body
    BY <2>1
  <2> QED BY <1>3, <2>2, <2>3 DEF FeedResultHash
<1>6. CASE r.protocol = "fdc"
  <2>1. AttestationResultHash(tree[i]) = AttestationResultHash(AgreedTree(r)[j])
    BY <1>2, <1>3, <1>4, <1>6 DEF Hash
  <2>2. AttestationResultHash(tree[i]).body
            = AttestationResultHash(AgreedTree(r)[j]).body
    BY <2>1
  <2> QED BY <1>3, <1>6, <2>2 DEF AttestationResultHash
<1> QED BY <1>5, <1>6 DEF Root

-----------------------------------------------------------------------------
(* The inductive invariant                                                 *)

LEMMA InitInvariant == Init => IInv
<1> SUFFICES ASSUME Init PROVE IInv
  OBVIOUS
<1>1. TypeOK
  BY FetchAssumption DEF Init, TypeOK, Providers, NoRoot
<1>2. DataVerified /\ StoredVerified /\ SteadyGood /\ SteadyUnasked
  BY DEF Init, DataVerified, StoredVerified, SteadyGood, SteadyUnasked
<1> QED BY <1>1, <1>2 DEF IInv

LEMMA StepInvariant == IInv /\ [Next]_vars => IInv'
<1> SUFFICES ASSUME IInv, [Next]_vars PROVE IInv'
  OBVIOUS
<1> USE FetchAssumption
<1>1. CASE Process
  <2>1. TypeOK'
    BY <1>1 DEF IInv, TypeOK, Process, Providers, NoRoot
  <2>2. data = <<>>
    BY <1>1 DEF IInv, DataVerified, Process, Root, NoRoot
  <2>3. DataVerified' /\ StoredVerified'
    BY <1>1, <2>2
    DEF IInv, Process, DataVerified, StoredVerified, VerifiedFor
  <2>4. SteadyGood' /\ SteadyUnasked'
    BY <1>1 DEF IInv, TypeOK, Process, SteadyGood, SteadyUnasked, Providers
  <2> QED BY <2>1, <2>3, <2>4 DEF IInv
<1>2. CASE ProviderAccepted
  <2>1. root \in Root /\ client \in Providers
    BY <1>2 DEF IInv, TypeOK, ProviderAccepted, Fetching, Providers
  <2>2. PICK answer \in AnswersOf(client) :
            Accepted(answer) /\ data' = answer.tree
    BY <1>2 DEF ProviderAccepted
  <2>3. data' \in Seq(Leaf) /\ VerifiedFor(data', root)
    BY <2>1, <2>2, AcceptedIsVerified
  <2>4. TypeOK'
    BY <1>2, <2>3 DEF IInv, TypeOK, ProviderAccepted
  <2>5. DataVerified'
    BY <1>2, <2>1, <2>3
    DEF ProviderAccepted, DataVerified, VerifiedFor, MerkleRoot, RootOnChain
  <2>6. StoredVerified' /\ SteadyGood'
    BY <1>2 DEF IInv, ProviderAccepted, StoredVerified, VerifiedFor, SteadyGood
  <2>7. SteadyUnasked'
    BY <1>2
    DEF IInv, ProviderAccepted, Fetching, SteadyUnasked
  <2> QED BY <2>4, <2>5, <2>6, <2>7 DEF IInv
<1>3. CASE ProviderRejected
  <2>1. root \in Root /\ client \in Providers /\ data = <<>>
    BY <1>3 DEF IInv, TypeOK, ProviderRejected, Fetching, Providers
  <2>2. TypeOK'
    BY <1>3 DEF IInv, TypeOK, ProviderRejected, NextClient
  <2>3. DataVerified' /\ StoredVerified' /\ SteadyGood'
    BY <1>3
    DEF IInv, ProviderRejected, DataVerified, StoredVerified, VerifiedFor,
        SteadyGood
  <2>4. client \notin good
    BY <1>3, <2>1, RightAnswerAccepted DEF ProviderRejected, AnswersOf
  <2>5. \A p \in steady : p >= client /\ p # client
    BY <2>1, <2>4 DEF IInv, SteadyGood, SteadyUnasked
  <2>6. SteadyUnasked'
    BY <1>3, <2>5
    DEF IInv, TypeOK, ProviderRejected, NextClient, SteadyUnasked, Providers
  <2> QED BY <2>2, <2>3, <2>6 DEF IInv
<1>4. CASE AllProvidersFailed
  <2>1. TypeOK'
    BY <1>4 DEF IInv, TypeOK, AllProvidersFailed
  <2>2. DataVerified' /\ StoredVerified'
    BY <1>4
    DEF IInv, AllProvidersFailed, Fetching, DataVerified, StoredVerified,
        VerifiedFor
  <2>3. SteadyGood' /\ SteadyUnasked'
    BY <1>4 DEF AllProvidersFailed, SteadyGood, SteadyUnasked
  <2> QED BY <2>1, <2>2, <2>3 DEF IInv
<1>5. CASE Store
  <2>1. root \in Root /\ VerifiedFor(data, root)
    BY <1>5 DEF IInv, Store, DataVerified
  <2>2. TypeOK'
    <3>1. stored' \in [Root -> Seq(Leaf)]
      BY <1>5 DEF IInv, TypeOK, Store
    <3>2. data' \in Seq(Leaf) /\ client' \in 1 .. N + 1
      BY <1>5 DEF Store, Finish
    <3> QED BY <1>5, <3>1, <3>2 DEF IInv, TypeOK, Store, Finish
  <2>3. StoredVerified'
    <3> SUFFICES ASSUME NEW r \in Root, stored'[r] # <<>>
                 PROVE  VerifiedFor(stored'[r], r)
      BY DEF StoredVerified, VerifiedFor, MerkleRoot, RootOnChain
    <3>1. CASE r = root
      BY <1>5, <2>1, <3>1 DEF IInv, TypeOK, Store
    <3>2. CASE r # root
      BY <1>5, <3>2 DEF IInv, TypeOK, Store, StoredVerified
    <3> QED BY <3>1, <3>2
  <2>4. DataVerified' /\ SteadyGood' /\ SteadyUnasked'
    BY <1>5 DEF Store, Finish, DataVerified, SteadyGood, SteadyUnasked
  <2> QED BY <2>2, <2>3, <2>4 DEF IInv
<1>6. CASE StoreFails
  <2>1. TypeOK'
    BY <1>6 DEF IInv, TypeOK, StoreFails, Finish
  <2>2. StoredVerified'
    BY <1>6 DEF IInv, StoreFails, StoredVerified, VerifiedFor
  <2>3. DataVerified' /\ SteadyGood' /\ SteadyUnasked'
    BY <1>6 DEF StoreFails, Finish, DataVerified, SteadyGood, SteadyUnasked
  <2> QED BY <2>1, <2>2, <2>3 DEF IInv
<1>7. CASE ProviderChanges
  <2>1. TypeOK'
    BY <1>7 DEF IInv, TypeOK, ProviderChanges
  <2>2. DataVerified' /\ StoredVerified'
    BY <1>7
    DEF IInv, ProviderChanges, DataVerified, StoredVerified, VerifiedFor
  <2>3. SteadyGood' /\ SteadyUnasked'
    BY <1>7 DEF IInv, ProviderChanges, SteadyGood, SteadyUnasked
  <2> QED BY <2>1, <2>2, <2>3 DEF IInv
<1>8. CASE UNCHANGED vars
  BY <1>8
  DEF IInv, TypeOK, DataVerified, StoredVerified, VerifiedFor, SteadyGood,
      SteadyUnasked, vars
<1> QED
  BY <1>1, <1>2, <1>3, <1>4, <1>5, <1>6, <1>7, <1>8 DEF Next, Step

LEMMA Invariant == Spec => []IInv
BY InitInvariant, StepInvariant, PTL DEF Spec

-----------------------------------------------------------------------------
(* The results                                                             *)

\* Every variable of a fetch stays within its type.
THEOREM FetchTypeCorrect == Spec => []TypeOK
<1>1. IInv => TypeOK
  BY DEF IInv
<1> QED BY <1>1, Invariant, PTL

\* Data is stored for a round only if its tree has the root that the Relay
\* contract has for the round.
THEOREM StoredTreesMatchChain == Spec => []StoredHasRootOnChain
<1>1. IInv => StoredHasRootOnChain
  BY DEF IInv, StoredVerified, VerifiedFor, StoredHasRootOnChain
<1> QED BY <1>1, Invariant, PTL

\* Whatever the providers send, every leaf stored for a round has a value agreed
\* on for that round, and every random number and feed bears its number.
THEOREM StoredTreesAreOfTheirRound == Spec => []StoredUnderItsRound
<1>1. IInv => StoredUnderItsRound
  <2> SUFFICES ASSUME IInv, NEW r \in Root, NEW i \in DOMAIN stored[r]
               PROVE  /\ stored[r][i].body = r.round
                      /\ r.protocol = "ftso" => stored[r][i].round = r.round
    BY DEF StoredUnderItsRound
  <2>1. stored[r] \in Seq(Leaf)
    BY DEF IInv, TypeOK
  <2>2. stored[r] # <<>>
    BY <2>1
  <2>3. VerifiedFor(stored[r], r)
    BY <2>2 DEF IInv, StoredVerified
  <2> QED BY <2>1, <2>3, VerifiedIsOfItsRound
<1> QED BY <1>1, Invariant, PTL

\* A fetch fails only if no provider was good from its beginning to its end.
THEOREM OneGoodProviderSuffices == Spec => OneGoodProviderIsEnough
<1>1. IInv /\ [Next]_vars => [AllProvidersFailed => steady = {}]_vars
  <2> SUFFICES ASSUME IInv, AllProvidersFailed PROVE steady = {}
    OBVIOUS
  <2>1. \A p \in steady : p >= N + 1
    BY DEF IInv, SteadyUnasked, AllProvidersFailed, Fetching
  <2> QED BY <2>1, FetchAssumption DEF IInv, TypeOK, Providers
<1> QED BY <1>1, Invariant, PTL DEF Spec, OneGoodProviderIsEnough

=============================================================================
