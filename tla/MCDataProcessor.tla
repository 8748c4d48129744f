-------------------------- MODULE MCDataProcessor --------------------------
(* Small chains for DataProcessor.                                         *)
EXTENDS DataProcessor

\* Four logs: two messages of the protocol in one block, a foreign log
\* between, a third message later.
MCLog == 1 .. 4
MCOwn == {1, 2, 4}
MCBlock == <<2, 2, 3, 4>>
MCRound == <<1, 2, 2, 3>>

\* A shorter chain.
LiveLog == 1 .. 3
LiveOwn == {1, 3}
LiveBlock == <<1, 2, 2>>
LiveRound == <<1, 1, 2>>

=============================================================================
