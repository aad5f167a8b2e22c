------------------------------- MODULE MCBoss -------------------------------
(***************************************************************************)
(* SOAP calls and the account page for TLC, twice: calls of four methods   *)
(* that overlap with each other and with the page, and calls of every      *)
(* method one after another with more that can go wrong.  A behaviour is   *)
(* one of the two, the other stays as it began.                            *)
(***************************************************************************)
EXTENDS BossBridge, TLC

CONSTANTS a1, a2, v1, v2, c3

VARIABLES
    part,
    account1, life1, online1, issued1, alive1, cached1, call1, made1, form1

serialState ==
    <<account1, life1, online1, issued1, alive1, cached1, call1, made1, form1>>

TwoMacs == {<<a1, a2>>}

\* One call at a time.
Serial == INSTANCE BossBridge WITH
    Account <- {a1, a2}, Value <- {v1, v2}, MacLists <- TwoMacs, Call <- {c3},
    Used <- Methods, Environment <- {"expiry", "dberror", "loss", "session"},
    MaxCalls <- 3, MaxTokens <- 2, MaxLives <- 1,
    account <- account1, life <- life1, online <- online1, issued <- issued1,
    alive <- alive1, cached <- cached1, call <- call1, made <- made1, form <- form1

\* What the idle part began with is not a choice.
MCInit ==
    /\ part \in {"overlap", "serial"}
    /\ Init /\ Serial!Init
    /\ part = "serial" => \A a \in Account : account[a] = NoRow
    /\ part = "overlap" => \A a \in {a1, a2} : account1[a] = NoRow

MCNext ==
    /\ UNCHANGED part
    /\ \/ part = "overlap" /\ Next /\ UNCHANGED serialState
       \/ part = "serial" /\ Serial!Next /\ UNCHANGED vars

MCSpec == MCInit /\ [][MCNext]_<<part, vars, serialState>>

AlikeCalls == Permutations(Call)

\* SOAP calls made one after another behave as AccountService says, whatever
\* tokens expire, answers get lost and database errors strike.
BossService == [](part = "serial" => Serial!TypeOK) /\ Serial!ServiceSpec
=============================================================================
