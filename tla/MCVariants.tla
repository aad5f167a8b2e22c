----------------------------- MODULE MCVariants -----------------------------
(***************************************************************************)
(* Modules of the other runs under constants of their own, for TLC: two    *)
(* sessions the triggers take for one, overlapping executions of           *)
(* event_of_minute, a home server radmin changes and whose identifiers run *)
(* out, logins whose SQL queries fail, and two browsers of one tree.  A    *)
(* behaviour is one part, the others stay as they began.                   *)
(***************************************************************************)
EXTENDS AccountingLossy

CONSTANTS
    x1, alice, bras1, bras2, sid1, w1, w2,                    \* accounting
    r1, r2, p1,                                               \* proxying
    s1, s2,                                                   \* logins
    r, f, sub, l, Top, a, b                                   \* nodes and browsers

VARIABLES
    part,
    lap_now, lap_online, lap_offline, lap_byte_remain, lap_second_remain,
    lap_next_id, lap_blocked, lap_job, lap_form, lap_sess, lap_used, lap_begun,
    lap_net,
    home, ping, proxied, up,
    pc, code, retry, to_home, refused, rows,
    tree, view, posts, tree_used, removed, attached

lapState == <<lap_now, lap_online, lap_offline, lap_byte_remain, lap_second_remain,
    lap_next_id, lap_blocked, lap_job, lap_form, lap_sess, lap_used, lap_begun,
    lap_net>>
homeState == <<home, ping, proxied, up>>
loginState == <<pc, code, retry, to_home, refused, rows>>
treeState == <<tree, view, posts, tree_used, removed, attached>>
mcVars == <<part, vars, lapState, homeState, loginState, treeState>>
-----------------------------------------------------------------------------
\* Two BRASes that chose the same Acct-Session-Id for sessions of one user.
OneUser == [x \in Uid |-> alice]
TwoBras == [x \in Uid |-> IF x = x1 THEN bras1 ELSE bras2]
SameSid == [x \in Uid |-> sid1]
UserOne == [x \in {x1} |-> alice]
BrasOne == [x \in {x1} |-> bras1]
SidOne == [x \in {x1} |-> sid1]
Quota == [u \in {alice} |-> 3]
NoQuota == [u \in {alice} |-> 0]

\* Two executions of event_of_minute at a time.
Lap == INSTANCE AccountingLossy WITH
    Uid <- {x1}, User <- {alice}, Nas <- {bras1}, Sid <- {sid1},
    UserOf <- UserOne, NasOf <- BrasOne, SidOf <- SidOne, ByteGrant <- Quota,
    SecondGrant <- NoQuota, Worker <- {w1, w2}, StaleAfter <- 1, MaxOctets <- 1,
    MaxId <- 2, MaxTime <- 3, Horizon <- 3, MaxPackets <- 2,
    now <- lap_now, online <- lap_online, offline <- lap_offline, byte_remain <-
    lap_byte_remain, second_remain <- lap_second_remain, next_id <- lap_next_id,
    blocked <- lap_blocked, job <- lap_job, form <- lap_form, sess <- lap_sess, used
    <- lap_used, begun <- lap_begun, net <- lap_net

Home == INSTANCE HomeServer WITH
    req <- proxied, Requests <- {r1, r2}, Pings <- {p1}, MaxOutstanding <- 1,
    PingCheck <- "status", PingsToAlive <- 1, MaxTimeouts <- 1, MaxSent <- 1,
    Overlap <- TRUE, Lossy <- TRUE, SocketFails <- TRUE, NoIds <- TRUE, Admin <- TRUE

Logins == INSTANCE Login WITH
    proxied <- to_home, Stations <- {s1, s2}, Limit <- 1, MaxRows <- 1, Overlap <- TRUE,
    SqlFails <- TRUE, Proxying <- TRUE

\* A chain of four nodes, and two browsers of its root, one save after the other.
Chain == [n \in {r, f, sub, l} |-> CASE n = r -> Top [] n = f -> r [] n = sub -> f [] n = l -> sub]
AtRoot == [n \in {a, b} |-> r]
Shared == INSTANCE OrgTree WITH
    Node <- {r, f, sub, l}, Pid <- Chain, Folder <- {r, f, sub},
    Existing <- {r, f}, Admin <- {a, b}, RootOf <- AtRoot, MaxPosts <- 1, Overlap <- FALSE,
    used <- tree_used

ASSUME Shared!TreeAssumption /\ Shared!Aligned
-----------------------------------------------------------------------------
MCInit ==
    /\ part \in {"two", "overlap", "home", "login", "tree"}
    /\ Init /\ Lap!Init /\ Home!Init /\ Logins!Init /\ Shared!Init

MCNext ==
    /\ UNCHANGED part
    /\ \/ /\ part = "two" /\ Next
          /\ UNCHANGED <<lapState, homeState, loginState, treeState>>
       \/ /\ part = "overlap" /\ Lap!Next
          /\ UNCHANGED <<vars, homeState, loginState, treeState>>
       \/ /\ part = "home" /\ Home!Next
          /\ UNCHANGED <<vars, lapState, loginState, treeState>>
       \/ /\ part = "login" /\ Logins!Next
          /\ UNCHANGED <<vars, lapState, homeState, treeState>>
       \/ /\ part = "tree" /\ Shared!Next
          /\ UNCHANGED <<vars, lapState, homeState, loginState>>

MCSpec == MCInit /\ [][MCNext]_mcVars
-----------------------------------------------------------------------------
\* Overlapping executions of event_of_minute bill what they put into the ledger; a
\* home server is not overcounted though commands of radmin and failed insertions
\* into the hash cross with replies; no login whose SQL queries fail, or that runs
\* beside another one, is accepted by default, and each is answered; and saves of
\* two browsers with lists of different age leave no node without its parent.
FaultsContained ==
    /\ [](Lap!StillRecorded /\ Home!NeverOvercounted /\ Shared!TreeInSync)
    /\ Logins!RepliesSafe
=============================================================================
