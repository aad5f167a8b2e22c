---------------------------- MODULE SessionState ----------------------------
(***************************************************************************)
(* The session state of a conversation of several packets (main/state.c):  *)
(* attributes of a request that answers Access-Challenge are kept in a     *)
(* table under the State attribute sent to the client, and handed to the   *)
(* request that comes back with it.  The functions run under the table's   *)
(* mutex, so each is one step; between the request's first call            *)
(* (fr_state_get_vps, from rad_authenticate) and its last (fr_state_put_vps *)
(* or fr_state_discard, from rad_postauth) other requests run.             *)
(*                                                                         *)
(* A State is the request that drew its random octets and the number of    *)
(* tries mixed into it.  A list of attributes is stood for by the request  *)
(* whose modules began it.  entry->opaque is never set by this code and is *)
(* left out, as is the optional "client lost" section: it runs on          *)
(* attributes that have left the table.                                    *)
(***************************************************************************)
EXTENDS Integers, FiniteSets

CONSTANTS Requests,      \* the Access-Requests there are
          NoVps,         \* no attributes
          MaxEntries,    \* 2 * max_requests
          Lifetime,      \* 2 * max_request_time
          MaxNow         \* bound: the clock

StateAssumption ==
  /\ NoVps \notin Requests
  /\ IsFiniteSet(Requests)
  /\ {MaxEntries, Lifetime, MaxNow} \subseteq Nat

VARIABLES req,       \* the requests
          entries,   \* global_state.tree
          now        \* time(NULL)

vars == <<req, entries, now>>

Data == Requests \union {NoVps}

\* entry->state; a request without State has "none".
Tries == 0..Cardinality(Requests)

Keys == [root : Requests, tries : Tries]

NoKey == [root |-> NoVps, tries |-> 0]

Entry == [key : Keys, ctx : BOOLEAN, vps : Data, cleanup : 0..MaxNow + Lifetime]

Request == [pc    : {"new", "run", "challenge", "final"},
            in    : Keys \union {NoKey},     \* State of the packet
            out   : Keys \union {NoKey},     \* State of the Access-Challenge
            ctx   : BOOLEAN,                 \* state_ctx # NULL
            vps   : Data,                    \* request->state
            got   : BOOLEAN]                 \* ghost: it got attributes

TypeOK ==
  /\ req \in [Requests -> Request]
  /\ entries \subseteq Entry
  /\ now \in 0..MaxNow

Init ==
  /\ req = [r \in Requests |->
              [pc |-> "new", in |-> NoKey, out |-> NoKey,
               ctx |-> TRUE, vps |-> NoVps, got |-> FALSE]]
  /\ entries = {}
  /\ now = 0

\* fr_state_find
Found(table, k) == {e \in table : e.key = k}

\* A packet without State starts a conversation.
Begin(r) ==
  /\ req[r].pc = "new"
  /\ req' = [req EXCEPT ![r].pc = "run"]
  /\ UNCHANGED <<entries, now>>

\* What fr_state_get_vps leaves of an entry.
Taken(e) == [e EXCEPT !.ctx = FALSE, !.vps = NoVps]

\* The client answers the challenge of request p, and fr_state_get_vps
\* moves the attributes of the entry into the request.  A client may send
\* the answer again.
Get(r, p) ==
  LET k == req[p].out
      f == Found(entries, k)
  IN  /\ req[r].pc = "new"
      /\ req[p].pc = "challenge"
      /\ k # NoKey
      /\ req' = [req EXCEPT ![r] =
           [@ EXCEPT !.pc = "run", !.in = k,
                     !.ctx = \A e \in f : e.ctx,
                     !.got = \E e \in f : e.vps # NoVps,
                     !.vps = IF f = {} THEN NoVps
                                       ELSE (CHOOSE e \in f : TRUE).vps]]
      /\ entries' = (entries \ f) \union {Taken(e) : e \in f}
      /\ UNCHANGED now

\* Mutant: entries are not kept until their time.
CleanedEarly(table) == {e \in table : e.ctx /\ e.cleanup > now + 1}

\* fr_state_cleanup_find: unused entries and those whose time has come go.
Cleaned(table) == {e \in table : e.ctx /\ e.cleanup > now}

\* Mutant: the State that came back is sent again.
NewKeySame(r, old) ==
  IF req[r].in # NoKey THEN req[r].in ELSE [root |-> r, tries |-> 0]

\* A State made from the old one, or drawn at random.
NewKey(r, old) ==
  IF old = {} THEN [root |-> r, tries |-> 0]
              ELSE LET k == (CHOOSE e \in old : TRUE).key
                   IN  [k EXCEPT !.tries = @ + 1]

Full(table) == Cardinality(table) >= MaxEntries

\* fr_state_put_vps with no attributes: only a State is added.
PutNothing(r) ==
  /\ req' = [req EXCEPT ![r] =
       [@ EXCEPT !.pc = "challenge", !.vps = NoVps,
                 !.out = [root |-> r, tries |-> 0]]]
  /\ UNCHANGED entries

\* The list that request->state points to after the modules added to it.
Kept(r) == IF req[r].vps # NoVps THEN req[r].vps ELSE r

\* fr_state_put_vps: clean up, make the new entry, free the old one.  When
\* the table is full nothing is kept, and the request is freed with its
\* attributes.
PutVps(r) ==
  LET table == Cleaned(entries)
      old   == Found(table, req[r].in)
      k     == NewKey(r, old)
  IN  \/ /\ Full(table)
         /\ entries' = table
         /\ req' = [req EXCEPT ![r] =
              [@ EXCEPT !.pc = "challenge", !.vps = NoVps]]
      \/ /\ ~Full(table)
         /\ entries' = (table \ old) \union
              {[key |-> k, ctx |-> req[r].ctx, vps |-> Kept(r),
                cleanup |-> now + Lifetime]}
         /\ req' = [req EXCEPT ![r] =
              [@ EXCEPT !.pc = "challenge", !.vps = NoVps, !.out = k]]

\* rad_postauth of an Access-Challenge; the modules had left attributes in
\* &session-state, or had not.
Put(r) ==
  /\ req[r].pc = "run"
  /\ PutNothing(r) \/ PutVps(r)
  /\ UNCHANGED now

\* fr_state_discard, on Access-Accept and Access-Reject.
Discard(r) ==
  /\ req[r].pc = "run"
  /\ req' = [req EXCEPT ![r] = [@ EXCEPT !.pc = "final", !.vps = NoVps]]
  /\ entries' = entries \ Found(entries, req[r].in)
  /\ UNCHANGED now

Tick ==
  /\ now < MaxNow
  /\ now' = now + 1
  /\ UNCHANGED <<req, entries>>

Next ==
  \/ \E r \in Requests : Begin(r) \/ Put(r) \/ Discard(r)
  \/ \E r, p \in Requests : Get(r, p)
  \/ Tick

Spec == Init /\ [][Next]_vars

(***************************************************************************)
(* Properties.                                                             *)
(***************************************************************************)
\* A list of attributes belongs to one entry or to one request:
\* the pointers are moved under the mutex and never shared (a shared one
\* would be freed twice).
OneOwner ==
  \A c \in Requests :
    Cardinality({e \in entries : e.vps = c})
      + Cardinality({r \in Requests : req[r].vps = c}) <= 1

\* The attributes kept under one State are handed out once: a packet that
\* is sent again, at any later time, finds none, and in particular never
\* those of a later round of its conversation.
AnsweredOnce ==
  \A r, p \in Requests :
    r # p /\ req[r].got /\ req[p].got => req[r].in # req[p].in

\* fr_state_entry_create keeps the table within 2 * max_requests.
Bounded == Cardinality(entries) <= MaxEntries

\* No challenge has been answered twice so far.
AnswersOnce ==
  \A r, p \in Requests : r # p /\ req[r].in = req[p].in => req[r].in = NoKey

\* Until a client answers a challenge a second time, an entry whose
\* attributes nobody took stays until its cleanup time, unless its own
\* conversation replaces or ends it: fr_state_cleanup_find deletes early
\* only what is unused, whatever other conversations do.
KeptUntilCleanup ==
  [][AnswersOnce =>
       \A e \in entries :
         /\ e.vps # NoVps
         /\ e.cleanup > now
         /\ \A r \in Requests : req'[r] # req[r] => req'[r].in # e.key
         => e \in entries']_vars

\* Every Access-Challenge carries a State: fr_state_put_vps puts it there.
ChallengeHasState ==
  \A r \in Requests : req[r].pc = "challenge" => req[r].out # NoKey

\* When the entry of the packet's State is in the table, the new State is
\* based on the old one, as fr_state_entry_create intends.
BasedOnOld ==
  [][\A r \in Requests :
       /\ req'[r].pc # req[r].pc
       /\ Found(entries, req[r].in) # {}
       /\ Found(entries', req'[r].out) # {}
       => req'[r].out.root = req[r].in.root]_vars
=============================================================================
